--------------------------- MODULE MCUsageWindow ---------------------------
(* Two presets and a custom range, one choice, one entity; bookmarks that    *)
(* name each, nothing, and ends that are missing, unreadable or reversed.    *)
EXTENDS UsageWindow

MCOptions == [c \in {"tab"} |-> {"models", "credentials"}]
MCUsual == [c \in {"tab"} |-> "models"]

MCBookmarks ==
    {Empty,
     [Empty EXCEPT !.range = "today", !.detail = <<"person", Junk>>],
     [Empty EXCEPT !.range = "custom", !.from = 2, !.to = 1, !.choice["tab"] = Junk],
     [Empty EXCEPT !.range = "custom", !.from = 1, !.filter["person"] = <<"k", Absent, "k">>]}
=============================================================================
