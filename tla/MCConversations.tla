--------------------------- MODULE MCConversations ---------------------------
(* The model-checking instance of Conversations.  A chat has two tasks that *)
(* append to the file, the directions of a proxy and of a terminal share    *)
(* nothing with another connection, so one does for these; a team's turns   *)
(* follow each other on one.  A chat has two texts and one event, a team's, *)
(* a proxy's and a terminal's connection two of each, the others, which     *)
(* come in pairs, one.                                                      *)
EXTENDS Conversations

Single == {"chat", "proxy", "team", "terminal"}

MCClientsOf == [k \in Kinds |-> IF k \in Single THEN {CHOOSE c \in Conns : TRUE} ELSE Conns]
MCMaxSent   == [k \in Kinds |-> IF k \in Single THEN 2 ELSE 1]
MCMaxEvents == [k \in Kinds |-> IF k \in Single \ {"chat"} THEN 2 ELSE 1]
=============================================================================
