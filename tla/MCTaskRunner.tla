---- MODULE MCTaskRunner ----
(* Two tasks. RedOrNote: the first agent may break the build, the second    *)
(* can report BLOCKED or do nothing; OneSound: enough for a night, whose    *)
(* second task then fails as a silent no-op. EarlyMove: an agent files the  *)
(* second task itself; BackToTodo: one brings the first task back.          *)
EXTENDS TaskRunner
TwoTasks == 1..2
ByAndKind(P) == {[by |-> p[1], kind |-> p[2]] : p \in P}
RedOrNote == ByAndKind({<<1, "sound">>, <<1, "red">>, <<2, "note">>})
OneSound == ByAndKind({<<1, "sound">>})
EarlyMove == {<<2, "done">>}
BackToTodo == {<<1, "todo">>}
====
