---------------------------- MODULE MCWebComposer ----------------------------
(* The instance of WebComposer: three commands, a room and a peer, a file  *)
(* in a directory, and the stems a reader types of them.                   *)
EXTENDS WebComposer

MCCommands == <<"dm", "leave", "who", "whoami">>
MCNames == <<"gate", "alice">>
MCPaths == <<"src/", "src/f">>

MCCompletes ==
  "" :> {"dm", "leave", "who", "whoami", "gate", "alice", "src/"} @@
  "who" :> {"who", "whoami"} @@ "src/" :> {"src/f"} @@
  [n \in {"dm", "leave", "whoami", "gate", "alice", "src/f"} |-> {n}]
=============================================================================
