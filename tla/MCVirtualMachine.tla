-------------------------- MODULE MCVirtualMachine --------------------------
(***************************************************************************)
(* A small VM for TLC: the root code starts two threads on the same code,  *)
(* loads a file, and calls a method; the thread code loads the same file   *)
(* and runs one more handler.  Every ordinary handler may succeed or fail. *)
(***************************************************************************)
EXTENDS VirtualMachine

CONSTANTS t1, t2, t3, NoT, NoP

MCThreads == {t1, t2, t3}
MCCodeIds == {"root", "worker", "method", "file"}
MCPaths == {"lib.inko"}

Ins == [kind |-> "ins", arg |-> NoP]

MCBody ==
  [c \in MCCodeIds |->
     CASE c = "root" ->
            << [kind |-> "spawn", arg |-> "worker"],
               [kind |-> "spawn", arg |-> "worker"],
               [kind |-> "runfile", arg |-> "lib.inko"],
               [kind |-> "call", arg |-> "method"] >>
       [] c = "worker" ->
            << [kind |-> "runfile", arg |-> "lib.inko"], Ins >>
       [] c = "method" -> << Ins >>
       [] c = "file" -> << Ins >>]

MCFileCode == [p \in MCPaths |-> "file"]

=============================================================================
