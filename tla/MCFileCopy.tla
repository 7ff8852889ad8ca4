----------------------------- MODULE MCFileCopy -----------------------------
(* A small disk: a file of two chunks, a folder with a read-only file, a   *)
(* folder nested too deeply, a mounted device and an empty read-only file. *)
EXTENDS FileCopy

MCPaths == {<<1>>, <<2>>, <<2, 1>>, <<2, 3>>, <<3>>, <<3, 1>>, <<3, 3>>, <<13>>, <<13, 1>>,
            <<4>>, <<4, 1>>, <<5>>, <<6>>}

MCDisk0 == [p \in MCPaths |->
    CASE p = <<1>>    -> File(<<"a", "b">>, TRUE)
      [] p = <<2>>    -> Dir(TRUE)
      [] p = <<2, 1>> -> File(<<"c">>, FALSE)
      [] p = <<4>>    -> Dir(TRUE)
      [] p = <<4, 1>> -> Dir(TRUE)
      [] p = <<5>>    -> [Dir(TRUE) EXCEPT !.kind = "mount"]
      [] p = <<6>>    -> File(<<>>, FALSE)
      [] OTHER        -> None]

Req(s, d) == [src |-> s, dest |-> d]

(* File and folder to a new name, to a taken name, into itself, and items  *)
(* that cannot be copied.                                                  *)
AllRequests == {Req(<<1>>, <<3>>), Req(<<2>>, <<3>>), Req(<<2>>, <<2, 3>>),
                Req(<<1>>, <<1>>), Req(<<4>>, <<3>>), Req(<<5>>, <<3>>), Req(<<6>>, <<2, 3>>)}

FewRequests == {Req(<<1>>, <<3>>), Req(<<2>>, <<3>>)}

AllModes == {{}, {"RENAME"}, {"MOVE"}}

MoveOnly == {{"MOVE"}}

AllChunks == {"a", "b", "c", "x"}

AllFaults == FaultKinds
=============================================================================
