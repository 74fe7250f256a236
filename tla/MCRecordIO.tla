------------------------------ MODULE MCRecordIO ------------------------------
EXTENDS RecordIO

(* Numbers of both signs and of more than one byte, a bool that is not 0 or 1, *)
(* empty and null buffers and strings.                                         *)
MCChosen(type) ==
  CASE type = "int"    -> << <<0>>, <<-2>>, <<66051>> >>
    [] type = "long"   -> << <<0, 5>>, <<-1, 65537>> >>
    [] type = "bool"   -> << <<0>>, <<2>> >>
    [] type = "buffer" -> << <<1>>, <<>>, <<2, 3>>, Null >>
    [] type = "string" -> << <<1>>, <<>>, <<2, 3>>, Null >>
===============================================================================
