------------------------------ MODULE MCStorage ------------------------------
(* Instances of StorageServer: x may be deleted and created, y stays.      *)
EXTENDS StorageServer

MCInitFile == <<"y", "x">>
MCAsk == [op : {"READ_FILE", "WRITE_FILE"}, file : {"x"}] \union
           [op : {"GET_FILE_INFO"}, file : {"y"}]
MCForwarded == [type : {"CREATE_FILE", "DELETE_FILE"}, arg : {"x"}]
=============================================================================
