--------------------------- MODULE MCSroPipeline ---------------------------
(* Files for TLC.                                                          *)
EXTENDS SroPipeline

Frame(p, n, m) == [passes |-> p, fadc |-> n, dcrb |-> m]
Kept    == Frame(TRUE, 1, 0)
Rich    == Frame(TRUE, 1, 1)
Dropped == Frame(FALSE, 1, 0)

Block(fs) == [kind |-> "block", frames |-> fs]
Cut   == [kind |-> "cut", frames |-> <<>>]
Bad   == [kind |-> "bad", frames |-> <<>>]
Empty == [kind |-> "empty", frames |-> <<>>]

(* One file, as the plugin gives the reader, with frames that pass the     *)
(* finder first, in the middle, last, all, and none; and lists of files.   *)
MCFiles ==
    {<<<<Block(<<Kept, Kept>>), Block(<<Dropped, Rich, Dropped>>), Block(<<>>), Cut>>>>,
     <<<<Block(<<Dropped>>), Cut>>, <<Block(<<Kept, Dropped>>), Block(<<Kept>>), Cut>>>>,
     <<<<Block(<<Kept>>)>>, <<Empty>>, <<Block(<<Dropped, Kept>>), Cut>>>>,
     <<<<Block(<<Kept>>), Block(<<Kept>>), Bad>>>>}

(* The items of the files, with the numbers of the files.                  *)
ItemsOf(files) ==
    FlattenSeq([f \in DOMAIN files |->
        [i \in DOMAIN files[f] |-> [file |-> f] @@ files[f][i]]])
MCInputs == {ItemsOf(fs) : fs \in MCFiles}

MCModes == {<<"off", "fread">>, <<"eager", "mmap">>, <<"lazy", "fread">>, <<"lazy", "mmap">>}
=============================================================================
