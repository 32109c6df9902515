----------------------------- MODULE MCUsbScan -----------------------------
(***************************************************************************)
(* A hub and two cameras of the same ids, the first with a name of another *)
(* type before the one looked for; its file is shorter or longer than a    *)
(* chunk and the name is anywhere in it.  Also a link that is not in the   *)
(* directory itself, and a camera without a name.  Behind the buffer is a  *)
(* NUL, a newline or the line of another name.                             *)
(***************************************************************************)
EXTENDS UsbScan, TLC

Fill(n) == [i \in 1..n |-> "x"]
Uevent(before, type, after) ==
    Fill(before) \o <<"K", "=", type, "0", "n">> \o Fill(after) \o (IF after = 0 THEN <<>> ELSE <<"n">>)

Devices == "hub" :> <<"hub/uevent">>
           @@ "camA" :> <<"camA/link", "camA/uevent", "camA/if">>
           @@ "camA/if" :> <<"camA/if/uevent", "camA/if/v4l">> @@ "camA/if/v4l" :> <<"camA/v4l/uevent">>
           @@ "camB" :> <<"camB/if", "camB/uevent">> @@ "camB/if" :> <<"camB/if/uevent">>
Ids == "hub" :> <<"1d6b", "0002">> @@ "camA" :> <<"0559", "2bc5">> @@ "camB" :> <<"0559", "2bc5">>

Files(file) == "hub/uevent" :> Uevent(0, "b", 1) @@ "camA/uevent" :> Uevent(2, "b", 0)
               @@ "camA/if/uevent" :> Fill(3) \o <<"n">> @@ "camA/v4l/uevent" :> file
               @@ "camB/if/uevent" :> Uevent(1, "v", 1) @@ "camB/uevent" :> Uevent(0, "b", 0)
               @@ "sys/note" :> <<"x", "n">>

Tree(root, entries, file) ==
    [entries |-> Root :> root @@ entries @@ Devices,
     target  |-> "1-0" :> "hub" @@ "1-1" :> "camA" @@ "1-2" :> "camB" @@ "camA/link" :> "hub",
     ids     |-> Ids, uevent |-> Files(file)]

MCTrees ==
    {Tree(<<"1-0", "1-1", "1-2">>, <<>>, Uevent(b, "v", a)) : b \in 0..16, a \in {0, 2, 9}}
    \cup {Tree(<<"sub", "sys/note", "1-1">>, "sub" :> <<"1-0", "1-2">>, Uevent(11, "b", 5)),
          Tree(<<"1-0", "sub">>, "sub" :> <<"1-2">>, Uevent(3, "v", 0))}

Request(ids, type, named) == [ids |-> ids, type |-> type, named |-> named]
MCBehind == {<<>>, <<"n">>, <<"x", "K", "=", "v", "9", "n">>}
MCRequests == {Request(<<"0559", "2bc5">>, "v", TRUE), Request(<<"0559", "2bc5">>, "v", FALSE),
               Request(<<"0559", "9999">>, "v", TRUE), Request(<<None, "2bc5">>, "v", TRUE)}
=============================================================================
