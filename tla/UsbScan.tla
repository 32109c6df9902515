------------------------------- MODULE UsbScan -------------------------------
(***************************************************************************)
(* Looking up a USB camera by its ids: src/getusbdevice/find_usbdevice.cpp.*)
(* scan_dir walks over /sys/bus/usb/devices, find_devname forks a child    *)
(* that walks over the device's directory with find_ueventfile, and        *)
(* read_devname reads a uevent file chunk by chunk.  Both walks change the *)
(* working directory of their process and look their entries up in it.     *)
(* A device may be unplugged at any time.                                  *)
(*                                                                         *)
(* A file is a sequence of characters; the key is two of them, a name a    *)
(* type and a digit: a line of 5, which with the overlap of a key fits a   *)
(* chunk (1024 in the code).  The buffer of a file that fills it holds no  *)
(* NUL, and the search then goes on into the memory behind it.             *)
(***************************************************************************)
EXTENDS Integers, Sequences, SequencesExt, FiniteSets

CONSTANTS Root,     \* /sys/bus/usb/devices
          Trees,    \* [entries, target, ids, uevent] of the file system
          Requests, \* [ids, type, named] of the calls
          Calls,    \* how many calls are made
          Chunk,    \* 1024, the size of read_devname's buffer
          Behind,   \* what the memory behind the buffer may hold up to a NUL
          MayUnplug \* {FALSE} or {TRUE, FALSE}

(* A name stands for its place: no two directories have it, and it is that *)
(* of a directory, a link or a file.                                       *)
IsTree(t) ==
    /\ Root \in DOMAIN t.entries
    /\ DOMAIN t.target \cap (DOMAIN t.entries \cup DOMAIN t.uevent) = {}
    /\ \A d \in DOMAIN t.entries :
           /\ t.entries[d] \in Seq(DOMAIN t.entries \cup DOMAIN t.target \cup DOMAIN t.uevent)
           /\ \A e \in DOMAIN t.entries : Range(t.entries[d]) \cap Range(t.entries[e]) # {} => d = e
    /\ \A l \in DOMAIN t.target : t.target[l] \in DOMAIN t.entries
    /\ \A f \in DOMAIN t.uevent : Len(t.uevent[f]) \in Nat

ASSUME UsbAssumption ==
    /\ Calls \in Nat /\ Chunk \in Nat /\ Chunk > 7 /\ MayUnplug \subseteq BOOLEAN
    /\ Behind \subseteq Seq(STRING)
    /\ \A t \in Trees : IsTree(t)

VARIABLES tree, unplugs,
          behind,              \* what lies behind the buffer
          gone,                \* the directories of unplugged devices
          calls, request, name, result,
          stack, cwd,          \* the walk of scan_dir: [dir, at, ret] each
          child,               \* "none", "runs", "exited"
          walk, childcwd,      \* the walk of find_ueventfile, the same
          reading,             \* the file read_devname reads, or None
          pos, buf, count,     \* where, its buffer, what read returned
          page,                \* the memory shared with the child
          exited               \* the program is gone

scanVars  == <<calls, request, name, result, stack, cwd>>
readVars  == <<reading, pos, buf, count>>
childVars == <<child, walk, childcwd, readVars, page>>
vars      == <<tree, unplugs, behind, gone, scanVars, childVars, exited>>

None == "none"
Nul  == "nul"
Elsewhere == "/data"
NoRequest == [ids |-> <<>>, type |-> None, named |-> FALSE]

Init == /\ tree \in Trees /\ unplugs \in MayUnplug /\ behind \in Behind /\ gone = {}
        /\ calls = 0 /\ request = NoRequest /\ name = <<>> /\ result = 1
        /\ stack = <<>> /\ cwd = Elsewhere
        /\ child = "none" /\ walk = <<>> /\ childcwd = None
        /\ reading = None /\ pos = 0 /\ buf = <<>> /\ count = 0 /\ page = <<>>
        /\ exited = FALSE

-----------------------------------------------------------------------------
(* The file system *)

IsDir(n)  == n \in DOMAIN tree.entries
IsLink(n) == n \in DOMAIN tree.target
IsFile(n) == n \in DOMAIN tree.uevent

Parent(d) == IF \E p \in DOMAIN tree.entries : d \in Range(tree.entries[p])
             THEN CHOOSE p \in DOMAIN tree.entries : d \in Range(tree.entries[p])
             ELSE "up"     \* /sys/bus/usb, or the hub of a device

(* A device's directory and what it holds. *)
Below[d \in DOMAIN tree.entries] ==
    UNION {{e} \cup Below[e] : e \in {x \in Range(tree.entries[d]) : IsDir(x)}}

Inside(d) == {d} \cup Below[d]

(* lstat finds an entry in the working directory only, and not when it is  *)
(* gone.                                                                   *)
Found(dir, n) == /\ n \in Range(tree.entries[dir])
                 /\ dir \notin gone
                 /\ IsLink(n) => tree.target[n] \notin gone

Frame(dir) == [dir |-> dir, at |-> 1, ret |-> -1]
Top(s) == s[Len(s)]
Entry(f) == tree.entries[f.dir][f.at]
More(f) == f.at <= Len(tree.entries[f.dir])
Moved(s) == [s EXCEPT ![Len(s)].at = @ + 1]

(* Mutant: one entry too far. *)
LeftPast(s, value) ==
    [s EXCEPT ![Len(s)] = [dir |-> @.dir, at |-> Len(tree.entries[@.dir]) + 2, ret |-> value]]

Left(s, value) ==
    [s EXCEPT ![Len(s)] = [dir |-> @.dir, at |-> Len(tree.entries[@.dir]) + 1, ret |-> value]]

-----------------------------------------------------------------------------
(* get_usbdevname, and check_usbdev, which names no one.  Ids that are not *)
(* of four characters end the program.                                     *)

Called(r) ==
    /\ ~exited /\ stack = <<>> /\ calls < Calls
    /\ calls' = calls + 1 /\ request' = r
    /\ IF None \in Range(r.ids)
       THEN exited' = TRUE /\ UNCHANGED <<stack, cwd>>
       ELSE stack' = <<Frame(Root)>> /\ cwd' = Root /\ UNCHANGED exited
    /\ UNCHANGED <<tree, unplugs, behind, gone, name, result, childVars>>

get_usbdevname(r) == r.named /\ Called(r)
check_usbdev(r)   == ~r.named /\ Called(r)

Scans == ~exited /\ child = "none" /\ stack # <<>>
Here  == Top(stack)

(* An entry that lstat does not find ends the program. *)
lstat_fails == /\ Scans /\ More(Here) /\ ~Found(cwd, Entry(Here))
               /\ exited' = TRUE
               /\ UNCHANGED <<tree, unplugs, behind, gone, scanVars, childVars>>

(* readdir may also leave out what is gone. *)
readdir_skips == /\ Scans /\ More(Here) /\ Entry(Here) \in Range(tree.entries[cwd])
                 /\ ~Found(cwd, Entry(Here))
                 /\ stack' = Moved(stack)
                 /\ UNCHANGED <<tree, unplugs, behind, gone, calls, request, name, result, cwd, childVars, exited>>

(* What the walk over a directory inside returns is not looked at. *)
scan_inside == /\ Scans /\ More(Here) /\ Found(cwd, Entry(Here)) /\ IsDir(Entry(Here))
               /\ stack' = Append(Moved(stack), Frame(Entry(Here)))
               /\ cwd' = Entry(Here)
               /\ UNCHANGED <<tree, unplugs, behind, gone, calls, request, name, result, childVars, exited>>

skip_file == /\ Scans /\ More(Here) /\ Found(cwd, Entry(Here)) /\ IsFile(Entry(Here))
             /\ stack' = Moved(stack)
             /\ UNCHANGED <<tree, unplugs, behind, gone, calls, request, name, result, cwd, childVars, exited>>

(* The check of a device's two files.  One that goes after lstat has found *)
(* its link is another device if open fails, and the end of the program if *)
(* read does.                                                              *)
scan_usbdevice(dir) == CASE dir \in gone                  -> {"other", "error"}
                         [] tree.ids[dir] = request.ids -> {"found"}
                         [] OTHER                       -> {"other"}

ChildInit(dir) == /\ child' = "runs"
                  /\ walk' = <<Frame(dir)>> /\ childcwd' = dir
                  /\ page' = <<>>

scan_link ==
    /\ Scans /\ More(Here) /\ IsLink(Entry(Here))
    /\ Entry(Here) \in Range(tree.entries[cwd]) /\ cwd \notin gone
    /\ LET dir == tree.target[Entry(Here)]
       IN  \/ /\ "other" \in scan_usbdevice(dir)
              /\ stack' = Moved(stack) /\ UNCHANGED <<childVars, exited>>
           \/ /\ "error" \in scan_usbdevice(dir)
              /\ exited' = TRUE /\ UNCHANGED <<stack, childVars>>
           \/ /\ "found" \in scan_usbdevice(dir)
              /\ stack' = Left(stack, 0)
              /\ IF request.named THEN ChildInit(dir) /\ UNCHANGED readVars
                                  ELSE UNCHANGED childVars
              /\ UNCHANGED exited
    /\ UNCHANGED <<tree, unplugs, behind, gone, calls, request, name, result, cwd>>

(* Mutant: the process stays in the directory it has read. *)
StaysThere == /\ Scans /\ ~More(Here)
              /\ IF Len(stack) = 1
                 THEN result' = Here.ret /\ stack' = <<>>
                 ELSE stack' = Front(stack) /\ UNCHANGED result
              /\ UNCHANGED <<tree, unplugs, behind, gone, calls, request, name, cwd, childVars, exited>>

(* The end of a directory, or of the search; the process goes up, out of   *)
(* the root too.                                                           *)
leave_dir == /\ Scans /\ ~More(Here)
             /\ cwd' = Parent(cwd)
             /\ IF Len(stack) = 1
                THEN result' = Here.ret /\ stack' = <<>>
                ELSE stack' = Front(stack) /\ UNCHANGED result
             /\ UNCHANGED <<tree, unplugs, behind, gone, calls, request, name, childVars, exited>>

(* find_devname in the parent: whatever the child did, its page is taken   *)
(* for the name, and 0 is returned.                                        *)
wait_child == /\ ~exited /\ child = "exited"
              /\ child' = "none" /\ name' = page
              /\ UNCHANGED <<tree, unplugs, behind, gone, calls, request, result, stack, cwd, walk, childcwd,
                             readVars, page, exited>>

-----------------------------------------------------------------------------
(* The child: find_ueventfile *)

Walks == child = "runs" /\ reading = None /\ walk # <<>>
There == Top(walk)
Parents == <<tree, unplugs, behind, gone, scanVars, exited>>
ChildExits == child' = "exited" /\ walk' = <<>> /\ reading' = None

(* chdir, opendir and lstat of what is gone end the child. *)
child_fails == /\ Walks
               /\ There.dir \in gone \/ (More(There) /\ ~Found(childcwd, Entry(There)))
               /\ ChildExits
               /\ UNCHANGED <<Parents, childcwd, pos, buf, count, page>>

walk_inside == /\ Walks /\ More(There) /\ Found(childcwd, Entry(There)) /\ IsDir(Entry(There))
               /\ walk' = Append(Moved(walk), Frame(Entry(There)))
               /\ childcwd' = Entry(There)
               /\ UNCHANGED <<Parents, child, readVars, page>>

skip_link == /\ Walks /\ More(There) /\ Found(childcwd, Entry(There)) /\ IsLink(Entry(There))
             /\ walk' = Moved(walk)
             /\ UNCHANGED <<Parents, child, childcwd, readVars, page>>

open_uevent == /\ Walks /\ More(There) /\ Found(childcwd, Entry(There)) /\ IsFile(Entry(There))
               /\ walk' = Moved(walk)
               /\ reading' = Entry(There) /\ pos' = 0
               /\ buf' = [i \in 1..Chunk |-> Nul] /\ count' = Chunk
               /\ UNCHANGED <<Parents, child, childcwd, page>>

(* The end of a directory: a name ends the walk, else the one above goes   *)
(* on behind it.                                                           *)
walk_up == /\ Walks /\ ~More(There) /\ There.dir \notin gone
           /\ IF Len(walk) = 1
              THEN ChildExits /\ UNCHANGED childcwd
              ELSE /\ walk' = IF There.ret = 1 THEN Left(Front(walk), 1) ELSE Front(walk)
                   /\ childcwd' = Parent(childcwd)
                   /\ UNCHANGED <<child, reading>>
           /\ UNCHANGED <<Parents, pos, buf, count, page>>

-----------------------------------------------------------------------------
(* read_devname.  The buffer keeps what a shorter read does not cover. *)

Key == <<"K", "=">>
Filled(old, file, at, n) == [i \in 1..Chunk |-> IF i <= n THEN file[at + i] ELSE old[i]]

(* What strstr and strchr search: up to the first NUL, which a buffer that *)
(* was never filled has at its end, and a full one only behind it.         *)
Text(b) == LET end == SelectInSubSeq(b, 1, Chunk, LAMBDA c : c = Nul)
           IN  IF end = 0 THEN b \o behind ELSE SubSeq(b, 1, end - 1)

(* 0 when there is none. *)
KeyAt(t)        == SelectInSubSeq([i \in 1..(Len(t) - 1) |-> <<t[i], t[i + 1]>>], 1, Len(t) - 1,
                                  LAMBDA k : k = Key)
NewlineAt(t, i) == SelectInSubSeq(t, i, Len(t), LAMBDA c : c = "n")

(* Mutants: the position is not moved back after a full buffer; it is      *)
(* moved back after any.                                                   *)
NoOverlap(n) == 0
AlwaysOverlap(n) == Len(Key)

Overlap(n) == IF n = Chunk THEN Len(Key) ELSE 0

(* The file is behind the chunk of n bytes now, at the place next.  A name *)
(* that the buffer cuts off is read again from its key, which may also lie *)
(* behind the buffer; a name of another type is passed over.               *)
Searched(text, n, next) ==
    LET key  == KeyAt(text)
        end  == IF key = 0 THEN 0 ELSE NewlineAt(text, key)
        type == text[key + Len(Key)]
    IN  \/ /\ key = 0 \/ (end # 0 /\ type # request.type)
           /\ pos' = next /\ count' = n /\ UNCHANGED <<child, reading, walk, page>>
        \/ /\ key # 0 /\ end = 0 /\ next >= Chunk - (key - 1)
           /\ pos' = next - (Chunk - (key - 1))
           /\ count' = n /\ UNCHANGED <<child, reading, walk, page>>
        \/ /\ key # 0 /\ end = 0 /\ next < Chunk - (key - 1)
           /\ ChildExits /\ UNCHANGED <<pos, count, page>>
        \/ /\ end # 0 /\ type = request.type
           /\ page' = SubSeq(text, key + Len(Key), end - 1)
           /\ walk' = Left(walk, 1)
           /\ reading' = None /\ UNCHANGED <<child, pos, count>>

(* One turn of the loop: read, lseek and the search, which finds a name    *)
(* again as long as the buffer holds it.  read fails for ever on a file of *)
(* a device that is gone, unless seeking back before the file's start ends *)
(* it.                                                                     *)
read_devname ==
    /\ child = "runs" /\ reading # None /\ count # 0
    /\ LET file == tree.uevent[reading]
           left == IF pos < Len(file) THEN Len(file) - pos ELSE 0
           n    == IF There.dir \in gone THEN -1 ELSE IF left < Chunk THEN left ELSE Chunk
           next == IF n < 0 THEN pos ELSE pos + n - Overlap(n)
       IN  /\ buf' = Filled(buf, file, pos, n)
           /\ \E text \in {Text(buf')} : Searched(text, n, next)
    /\ UNCHANGED <<Parents, childcwd>>

no_name == /\ child = "runs" /\ reading # None /\ count = 0
           /\ reading' = None
           /\ UNCHANGED <<Parents, child, walk, childcwd, pos, buf, count, page>>

-----------------------------------------------------------------------------
(* The world: a device is unplugged. *)
unplug(link) == /\ unplugs /\ ~exited /\ tree.target[link] \notin gone
                /\ gone' = gone \cup Inside(tree.target[link])
                /\ UNCHANGED <<tree, unplugs, behind, scanVars, childVars, exited>>

Program == \/ \E r \in Requests : get_usbdevname(r) \/ check_usbdev(r)
           \/ lstat_fails \/ readdir_skips \/ scan_inside \/ skip_file \/ scan_link \/ leave_dir \/ wait_child
           \/ child_fails \/ walk_inside \/ skip_link \/ open_uevent \/ walk_up
           \/ read_devname \/ no_name

Next == Program \/ \E link \in DOMAIN tree.target : unplug(link)
Spec == Init /\ [][Next]_vars /\ WF_vars(Program)

-----------------------------------------------------------------------------
IsWalk(s) == \A i \in DOMAIN s : /\ s[i].dir \in DOMAIN tree.entries /\ s[i].ret \in {-1, 0, 1}
                                 /\ s[i].at \in 1..(Len(tree.entries[s[i].dir]) + 1)

TypeOK ==
    /\ calls \in 0..Calls /\ request \in Requests \cup {NoRequest} /\ result \in {1, 0, -1}
    /\ IsWalk(stack) /\ IsWalk(walk) /\ child \in {"none", "runs", "exited"}
    /\ reading \in DOMAIN tree.uevent \cup {None} /\ count \in -1..Chunk
    /\ reading # None => pos \in Nat /\ (behind = <<>> => pos <= Len(tree.uevent[reading]))
    /\ behind \in Behind

(* The reference: the names in a device's uevent files, in the order of    *)
(* the directories, and the first of the type asked for.                   *)
Uevents[d \in DOMAIN tree.entries] ==
    FlattenSeq([i \in DOMAIN tree.entries[d] |->
                  LET e == tree.entries[d][i]
                  IN  CASE IsFile(e) -> <<tree.uevent[e]>>
                        [] IsDir(e)  -> Uevents[e]
                        [] OTHER     -> <<>>])

NameIn(file) ==
    LET at(c, from) == SelectInSubSeq(file, from, Len(file), LAMBDA x : x = c)
        key == at("K", 1)
    IN  IF key = 0 THEN <<>> ELSE SubSeq(file, key + 2, at("n", key) - 1)

NamesOf(d) == SelectSeq([i \in DOMAIN Uevents[d] |-> NameIn(Uevents[d][i])],
                        LAMBDA n : n # <<>> /\ n[1] = request.type)
FirstName(d) == IF NamesOf(d) = <<>> THEN <<>> ELSE NamesOf(d)[1]

Matching == {i \in DOMAIN tree.entries[Root] :
                LET e == tree.entries[Root][i] IN IsLink(e) /\ tree.ids[tree.target[e]] = request.ids}

(* The first device with the ids that is linked from the directory itself. *)
Camera == tree.target[tree.entries[Root][CHOOSE i \in Matching : \A j \in Matching : i <= j]]

(* Where the code and its comments disagree: a camera without a name of    *)
(* the type is a success, and a device found in a directory inside is not. *)
Nameless   == request.named /\ Matching # {} /\ FirstName(Camera) = <<>>
Overlooked == Matching = {} /\ \E l \in DOMAIN tree.target :
                  Parent(l) \in Below[Root] /\ tree.ids[tree.target[l]] = request.ids

(* No file of the camera fills the buffer, or a NUL follows it.            *)
Bounded == behind = <<>> \/ \A i \in DOMAIN Uevents[Camera] : Len(Uevents[Camera][i]) < Chunk

(* A search succeeds just when a device linked from the directory itself   *)
(* has the ids, and the name is then the first of its type in the first    *)
(* such device's files, wherever the chunks cut them.  While nothing is    *)
(* unplugged and the files end in the buffer; and it says nothing of the   *)
(* result where the code and its comments disagree, nor of what it is when *)
(* there is none: -1, where check_usbdev's comment has 1.                  *)
Answered   == stack = <<>> /\ request # NoRequest /\ ~exited /\ gone = {}
ToldRight  == Answered /\ ~Nameless /\ ~Overlooked => (result = 0 <=> Matching # {})
NamedRight == Answered /\ request.named /\ Matching # {} /\ ~Nameless /\ Bounded =>
                  name = FirstName(Camera)
FindsFirst == ToldRight /\ NamedRight

(* The walk never leaves its path: an entry not found, or a file of ids    *)
(* that cannot be read, which end the program, are those of a device       *)
(* unplugged meanwhile.                                                    *)
NeverAstray == exited /\ stack # <<>> => gone # {}

(* Every search returns, unless a device is unplugged: read then fails     *)
(* for ever on its file, and the parent waits for the child.               *)
Returns == (stack # <<>>) ~> (stack = <<>> \/ gone # {})
=============================================================================
