----------------------------- MODULE UsbProofs -----------------------------
(***************************************************************************)
(* The theorems about the lookup of a USB camera, for any trees of         *)
(* directories, any requests, any number of calls and any size of the      *)
(* buffer.                                                                 *)
(***************************************************************************)
EXTENDS UsbScan, SequenceTheorems, WellFoundedInduction, TLAPS

Dirs   == DOMAIN tree.entries
Frames == [dir : Dirs, at : Nat, ret : Int]

(* A walk is a path: each directory on it is an entry of the one before.   *)
GoodWalk(s) == /\ s \in Seq(Frames) /\ IsWalk(s)
               /\ \A i \in 1..(Len(s) - 1) : s[i + 1].dir \in Range(tree.entries[s[i].dir])

(* Both processes are in the directory they read.                          *)
Scanning == GoodWalk(stack) /\ (stack # <<>> => stack[1].dir = Root /\ cwd = Top(stack).dir)
Walking  == GoodWalk(walk)  /\ (walk # <<>> => childcwd = Top(walk).dir)

Shape == /\ tree \in Trees /\ TypeOK /\ Scanning /\ Walking
         /\ reading # None => walk # <<>>

(* A search that has found nothing yet has passed over no link to a device *)
(* with the ids.                                                           *)
Searching == stack # <<>> /\ gone = {} =>
                 \/ stack[1].ret = -1 /\ \A i \in Matching : stack[1].at <= i
                 \/ stack[1].ret = 0 /\ Matching # {}

(* What the code returns, where its comments have it and where not.        *)
Resulted == Answered => result = IF Matching = {} THEN -1 ELSE 0

LookupInv == Shape /\ NeverAstray /\ Searching /\ Resulted

-----------------------------------------------------------------------------
(* What a tree is.                                                         *)
LEMMA TreeFacts ==
    ASSUME UsbAssumption, tree \in Trees
    PROVE  /\ IsTree(tree) /\ Root \in Dirs
           /\ \A d \in Dirs : /\ Len(tree.entries[d]) \in Nat
                              /\ DOMAIN tree.entries[d] = 1..Len(tree.entries[d])
                              /\ \A i \in 1..Len(tree.entries[d]) :
                                     tree.entries[d][i] \in Range(tree.entries[d])
  <1>1. IsTree(tree)
    BY DEF UsbAssumption
  <1>2. ASSUME NEW d \in Dirs
        PROVE  /\ Len(tree.entries[d]) \in Nat /\ DOMAIN tree.entries[d] = 1..Len(tree.entries[d])
               /\ \A i \in 1..Len(tree.entries[d]) : tree.entries[d][i] \in Range(tree.entries[d])
    <2>1. PICK S : tree.entries[d] \in Seq(S)
      BY <1>1 DEF IsTree, Dirs
    <2>2. Len(tree.entries[d]) \in Nat /\ DOMAIN tree.entries[d] = 1..Len(tree.entries[d])
      BY <2>1
    <2> QED BY <2>2 DEF Range
  <1> QED BY <1>1, <1>2 DEF IsTree, Dirs

(* A directory's parent is the one it is an entry of.                      *)
LEMMA ParentOf ==
    ASSUME UsbAssumption, tree \in Trees, NEW p \in Dirs, NEW d \in Range(tree.entries[p])
    PROVE  Parent(d) = p
  <1>1. \A e \in Dirs : d \in Range(tree.entries[e]) => e = p
    BY TreeFacts DEF IsTree, Dirs
  <1>2. (CHOOSE e \in DOMAIN tree.entries : d \in Range(tree.entries[e])) = p
    BY <1>1 DEF Dirs
  <1> QED BY <1>2 DEF Parent, Dirs

(* The steps of a walk.                                                    *)
LEMMA Tops ==
    ASSUME UsbAssumption, tree \in Trees, NEW s, GoodWalk(s), s # <<>>
    PROVE  /\ Len(s) \in Nat \ {0} /\ DOMAIN s = 1..Len(s) /\ Top(s) \in Frames
           /\ Top(s).at \in 1..(Len(tree.entries[Top(s).dir]) + 1)
           /\ Top(s).ret \in {-1, 0, 1}
           /\ More(Top(s)) => Entry(Top(s)) \in Range(tree.entries[Top(s).dir])
  <1>1. s \in Seq(Frames) /\ Len(s) \in Nat \ {0} /\ DOMAIN s = 1..Len(s)
    BY EmptySeq DEF GoodWalk
  <1>2. Top(s) \in Frames /\ Len(s) \in DOMAIN s
    BY <1>1 DEF Top
  <1>3. Top(s).at \in 1..(Len(tree.entries[Top(s).dir]) + 1) /\ Top(s).ret \in {-1, 0, 1}
    BY <1>2 DEF GoodWalk, IsWalk, Top
  <1>4. Top(s).dir \in Dirs /\ Len(tree.entries[Top(s).dir]) \in Nat
    BY <1>2, TreeFacts DEF Frames
  <1>5. More(Top(s)) => Top(s).at \in 1..Len(tree.entries[Top(s).dir])
    BY <1>3, <1>4 DEF More
  <1>6. More(Top(s)) => Entry(Top(s)) \in Range(tree.entries[Top(s).dir])
    BY <1>4, <1>5, TreeFacts DEF Entry
  <1> QED BY <1>1, <1>2, <1>3, <1>6

LEMMA MovedWalk ==
    ASSUME UsbAssumption, tree \in Trees, NEW s, GoodWalk(s), s # <<>>, More(Top(s))
    PROVE  /\ GoodWalk(Moved(s)) /\ Len(Moved(s)) = Len(s) /\ Moved(s) # <<>>
           /\ Top(Moved(s)).dir = Top(s).dir
           /\ \A i \in 1..Len(s) : /\ Moved(s)[i].dir = s[i].dir /\ Moved(s)[i].ret = s[i].ret
                                   /\ Moved(s)[i].at = IF i = Len(s) THEN s[i].at + 1 ELSE s[i].at
  <1>1. s \in Seq(Frames) /\ Len(s) \in Nat \ {0} /\ DOMAIN s = 1..Len(s)
    BY Tops DEF GoodWalk
  <1>2. Top(s) \in Frames /\ Top(s).at + 1 \in 1..(Len(tree.entries[Top(s).dir]) + 1)
    <2>1. Len(tree.entries[Top(s).dir]) \in Nat
      BY Tops, TreeFacts DEF Frames
    <2> QED BY <2>1, Tops DEF More
  <1>3. Moved(s) = [i \in 1..Len(s) |-> IF i = Len(s) THEN [s[i] EXCEPT !.at = @ + 1] ELSE s[i]]
    BY <1>1 DEF Moved
  <1>4. \A i \in 1..Len(s) : /\ s[i] \in Frames /\ Moved(s)[i] \in Frames
                             /\ Moved(s)[i].dir = s[i].dir /\ Moved(s)[i].ret = s[i].ret
                             /\ Moved(s)[i].at = IF i = Len(s) THEN s[i].at + 1 ELSE s[i].at
    <2> SUFFICES ASSUME NEW i \in 1..Len(s)
                 PROVE  /\ s[i] \in Frames /\ Moved(s)[i] \in Frames
                        /\ Moved(s)[i].dir = s[i].dir /\ Moved(s)[i].ret = s[i].ret
                        /\ Moved(s)[i].at = IF i = Len(s) THEN s[i].at + 1 ELSE s[i].at
      OBVIOUS
    <2>1. s[i] \in Frames
      BY <1>1
    <2>2. CASE i = Len(s)
      <3>1. Moved(s)[i] = [s[i] EXCEPT !.at = s[i].at + 1]
        BY <1>3, <2>2
      <3> QED BY <2>1, <2>2, <3>1 DEF Frames
    <2>3. CASE i # Len(s)
      <3>1. Moved(s)[i] = s[i]
        BY <1>3, <2>3
      <3> QED BY <2>1, <2>3, <3>1 DEF Frames
    <2> QED BY <2>2, <2>3
  <1>5. Moved(s) \in Seq(Frames) /\ Len(Moved(s)) = Len(s) /\ DOMAIN Moved(s) = 1..Len(s)
    BY <1>1, <1>3, <1>4
  <1>6. IsWalk(Moved(s))
    <2> SUFFICES ASSUME NEW i \in 1..Len(s)
                 PROVE  /\ Moved(s)[i].dir \in DOMAIN tree.entries /\ Moved(s)[i].ret \in {-1, 0, 1}
                        /\ Moved(s)[i].at \in 1..(Len(tree.entries[Moved(s)[i].dir]) + 1)
      BY <1>5 DEF IsWalk
    <2>1. /\ s[i].dir \in DOMAIN tree.entries /\ s[i].ret \in {-1, 0, 1}
          /\ s[i].at \in 1..(Len(tree.entries[s[i].dir]) + 1)
      BY <1>1 DEF GoodWalk, IsWalk
    <2> QED BY <1>2, <1>4, <2>1 DEF Top
  <1>7. \A i \in 1..(Len(s) - 1) : i \in 1..Len(s) /\ i + 1 \in 1..Len(s)
    BY <1>1
  <1>8. \A i \in 1..(Len(s) - 1) : Moved(s)[i + 1].dir \in Range(tree.entries[Moved(s)[i].dir])
    BY <1>4, <1>7 DEF GoodWalk
  <1>9. Moved(s) # <<>> /\ Top(Moved(s)).dir = Top(s).dir
    <2>1. Len(s) \in 1..Len(s)
      BY <1>1
    <2>2. Moved(s)[Len(s)].dir = s[Len(s)].dir
      BY <1>4, <2>1
    <2>3. Moved(s) # <<>>
      BY <1>1, <1>5
    <2> QED BY <1>5, <2>2, <2>3 DEF Top
  <1> QED BY <1>4, <1>5, <1>6, <1>8, <1>9 DEF GoodWalk

LEMMA DeeperWalk ==
    ASSUME UsbAssumption, tree \in Trees, NEW s, GoodWalk(s), s # <<>>,
           NEW e \in Range(tree.entries[Top(s).dir]) \cap Dirs
    PROVE  /\ GoodWalk(Append(s, Frame(e)))
           /\ Len(Append(s, Frame(e))) = Len(s) + 1 /\ Append(s, Frame(e)) # <<>>
           /\ Top(Append(s, Frame(e))) = Frame(e)
           /\ \A i \in 1..Len(s) : Append(s, Frame(e))[i] = s[i]
  <1> DEFINE t == Append(s, Frame(e))
  <1>1. s \in Seq(Frames) /\ Len(s) \in Nat \ {0} /\ DOMAIN s = 1..Len(s)
    BY Tops DEF GoodWalk
  <1>2. /\ Frame(e) \in Frames /\ Frame(e).dir = e /\ Frame(e).ret = -1 /\ Frame(e).at = 1
        /\ 1 \in 1..(Len(tree.entries[e]) + 1)
    BY TreeFacts DEF Frame, Frames
  <1>3. /\ t \in Seq(Frames) /\ Len(t) = Len(s) + 1 /\ DOMAIN t = 1..(Len(s) + 1)
        /\ t[Len(s) + 1] = Frame(e) /\ \A i \in 1..Len(s) : t[i] = s[i]
    BY <1>1, <1>2
  <1> HIDE DEF t
  <1>4. IsWalk(t)
    <2> SUFFICES ASSUME NEW i \in 1..(Len(s) + 1)
                 PROVE  /\ t[i].dir \in DOMAIN tree.entries /\ t[i].ret \in {-1, 0, 1}
                        /\ t[i].at \in 1..(Len(tree.entries[t[i].dir]) + 1)
      BY <1>3 DEF IsWalk
    <2>1. CASE i \in 1..Len(s)
      BY <1>1, <1>3, <2>1 DEF GoodWalk, IsWalk
    <2>2. CASE i = Len(s) + 1
      BY <1>2, <1>3, <2>2 DEF Dirs
    <2> QED BY <1>1, <2>1, <2>2
  <1>5. \A i \in 1..(Len(t) - 1) : t[i + 1].dir \in Range(tree.entries[t[i].dir])
    <2> SUFFICES ASSUME NEW i \in 1..Len(s) PROVE t[i + 1].dir \in Range(tree.entries[t[i].dir])
      BY <1>1, <1>3
    <2>1. CASE i = Len(s)
      BY <1>2, <1>3, <2>1 DEF Top
    <2>2. CASE i # Len(s)
      <3>1. Len(s) \in Nat
        BY <1>1
      <3>2. i \in 1..(Len(s) - 1) /\ i + 1 \in 1..Len(s)
        BY <2>2, <3>1
      <3> QED BY <1>3, <3>2 DEF GoodWalk
    <2> QED BY <2>1, <2>2
  <1>6. Top(t) = Frame(e) /\ t # <<>>
    BY <1>1, <1>3 DEF Top
  <1> QED BY <1>3, <1>4, <1>5, <1>6 DEF GoodWalk, t

LEMMA LeftWalk ==
    ASSUME UsbAssumption, tree \in Trees, NEW s, GoodWalk(s), s # <<>>, NEW v \in {0, 1}
    PROVE  /\ GoodWalk(Left(s, v)) /\ Len(Left(s, v)) = Len(s) /\ Left(s, v) # <<>>
           /\ Top(Left(s, v)).dir = Top(s).dir /\ Top(Left(s, v)).ret = v
           /\ \A i \in 1..(Len(s) - 1) : Left(s, v)[i] = s[i]
           /\ \A i \in 1..Len(s) : Left(s, v)[i].dir = s[i].dir
  <1> DEFINE f == [dir |-> Top(s).dir, at |-> Len(tree.entries[Top(s).dir]) + 1, ret |-> v]
             t == Left(s, v)
  <1>1. s \in Seq(Frames) /\ Len(s) \in Nat \ {0} /\ DOMAIN s = 1..Len(s) /\ Top(s) \in Frames
    BY Tops DEF GoodWalk
  <1>2. Len(tree.entries[Top(s).dir]) \in Nat /\ Top(s).dir \in Dirs
    BY <1>1, TreeFacts DEF Frames
  <1>3. f \in Frames /\ f.dir = Top(s).dir /\ f.ret = v /\ f.at \in 1..(Len(tree.entries[f.dir]) + 1)
    BY <1>2 DEF Frames
  <1>4. t = [s EXCEPT ![Len(s)] = f]
    BY DEF Left, Top
  <1> HIDE DEF f, t
  <1>5. /\ t \in Seq(Frames) /\ Len(t) = Len(s) /\ DOMAIN t = 1..Len(s) /\ t[Len(s)] = f
        /\ \A i \in 1..Len(s) : i # Len(s) => t[i] = s[i]
    BY <1>1, <1>3, <1>4
  <1>6. \A i \in 1..Len(s) : t[i].dir = s[i].dir
    BY <1>1, <1>3, <1>5 DEF Top
  <1>7. IsWalk(t)
    <2> SUFFICES ASSUME NEW i \in 1..Len(s)
                 PROVE  /\ t[i].dir \in DOMAIN tree.entries /\ t[i].ret \in {-1, 0, 1}
                        /\ t[i].at \in 1..(Len(tree.entries[t[i].dir]) + 1)
      BY <1>5 DEF IsWalk
    <2>1. CASE i # Len(s)
      BY <1>1, <1>5, <2>1 DEF GoodWalk, IsWalk
    <2>2. CASE i = Len(s)
      BY <1>2, <1>3, <1>5, <2>2 DEF Dirs
    <2> QED BY <2>1, <2>2
  <1>8. \A i \in 1..(Len(t) - 1) : t[i + 1].dir \in Range(tree.entries[t[i].dir])
    <2>1. \A i \in 1..(Len(s) - 1) : i \in 1..Len(s) /\ i + 1 \in 1..Len(s)
      BY <1>1
    <2> QED BY <1>5, <1>6, <2>1 DEF GoodWalk
  <1>9. /\ t # <<>> /\ Top(t) = f
        /\ \A i \in 1..(Len(s) - 1) : t[i] = s[i]
    <2>1. \A i \in 1..(Len(s) - 1) : i \in 1..Len(s) /\ i # Len(s)
      <3>1. Len(s) \in Nat
        BY <1>1
      <3> QED BY <3>1
    <2>2. t # <<>>
      BY <1>1, <1>5
    <2> QED BY <1>5, <2>1, <2>2 DEF Top
  <1> QED BY <1>3, <1>5, <1>6, <1>7, <1>8, <1>9 DEF GoodWalk, t

LEMMA FrontWalk ==
    ASSUME UsbAssumption, tree \in Trees, NEW s, GoodWalk(s), s # <<>>, Len(s) # 1
    PROVE  /\ GoodWalk(Front(s)) /\ Len(Front(s)) = Len(s) - 1 /\ Front(s) # <<>>
           /\ Top(Front(s)).dir = Parent(Top(s).dir)
           /\ \A i \in 1..(Len(s) - 1) : Front(s)[i] = s[i]
  <1> DEFINE t == Front(s)
  <1>1. s \in Seq(Frames) /\ Len(s) \in Nat \ {0, 1} /\ DOMAIN s = 1..Len(s)
    BY Tops DEF GoodWalk
  <1>2. /\ t \in Seq(Frames) /\ Len(t) = Len(s) - 1 /\ DOMAIN t = 1..(Len(s) - 1)
        /\ \A i \in 1..(Len(s) - 1) : t[i] = s[i]
    BY <1>1 DEF Front
  <1> HIDE DEF t
  <1>3. IsWalk(t)
    <2>1. \A i \in 1..(Len(s) - 1) : i \in 1..Len(s)
      BY <1>1
    <2> QED BY <1>1, <1>2, <2>1 DEF GoodWalk, IsWalk
  <1>4. \A i \in 1..(Len(t) - 1) : t[i + 1].dir \in Range(tree.entries[t[i].dir])
    <2>1. \A i \in 1..(Len(t) - 1) : i \in 1..(Len(s) - 1) /\ i + 1 \in 1..(Len(s) - 1)
      BY <1>1, <1>2
    <2> QED BY <1>2, <2>1 DEF GoodWalk
  <1>5. t # <<>> /\ Top(t) = s[Len(s) - 1]
    BY <1>1, <1>2 DEF Top
  <1>6. s[Len(s) - 1].dir \in Dirs /\ Top(s).dir \in Range(tree.entries[s[Len(s) - 1].dir])
    <2>1. Len(s) - 1 \in 1..(Len(s) - 1) /\ (Len(s) - 1) + 1 = Len(s) /\ Len(s) - 1 \in DOMAIN s
      BY <1>1
    <2> QED BY <2>1 DEF GoodWalk, IsWalk, Top, Dirs
  <1>7. Top(t).dir = Parent(Top(s).dir)
    BY <1>5, <1>6, ParentOf
  <1> QED BY <1>2, <1>3, <1>4, <1>5, <1>7 DEF GoodWalk, t

-----------------------------------------------------------------------------
(* The steps keep the walks and the places.                                *)
LEMMA InitLookup == ASSUME UsbAssumption, Init PROVE LookupInv
  <1>1. GoodWalk(<<>>)
    BY DEF GoodWalk, IsWalk
  <1>2. TypeOK
    BY <1>1 DEF Init, TypeOK, GoodWalk, UsbAssumption
  <1>3. Shape
    BY <1>1, <1>2 DEF Init, Shape, Scanning, Walking
  <1> QED BY <1>3 DEF Init, LookupInv, NeverAstray, Searching, Resulted, Answered

LEMMA OneFrame ==
    ASSUME UsbAssumption, tree \in Trees, NEW d \in Dirs
    PROVE  /\ GoodWalk(<<Frame(d)>>) /\ <<Frame(d)>> # <<>>
           /\ <<Frame(d)>>[1] = Frame(d) /\ Top(<<Frame(d)>>) = Frame(d) /\ Frame(d).dir = d
  <1>1. Frame(d) \in Frames /\ Len(tree.entries[d]) \in Nat
    BY TreeFacts DEF Frame, Frames
  <1>2. <<Frame(d)>> \in Seq(Frames) /\ DOMAIN <<Frame(d)>> = 1..1 /\ Len(<<Frame(d)>>) = 1
        /\ <<Frame(d)>>[1] = Frame(d)
    BY <1>1
  <1>3. IsWalk(<<Frame(d)>>)
    BY <1>1, <1>2 DEF IsWalk, Frame, Dirs
  <1> QED BY <1>2, <1>3 DEF GoodWalk, Top, Frame

(* The tree stays; so what is a walk stays one.                            *)
LEMMA TreeStays == ASSUME [Next]_vars PROVE tree' = tree
  BY DEF Next, Program, vars, get_usbdevname, check_usbdev, Called, lstat_fails, readdir_skips,
         scan_inside, skip_file, scan_link, leave_dir, wait_child, child_fails, walk_inside,
         skip_link, open_uevent, walk_up, read_devname, no_name, unplug, Parents

LEMMA MemoryStays == ASSUME [Next]_vars PROVE behind' = behind
  BY DEF Next, Program, vars, get_usbdevname, check_usbdev, Called, lstat_fails, readdir_skips,
         scan_inside, skip_file, scan_link, leave_dir, wait_child, child_fails, walk_inside,
         skip_link, open_uevent, walk_up, read_devname, no_name, unplug, Parents

LEMMA ScanningNext == ASSUME UsbAssumption, LookupInv, [Next]_vars PROVE Scanning'
  <1>0. tree' = tree /\ tree \in Trees /\ Scanning
    BY TreeStays DEF LookupInv, Shape
  <1>1. ASSUME NEW s, GoodWalk(s), stack' = s,
               s # <<>> => s[1].dir = Root /\ cwd' = Top(s).dir
        PROVE  Scanning'
    BY <1>0, <1>1 DEF Scanning, GoodWalk, IsWalk, Frames, Dirs, Top
  <1>2. CASE UNCHANGED <<stack, cwd>>
    BY <1>0, <1>1, <1>2 DEF Scanning
  <1>3. ASSUME stack # <<>>, More(Here), stack' = Moved(stack), cwd' = cwd PROVE Scanning'
    <2>1. GoodWalk(stack) /\ Len(stack) \in Nat \ {0} /\ stack \in Seq(Frames)
      BY <1>0, <1>3, Tops DEF Scanning, GoodWalk
    <2>2. Moved(stack)[1].dir = stack[1].dir /\ Top(Moved(stack)).dir = Top(stack).dir
      BY <1>0, <1>3, <2>1, MovedWalk DEF Here, Top
    <2> QED BY <1>0, <1>1, <1>3, <2>1, <2>2, MovedWalk DEF Scanning, Here
  <1>4. ASSUME NEW r, Called(r) PROVE Scanning'
    <2>1. Root \in Dirs
      BY <1>0, TreeFacts
    <2>2. stack' = <<Frame(Root)>> /\ cwd' = Root => Scanning'
      BY <1>0, <1>1, <2>1, OneFrame
    <2> QED BY <1>2, <1>4, <2>2 DEF Called
  <1>5. CASE scan_inside
    <2> DEFINE e == Entry(Here)
               s == Moved(stack)
    <2>1. stack # <<>> /\ More(Here) /\ stack' = Append(s, Frame(e)) /\ cwd' = e /\ e \in Dirs
      BY <1>5 DEF scan_inside, Scans, IsDir, Dirs
    <2>2. GoodWalk(stack) /\ Len(stack) \in Nat \ {0} /\ stack \in Seq(Frames)
      BY <1>0, <2>1, Tops DEF Scanning, GoodWalk
    <2>3. /\ GoodWalk(s) /\ s # <<>> /\ Len(s) = Len(stack)
          /\ s[1].dir = stack[1].dir /\ Top(s).dir = Top(stack).dir
      BY <1>0, <2>1, <2>2, MovedWalk DEF Here, Top
    <2>4. e \in Range(tree.entries[Top(stack).dir])
      BY <1>0, <2>1, <2>2, Tops DEF Here
    <2> HIDE DEF e, s
    <2>5. /\ GoodWalk(Append(s, Frame(e))) /\ Top(Append(s, Frame(e))) = Frame(e)
          /\ Append(s, Frame(e))[1] = s[1]
      BY <1>0, <2>1, <2>2, <2>3, <2>4, DeeperWalk
    <2>6. stack'[1].dir = Root /\ Top(Append(s, Frame(e))).dir = e
      BY <1>0, <2>1, <2>3, <2>5 DEF Scanning, Frame
    <2> QED BY <1>1, <2>1, <2>5, <2>6
  <1>6. ASSUME stack # <<>>, stack' = Left(stack, 0), cwd' = cwd PROVE Scanning'
    <2>1. GoodWalk(stack) /\ Len(stack) \in Nat \ {0}
      BY <1>0, <1>6, Tops DEF Scanning
    <2>2. Left(stack, 0)[1].dir = stack[1].dir /\ Top(Left(stack, 0)).dir = Top(stack).dir
      BY <1>0, <1>6, <2>1, LeftWalk
    <2> QED BY <1>0, <1>1, <1>6, <2>1, <2>2, LeftWalk DEF Scanning
  <1>7. CASE leave_dir
    <2>1. GoodWalk(stack) /\ Len(stack) \in Nat \ {0} /\ stack # <<>> /\ cwd = Top(stack).dir
      BY <1>0, <1>7, Tops DEF Scanning, leave_dir, Scans
    <2>2. CASE Len(stack) = 1
      <3>1. stack' = <<>>
        BY <1>7, <2>2 DEF leave_dir
      <3>2. GoodWalk(<<>>)
        BY DEF GoodWalk, IsWalk
      <3> QED BY <1>1, <3>1, <3>2
    <2>3. CASE Len(stack) # 1
      <3>1. stack' = Front(stack) /\ cwd' = Parent(Top(stack).dir)
        BY <1>7, <2>1, <2>3 DEF leave_dir
      <3>2. Front(stack)[1] = stack[1]
        BY <1>0, <2>1, <2>3, FrontWalk
      <3> QED BY <1>0, <1>1, <2>1, <2>3, <3>1, <3>2, FrontWalk DEF Scanning
    <2> QED BY <2>2, <2>3
  <1>8. CASE readdir_skips \/ skip_file \/ scan_link
    BY <1>2, <1>3, <1>6, <1>8 DEF readdir_skips, skip_file, scan_link, Scans
  <1>9. CASE \/ UNCHANGED vars \/ lstat_fails \/ wait_child \/ child_fails \/ walk_inside \/ skip_link
             \/ open_uevent \/ walk_up \/ read_devname \/ no_name
             \/ \E link \in DOMAIN tree.target : unplug(link)
    BY <1>2, <1>9 DEF vars, scanVars, lstat_fails, wait_child, child_fails, walk_inside, skip_link,
                      open_uevent, walk_up, read_devname, no_name, unplug, Parents
  <1> QED BY <1>4, <1>5, <1>7, <1>8, <1>9 DEF Next, Program, get_usbdevname, check_usbdev

LEMMA WalkingNext == ASSUME UsbAssumption, LookupInv, [Next]_vars PROVE Walking'
  <1>0. tree' = tree /\ tree \in Trees /\ Walking /\ (reading # None => walk # <<>>)
    BY TreeStays DEF LookupInv, Shape
  <1>1. ASSUME NEW s, GoodWalk(s), walk' = s, s # <<>> => childcwd' = Top(s).dir
        PROVE  Walking'
    BY <1>0, <1>1 DEF Walking, GoodWalk, IsWalk, Frames, Dirs, Top
  <1>2. CASE UNCHANGED <<walk, childcwd>>
    BY <1>0, <1>1, <1>2 DEF Walking
  <1>3. CASE walk' = <<>>
    <2>1. GoodWalk(<<>>)
      BY DEF GoodWalk, IsWalk
    <2> QED BY <1>1, <1>3, <2>1
  <1>4. ASSUME walk # <<>>, More(There), walk' = Moved(walk), childcwd' = childcwd PROVE Walking'
    <2>1. GoodWalk(walk)
      BY <1>0 DEF Walking
    <2> QED BY <1>0, <1>1, <1>4, <2>1, MovedWalk DEF Walking, There
  <1>5. ASSUME walk # <<>>, walk' = Left(walk, 1), childcwd' = childcwd PROVE Walking'
    <2>1. GoodWalk(walk)
      BY <1>0 DEF Walking
    <2> QED BY <1>0, <1>1, <1>5, <2>1, LeftWalk DEF Walking
  <1>6. CASE walk_inside
    <2> DEFINE e == Entry(There)
               s == Moved(walk)
    <2>1. walk # <<>> /\ More(There) /\ walk' = Append(s, Frame(e)) /\ childcwd' = e /\ e \in Dirs
      BY <1>6 DEF walk_inside, Walks, IsDir, Dirs
    <2>2. GoodWalk(walk)
      BY <1>0 DEF Walking
    <2>3. GoodWalk(s) /\ s # <<>> /\ Top(s).dir = Top(walk).dir
      BY <1>0, <2>1, <2>2, MovedWalk DEF There
    <2>4. e \in Range(tree.entries[Top(walk).dir])
      BY <1>0, <2>1, <2>2, Tops DEF There
    <2> HIDE DEF e, s
    <2>5. /\ GoodWalk(Append(s, Frame(e))) /\ Top(Append(s, Frame(e))) = Frame(e)
      BY <1>0, <2>1, <2>3, <2>4, DeeperWalk
    <2>6. Top(Append(s, Frame(e))).dir = e
      BY <2>5 DEF Frame
    <2> QED BY <1>1, <2>1, <2>5, <2>6
  <1>7. CASE walk_up
    <2>1. GoodWalk(walk) /\ walk # <<>> /\ childcwd = Top(walk).dir
      BY <1>0, <1>7 DEF Walking, walk_up, Walks
    <2>2. CASE Len(walk) = 1
      BY <1>3, <1>7, <2>2 DEF walk_up, ChildExits
    <2>3. CASE Len(walk) # 1
      <3> DEFINE s == Front(walk)
      <3>1. /\ walk' = (IF There.ret = 1 THEN Left(s, 1) ELSE s)
            /\ childcwd' = Parent(Top(walk).dir)
        BY <1>7, <2>1, <2>3 DEF walk_up
      <3>2. GoodWalk(s) /\ s # <<>> /\ Top(s).dir = Parent(Top(walk).dir)
        BY <1>0, <2>1, <2>3, FrontWalk
      <3> HIDE DEF s
      <3>3. GoodWalk(Left(s, 1)) /\ Top(Left(s, 1)).dir = Top(s).dir
        BY <1>0, <3>2, LeftWalk
      <3>4. CASE There.ret = 1
        BY <1>1, <3>1, <3>2, <3>3, <3>4
      <3>5. CASE There.ret # 1
        BY <1>1, <3>1, <3>2, <3>5
      <3> QED BY <3>4, <3>5
    <2> QED BY <2>2, <2>3
  <1>8. CASE scan_link
    <2> DEFINE d == tree.target[Entry(Here)]
    <2>1. d \in Dirs
      BY <1>0, <1>8, TreeFacts DEF scan_link, IsLink, IsTree, Dirs
    <2>2. UNCHANGED <<walk, childcwd>> \/ (walk' = <<Frame(d)>> /\ childcwd' = d)
      BY <1>8 DEF scan_link, ChildInit, childVars
    <2> HIDE DEF d
    <2> QED BY <1>0, <1>1, <1>2, <2>1, <2>2, OneFrame
  <1>9. CASE read_devname
    <2>1. walk # <<>> /\ childcwd' = childcwd
      BY <1>0, <1>9 DEF read_devname
    <2>2. walk' \in {walk, <<>>, Left(walk, 1)}
      BY <1>9 DEF read_devname, Searched, ChildExits
    <2> QED BY <1>2, <1>3, <1>5, <2>1, <2>2
  <1>10. CASE skip_link \/ open_uevent \/ child_fails
    BY <1>3, <1>4, <1>10 DEF skip_link, open_uevent, child_fails, Walks, ChildExits
  <1>11. CASE \/ UNCHANGED vars \/ lstat_fails \/ readdir_skips \/ scan_inside \/ skip_file \/ leave_dir
              \/ wait_child \/ no_name
              \/ \E r \in Requests : get_usbdevname(r) \/ check_usbdev(r)
              \/ \E link \in DOMAIN tree.target : unplug(link)
    BY <1>2, <1>11 DEF vars, childVars, lstat_fails, readdir_skips, scan_inside, skip_file, leave_dir,
                       wait_child, no_name, get_usbdevname, check_usbdev, Called, unplug
  <1> QED BY <1>6, <1>7, <1>8, <1>9, <1>10, <1>11 DEF Next, Program

(* Numbers have a least one: what Min of the model rests on.               *)
LEMMA Least ==
    ASSUME NEW T \in SUBSET Nat, T # {}
    PROVE  Min(T) \in T
  <1> DEFINE R == OpToRel(<, Nat)
  <1>1. IsWellFoundedOn(R, Nat)
    BY NatLessThanWellFounded
  <1>2. \A x, y \in Nat : y < x => <<y, x>> \in R
    BY DEF OpToRel
  <1> HIDE DEF R
  <1>3. PICK x \in T : \A y \in T : ~(<<y, x>> \in R)
    BY <1>1, WFMin
  <1>4. \A y \in T : ~(y < x) /\ y \in Nat /\ x \in Nat
    BY <1>2, <1>3
  <1>5. \A y \in T : x <= y
    BY <1>4
  <1> QED BY <1>5 DEF Min

(* A text to search is that of the chunk and no longer, unless it goes on  *)
(* behind it; and the key that is found is in the text.                    *)
LEMMA TextOfChunk ==
    ASSUME UsbAssumption, behind \in Behind, NEW b, NEW f, b = [i \in 1..Chunk |-> f[i]]
    PROVE  Len(Text(b)) \in Nat /\ (behind = <<>> => Len(Text(b)) <= Chunk)
  <1> DEFINE I == {i \in 1..Chunk : b[i] = Nul}
             end == IF I # {} THEN Min(I) ELSE 0
  <1>1. Text(b) = IF end = 0 THEN b \o behind ELSE SubSeq(b, 1, end - 1)
    BY DEF Text, SelectInSubSeq
  <1>2. Chunk \in Nat /\ behind \in Seq(STRING)
    BY DEF UsbAssumption
  <1>3. b \in Seq(Range(b)) /\ Len(b) = Chunk
    <2>1. \A i \in 1..Chunk : b[i] \in Range(b)
      BY DEF Range
    <2> QED BY <1>2, <2>1
  <1>4. end = 0 \/ end \in 1..Chunk
    <2>1. I \in SUBSET Nat
      BY <1>2
    <2> HIDE DEF I
    <2>2. I # {} => Min(I) \in I
      BY <2>1, Least
    <2> QED BY <2>2 DEF I
  <1>5. Len(b \o behind) = Chunk + Len(behind) /\ Len(behind) \in Nat
    BY <1>2, <1>3
  <1>6. behind = <<>> => Len(behind) = 0
    OBVIOUS
  <1> HIDE DEF end
  <1>7. end \in 1..Chunk => Len(SubSeq(b, 1, end - 1)) = end - 1
    BY <1>2, <1>3
  <1>8. CASE end = 0
    BY <1>1, <1>2, <1>5, <1>6, <1>8
  <1>9. CASE end # 0
    <2>1. Len(Text(b)) = end - 1 /\ end \in 1..Chunk
      BY <1>1, <1>4, <1>7, <1>9
    <2> QED BY <2>1, <1>2
  <1> QED BY <1>8, <1>9

LEMMA KeyInText ==
    ASSUME NEW t, Len(t) \in Nat
    PROVE  KeyAt(t) = 0 \/ KeyAt(t) \in 1..(Len(t) - 1)
  <1> DEFINE I == {i \in 1..(Len(t) - 1) : [j \in 1..(Len(t) - 1) |-> <<t[j], t[j + 1]>>][i] = Key}
  <1>1. KeyAt(t) = IF I # {} THEN Min(I) ELSE 0
    BY DEF KeyAt, SelectInSubSeq
  <1>2. I \in SUBSET Nat /\ I \subseteq 1..(Len(t) - 1)
    OBVIOUS
  <1> HIDE DEF I
  <1>3. I # {} => Min(I) \in I
    BY <1>2, Least
  <1> QED BY <1>1, <1>2, <1>3

(* A turn of the loop stays in the file, as long as it stays in the chunk. *)
LEMMA ReadingNext ==
    ASSUME UsbAssumption, LookupInv, read_devname
    PROVE  /\ count' \in -1..Chunk /\ child' \in {"none", "runs", "exited"}
           /\ reading' \in {None, reading}
           /\ pos' \in Nat /\ (behind = <<>> => pos' <= Len(tree.uevent[reading]))
  <1> DEFINE file == tree.uevent[reading]
             left == IF pos < Len(file) THEN Len(file) - pos ELSE 0
             n    == IF There.dir \in gone THEN -1 ELSE IF left < Chunk THEN left ELSE Chunk
             b    == Filled(buf, file, pos, n)
             text == Text(b)
             next == IF n < 0 THEN pos ELSE pos + n - Overlap(n)
             key  == KeyAt(text)
  <1>1. /\ pos \in Nat /\ (behind = <<>> => pos <= Len(file)) /\ Len(file) \in Nat
        /\ Chunk \in Nat /\ Chunk > 7 /\ count \in -1..Chunk /\ child = "runs" /\ behind \in Behind
    <2>1. reading \in DOMAIN tree.uevent
      BY DEF LookupInv, Shape, TypeOK, read_devname
    <2> QED BY <2>1, TreeFacts DEF LookupInv, Shape, TypeOK, read_devname, IsTree, UsbAssumption
  <1>2. Len(Key) = 2
    BY DEF Key
  <1>3. n \in -1..Chunk /\ next \in Nat /\ (behind = <<>> => next <= Len(file))
    <2>0. left \in Nat /\ (pos <= Len(file) => left = Len(file) - pos)
      BY <1>1
    <2> HIDE DEF left
    <2>1. CASE There.dir \in gone
      <3>1. n = -1 /\ next = pos
        BY <2>1
      <3> HIDE DEF n, next
      <3> QED BY <1>1, <3>1
    <2>2. CASE There.dir \notin gone /\ left < Chunk
      <3>0. n = left /\ left # Chunk
        BY <1>1, <2>0, <2>2
      <3>1. Overlap(n) = 0
        BY <3>0 DEF Overlap
      <3>2. next = pos + left
        BY <1>1, <2>0, <3>0, <3>1
      <3> HIDE DEF n, next
      <3> QED BY <1>1, <2>0, <2>2, <3>0, <3>2
    <2>3. CASE There.dir \notin gone /\ ~(left < Chunk)
      <3>1. n = Chunk /\ next = pos + Chunk - 2
        BY <1>1, <1>2, <2>0, <2>3 DEF Overlap
      <3> HIDE DEF n, next
      <3> QED BY <1>1, <2>0, <2>3, <3>1
    <2> QED BY <2>1, <2>2, <2>3
  <1>4. Len(text) \in Nat /\ (behind = <<>> => Len(text) <= Chunk)
    BY <1>1, TextOfChunk DEF Filled
  <1>5. /\ Searched(text, n, next) /\ UNCHANGED <<Parents, childcwd>>
    BY DEF read_devname
  <1> HIDE DEF n, next, text, file
  <1>6. key \in Nat /\ (behind = <<>> => key <= Chunk)
    <2>1. key = 0 \/ key \in 1..(Len(text) - 1)
      BY <1>4, KeyInText
    <2> HIDE DEF key
    <2> QED BY <1>1, <1>4, <2>1
  <1>7. \/ pos' = next /\ count' = n /\ UNCHANGED <<child, reading, walk>>
        \/ /\ key # 0 /\ next >= Chunk - (key - 1) /\ pos' = next - (Chunk - (key - 1))
           /\ count' = n /\ UNCHANGED <<child, reading, walk>>
        \/ child' = "exited" /\ reading' = None /\ walk' = <<>> /\ UNCHANGED <<pos, count>>
        \/ reading' = None /\ walk' = Left(walk, 1) /\ UNCHANGED <<child, pos, count>>
    BY <1>5 DEF Searched, ChildExits
  <1> HIDE DEF key
  <1>8. key # 0 /\ next >= Chunk - (key - 1) =>
            LET p == next - (Chunk - (key - 1))
            IN  p \in Nat /\ (behind = <<>> => p <= Len(file))
    BY <1>1, <1>3, <1>6
  <1> QED BY <1>1, <1>3, <1>7, <1>8 DEF file

LEMMA TypeNext == ASSUME UsbAssumption, LookupInv, [Next]_vars PROVE TypeOK'
  <1>0. tree' = tree /\ tree \in Trees /\ TypeOK /\ Scanning /\ Walking /\ Scanning' /\ Walking'
    BY TreeStays, ScanningNext, WalkingNext DEF LookupInv, Shape
  <1>1. IsWalk(stack)' /\ IsWalk(walk)'
    BY <1>0 DEF Scanning, Walking, GoodWalk
  <1>2. calls' \in 0..Calls /\ request' \in Requests \cup {NoRequest}
    <2>1. CASE \E r \in Requests : Called(r)
      BY <1>0, <2>1 DEF TypeOK, Called, UsbAssumption
    <2>2. CASE UNCHANGED <<calls, request>>
      BY <1>0, <2>2 DEF TypeOK
    <2> QED BY <2>1, <2>2 DEF Next, Program, vars, scanVars, get_usbdevname, check_usbdev,
           lstat_fails, readdir_skips, scan_inside, skip_file, scan_link, leave_dir, wait_child,
           child_fails, walk_inside, skip_link, open_uevent, walk_up, read_devname, no_name,
           unplug, Parents
  <1>3. result' \in {1, 0, -1}
    <2>1. CASE leave_dir
      <3>1. stack # <<>> => Here.ret \in {-1, 0, 1}
        BY <1>0, Tops DEF Scanning, Here
      <3> QED BY <1>0, <2>1, <3>1 DEF TypeOK, leave_dir, Scans
    <2>2. CASE UNCHANGED result
      BY <1>0, <2>2 DEF TypeOK
    <2> QED BY <2>1, <2>2 DEF Next, Program, vars, scanVars, get_usbdevname, check_usbdev, Called,
           lstat_fails, readdir_skips, scan_inside, skip_file, scan_link, wait_child,
           child_fails, walk_inside, skip_link, open_uevent, walk_up, read_devname, no_name,
           unplug, Parents
  <1>4. /\ child' \in {"none", "runs", "exited"} /\ count' \in -1..Chunk
        /\ reading' \in DOMAIN tree.uevent \cup {None}
        /\ behind' \in Behind
        /\ reading' # None => pos' \in Nat /\ (behind' = <<>> => pos' <= Len(tree.uevent[reading']))
    <2>0. behind' = behind /\ behind \in Behind
      BY <1>0, MemoryStays DEF TypeOK
    <2>1. CASE read_devname
      BY <1>0, <2>0, <2>1, ReadingNext DEF TypeOK, read_devname
    <2>2. CASE open_uevent
      <3>1. /\ reading' \in DOMAIN tree.uevent /\ pos' = 0 /\ count' = Chunk /\ child' = child
        BY <2>2 DEF open_uevent, IsFile
      <3>2. Len(tree.uevent[reading']) \in Nat
        BY <1>0, <3>1, TreeFacts DEF IsTree
      <3> QED BY <1>0, <2>0, <3>1, <3>2 DEF TypeOK, UsbAssumption
    <2>3. CASE /\ child' \in {child, "none", "runs", "exited"} /\ reading' \in {reading, None}
               /\ UNCHANGED <<pos, count>>
      BY <1>0, <2>0, <2>3 DEF TypeOK
    <2> QED BY <2>1, <2>2, <2>3 DEF Next, Program, vars, childVars, readVars, get_usbdevname,
           check_usbdev, Called, lstat_fails, readdir_skips, scan_inside, skip_file, scan_link,
           ChildInit, leave_dir, wait_child, child_fails, ChildExits, walk_inside, skip_link,
           walk_up, no_name, unplug
  <1> QED BY <1>0, <1>1, <1>2, <1>3, <1>4 DEF TypeOK

LEMMA ShapeNext == ASSUME UsbAssumption, LookupInv, [Next]_vars PROVE Shape'
  <1>1. tree' = tree /\ tree' \in Trees
    BY TreeStays DEF LookupInv, Shape
  <1>2. (reading # None => walk # <<>>)'
    <2>0. (reading # None => walk # <<>>) /\ GoodWalk(walk) /\ tree \in Trees
      BY DEF LookupInv, Shape, Walking
    <2>1. CASE open_uevent
      <3>1. walk # <<>> /\ More(Top(walk)) /\ walk' = Moved(walk)
        BY <2>1 DEF open_uevent, Walks, There
      <3> QED BY <2>0, <3>1, MovedWalk
    <2>2. CASE read_devname
      <3>1. walk # <<>>
        BY <2>0, <2>2 DEF read_devname
      <3>2. Left(walk, 1) # <<>>
        BY <2>0, <3>1, LeftWalk
      <3>3. reading' = None \/ walk' \in {walk, Left(walk, 1)}
        BY <2>2 DEF read_devname, Searched, ChildExits
      <3> QED BY <3>1, <3>2, <3>3
    <2>3. CASE reading' = None \/ UNCHANGED <<reading, walk>>
      BY <2>0, <2>3
    <2>4. CASE scan_link
      <3>1. UNCHANGED reading /\ (walk' = walk \/ \E d : walk' = <<Frame(d)>>)
        BY <2>4 DEF scan_link, ChildInit, childVars, readVars
      <3> QED BY <2>0, <3>1
    <2>5. CASE Walks /\ UNCHANGED reading
      BY <2>5 DEF Walks
    <2> QED BY <2>1, <2>2, <2>3, <2>4, <2>5 DEF Next, Program, vars, childVars, readVars,
           get_usbdevname, check_usbdev, Called, lstat_fails, readdir_skips, scan_inside, skip_file,
           leave_dir, wait_child, child_fails, ChildExits, walk_inside, skip_link, walk_up, no_name,
           unplug
  <1> QED BY <1>1, <1>2, ScanningNext, WalkingNext, TypeNext DEF Shape

(* What is in a directory that is there is found; so a search is astray    *)
(* only when something is gone, which stays so.                            *)
LEMMA GoneGrows == ASSUME [Next]_vars PROVE gone \subseteq gone'
  BY DEF Next, Program, vars, get_usbdevname, check_usbdev, Called, lstat_fails, readdir_skips,
         scan_inside, skip_file, scan_link, leave_dir, wait_child, child_fails, walk_inside,
         skip_link, open_uevent, walk_up, read_devname, no_name, unplug, Parents

LEMMA HereFound ==
    ASSUME UsbAssumption, LookupInv, stack # <<>>, More(Here), gone = {}
    PROVE  Found(cwd, Entry(Here))
  <1>1. Entry(Here) \in Range(tree.entries[Top(stack).dir]) /\ cwd = Top(stack).dir
    BY Tops DEF LookupInv, Shape, Scanning, Here
  <1> QED BY <1>1 DEF Found

LEMMA AstrayNext == ASSUME UsbAssumption, LookupInv, [Next]_vars PROVE NeverAstray'
  <1>1. CASE lstat_fails
    <2>1. stack # <<>> /\ More(Here) /\ ~Found(cwd, Entry(Here)) /\ gone' = gone
      BY <1>1 DEF lstat_fails, Scans
    <2> QED BY <2>1, HereFound DEF NeverAstray
  <1>2. CASE \E r \in Requests : Called(r)
    BY <1>2 DEF Called, NeverAstray
  <1>3. CASE exited' = exited /\ (stack' # <<>> => stack # <<>>)
    BY <1>3, GoneGrows DEF LookupInv, NeverAstray
  <1>4. CASE scan_link /\ exited' # exited
    <2>1. "error" \in scan_usbdevice(tree.target[Entry(Here)]) /\ gone' = gone
      BY <1>4 DEF scan_link
    <2>2. tree.target[Entry(Here)] \in gone
      BY <2>1 DEF scan_usbdevice
    <2> QED BY <2>1, <2>2 DEF NeverAstray
  <1>5. exited' = FALSE \/ lstat_fails \/ (scan_link /\ exited' # exited) \/ (\E r \in Requests : Called(r))
        \/ (exited' = exited /\ (stack' # <<>> => stack # <<>>))
    BY DEF Next, Program, vars, scanVars, get_usbdevname, check_usbdev,
           readdir_skips, scan_inside, skip_file, scan_link, leave_dir, wait_child, child_fails,
           walk_inside, skip_link, open_uevent, walk_up, read_devname, no_name, unplug, Parents, Scans
  <1> QED BY <1>1, <1>2, <1>3, <1>4, <1>5 DEF NeverAstray

LEMMA FirstBelow == \A n \in Nat \ {0} : n # 1 => 1 \in 1..(n - 1)
  OBVIOUS

(* A link that is passed over is no device with the ids, one that ends the *)
(* search is.                                                              *)
LEMMA NotPassedOver ==
    ASSUME UsbAssumption, LookupInv, [Next]_vars PROVE Searching'
  <1> SUFFICES ASSUME stack' # <<>>, gone' = {}
               PROVE  \/ stack'[1].ret = -1 /\ \A i \in Matching' : stack'[1].at <= i
                      \/ stack'[1].ret = 0 /\ Matching' # {}
    BY DEF Searching
  <1>0. /\ tree' = tree /\ tree \in Trees /\ gone = {} /\ Scanning /\ Searching
    BY TreeStays, GoneGrows DEF LookupInv, Shape
  <1>1. Matching \subseteq 1..Len(tree.entries[Root]) /\ Len(tree.entries[Root]) \in Nat
    BY <1>0, TreeFacts DEF Matching
  <1>2. CASE \E r \in Requests : Called(r)
    <2>1. stack' = <<Frame(Root)>> \/ stack' = <<>>
      BY <1>2 DEF Called
    <2>2. stack'[1].ret = -1 /\ stack'[1].at = 1
      BY <2>1 DEF Frame
    <2>3. Matching' \subseteq Nat \ {0}
      BY <1>0, TreeFacts DEF Matching
    <2> QED BY <2>2, <2>3
  <1>3. CASE UNCHANGED <<stack, request>>
    BY <1>0, <1>3 DEF Searching, Matching, IsLink
  <1>4. ASSUME stack # <<>>, UNCHANGED request
        PROVE  /\ Matching' = Matching /\ GoodWalk(stack) /\ Len(stack) \in Nat \ {0} /\ stack[1] \in Frames
               /\ stack[1].dir = Root
    BY <1>0, <1>4, Tops DEF Matching, IsLink, Scanning, GoodWalk
  <1>5. ASSUME stack # <<>>, More(Here), UNCHANGED request, NEW s, s = Moved(stack),
               stack'[1] = s[1], Len(stack) = 1 => Here.at \notin Matching
        PROVE  \/ stack'[1].ret = -1 /\ \A i \in Matching' : stack'[1].at <= i
               \/ stack'[1].ret = 0 /\ Matching' # {}
    <2>1. /\ s[1].ret = stack[1].ret
          /\ s[1].at = IF Len(stack) = 1 THEN stack[1].at + 1 ELSE stack[1].at
      <3>1. GoodWalk(stack) /\ Len(stack) \in Nat \ {0}
        BY <1>4, <1>5
      <3>2. 1 \in 1..Len(stack) /\ (1 = Len(stack) <=> Len(stack) = 1)
        BY <3>1
      <3>3. \A i \in 1..Len(stack) :
                /\ s[i].ret = stack[i].ret
                /\ s[i].at = IF i = Len(stack) THEN stack[i].at + 1 ELSE stack[i].at
        BY <1>0, <1>5, <3>1, MovedWalk DEF Here
      <3> QED BY <3>2, <3>3
    <2>2. stack[1].at \in Nat /\ (Len(stack) = 1 => stack[1].at = Here.at)
      BY <1>4, <1>5 DEF Frames, Here, Top
    <2>3. CASE stack[1].ret = -1 /\ \A i \in Matching : stack[1].at <= i
      <3>1. \A i \in Matching : s[1].at <= i
        BY <1>1, <1>5, <2>1, <2>2, <2>3
      <3> QED BY <1>4, <1>5, <2>1, <2>3, <3>1
    <2>4. CASE stack[1].ret = 0 /\ Matching # {}
      BY <1>4, <1>5, <2>1, <2>4
    <2> QED BY <1>0, <1>5, <2>3, <2>4 DEF Searching
  <1>6. ASSUME stack # <<>>, Len(stack) = 1, Here.at \in Matching, More(Here)
        PROVE  IsLink(Entry(Here)) /\ tree.ids[tree.target[Entry(Here)]] = request.ids
    <2>1. Here.dir = Root
      BY <1>0, <1>6 DEF Scanning, Here, Top
    <2> QED BY <1>6, <2>1 DEF Matching, Entry
  <1>7. CASE scan_inside \/ skip_file \/ readdir_skips
    <2>1. stack # <<>> /\ More(Here) /\ UNCHANGED request
      BY <1>7 DEF scan_inside, skip_file, readdir_skips, Scans
    <2>2. ~readdir_skips
      BY <1>0, <2>1, HereFound DEF readdir_skips
    <2>3. ~IsLink(Entry(Here))
      BY <1>0, <1>7, <2>2, TreeFacts DEF scan_inside, skip_file, IsDir, IsFile, IsLink, IsTree
    <2>4. stack' = Moved(stack) \/ stack' = Append(Moved(stack), Frame(Entry(Here)))
      BY <1>7, <2>2 DEF scan_inside, skip_file
    <2>5. Moved(stack) \in Seq(Frames) /\ Len(Moved(stack)) \in Nat \ {0}
      BY <1>0, <1>4, <2>1, MovedWalk DEF GoodWalk, Here
    <2>6. Append(Moved(stack), Frame(Entry(Here)))[1] = Moved(stack)[1]
      BY <2>5
    <2> QED BY <1>5, <1>6, <2>1, <2>3, <2>4, <2>6
  <1>8. CASE scan_link
    <2> DEFINE d == tree.target[Entry(Here)]
    <2>1. stack # <<>> /\ More(Here) /\ UNCHANGED request /\ IsLink(Entry(Here))
      BY <1>8 DEF scan_link, Scans
    <2>0. scan_usbdevice(d) = IF tree.ids[d] = request.ids THEN {"found"} ELSE {"other"}
      BY <1>0 DEF scan_usbdevice
    <2>2. CASE tree.ids[d] # request.ids
      <3>1. stack' = Moved(stack)
        BY <1>8, <2>0, <2>2 DEF scan_link
      <3> QED BY <1>5, <1>6, <2>1, <2>2, <3>1
    <2>3. CASE tree.ids[d] = request.ids
      <3>1. stack' = Left(stack, 0) /\ tree.ids[d] = request.ids
        BY <1>8, <2>0, <2>3 DEF scan_link
      <3>2. CASE Len(stack) = 1
        <4>1. stack'[1].ret = 0
          BY <1>0, <1>4, <2>1, <3>1, <3>2, LeftWalk DEF Top
        <4>2. Here.at \in DOMAIN tree.entries[Root] /\ Here.dir = Root
          <5>1. Here.at \in 1..(Len(tree.entries[Here.dir]) + 1) /\ Here.dir = Root
            BY <1>0, <1>4, <2>1, <3>2, Tops DEF Here, Top
          <5>2. Here.at \in 1..Len(tree.entries[Root])
            BY <1>1, <2>1, <5>1 DEF More
          <5> QED BY <1>0, <5>1, <5>2, TreeFacts
        <4>3. Here.at \in Matching
          BY <2>1, <3>1, <4>2 DEF Matching, Entry
        <4> QED BY <1>4, <2>1, <4>1, <4>3
      <3>3. CASE Len(stack) # 1
        <4>1. 1 \in 1..(Len(stack) - 1)
          <5>1. Len(stack) \in Nat \ {0}
            BY <1>4, <2>1
          <5> QED BY <3>3, <5>1, FirstBelow
        <4>2. stack'[1] = stack[1]
          BY <1>0, <1>4, <2>1, <3>1, <4>1, LeftWalk
        <4> QED BY <1>0, <1>4, <2>1, <4>2 DEF Searching
      <3> QED BY <3>2, <3>3
    <2> QED BY <2>2, <2>3
  <1>9. CASE leave_dir
    <2>1. stack # <<>> /\ UNCHANGED request
      BY <1>9 DEF leave_dir, Scans
    <2>2. Len(stack) # 1 /\ stack' = Front(stack)
      BY <1>9 DEF leave_dir
    <2>3. 1 \in 1..(Len(stack) - 1)
      <3>1. Len(stack) \in Nat \ {0}
        BY <1>4, <2>1
      <3> QED BY <2>2, <3>1, FirstBelow
    <2>4. stack'[1] = stack[1]
      BY <1>0, <1>4, <2>1, <2>2, <2>3, FrontWalk
    <2> QED BY <1>0, <1>4, <2>1, <2>4 DEF Searching
  <1> QED BY <1>2, <1>3, <1>7, <1>8, <1>9 DEF Next, Program, vars, scanVars, get_usbdevname,
         check_usbdev, lstat_fails, wait_child, child_fails, walk_inside, skip_link, open_uevent,
         walk_up, read_devname, no_name, unplug, Parents

LEMMA ResultedNext == ASSUME UsbAssumption, LookupInv, [Next]_vars PROVE Resulted'
  <1> SUFFICES ASSUME Answered' PROVE result' = IF Matching' = {} THEN -1 ELSE 0
    BY DEF Resulted
  <1>0. /\ tree' = tree /\ tree \in Trees /\ gone = {} /\ gone' = {} /\ stack' = <<>> /\ ~exited'
        /\ Scanning /\ Searching /\ Resulted
    BY TreeStays, GoneGrows DEF LookupInv, Shape, Answered
  <1>1. CASE leave_dir
    <2>1. stack # <<>> /\ UNCHANGED request
      BY <1>1 DEF leave_dir, Scans
    <2>2. GoodWalk(stack) /\ Len(stack) \in Nat \ {0} /\ stack[1].dir = Root
      BY <1>0, <2>1, Tops DEF Scanning
    <2>3. Len(stack) = 1
      BY <1>0, <1>1, <2>1, <2>2, FrontWalk DEF leave_dir
    <2>4. result' = stack[1].ret /\ ~(stack[1].at <= Len(tree.entries[Root]))
      BY <1>1, <2>2, <2>3 DEF leave_dir, Here, Top, More
    <2>5. Matching' = Matching
      BY <1>0, <2>1 DEF Matching, IsLink
    <2>6. CASE stack[1].ret = -1 /\ \A i \in Matching : stack[1].at <= i
      <3>1. /\ Matching \subseteq 1..Len(tree.entries[Root]) /\ Len(tree.entries[Root]) \in Nat
            /\ stack[1].at \in Nat
        <4>1. Matching \subseteq 1..Len(tree.entries[Root]) /\ Len(tree.entries[Root]) \in Nat
          BY <1>0, TreeFacts DEF Matching
        <4>2. Top(stack) = stack[1] /\ Top(stack) \in Frames
          BY <1>0, <2>1, <2>2, <2>3, Tops DEF Top
        <4> QED BY <4>1, <4>2 DEF Frames
      <3>2. Matching = {}
        BY <2>4, <2>6, <3>1
      <3> QED BY <2>4, <2>5, <2>6, <3>2
    <2>7. CASE stack[1].ret = 0 /\ Matching # {}
      BY <2>4, <2>5, <2>7
    <2> QED BY <1>0, <2>1, <2>6, <2>7 DEF Searching
  <1>2. CASE \E r \in Requests : Called(r)
    BY <1>0, <1>2 DEF Called
  <1>3. CASE stack = <<>> /\ UNCHANGED <<result, request, exited>>
    <2>1. Answered
      BY <1>0, <1>3 DEF Answered
    <2>2. Matching' = Matching
      BY <1>0, <1>3 DEF Matching, IsLink
    <2> QED BY <1>0, <1>3, <2>1, <2>2 DEF Resulted
  <1>4. ASSUME Scans, scan_inside \/ skip_file \/ readdir_skips \/ scan_link PROVE FALSE
    <2>1. GoodWalk(stack) /\ stack # <<>> /\ More(Here)
      BY <1>0, <1>4 DEF Scans, Scanning, scan_inside, skip_file, readdir_skips, scan_link
    <2>2. Moved(stack) # <<>> /\ Left(stack, 0) # <<>> /\ Len(Moved(stack)) \in Nat /\ Moved(stack) \in Seq(Frames)
      BY <1>0, <2>1, MovedWalk, LeftWalk, Tops DEF Here, GoodWalk
    <2>3. Append(Moved(stack), Frame(Entry(Here))) # <<>>
      BY <2>2
    <2> QED BY <1>0, <1>4, <2>2, <2>3 DEF scan_inside, skip_file, readdir_skips, scan_link
  <1>5. scan_inside \/ skip_file \/ readdir_skips \/ scan_link => Scans
    BY DEF scan_inside, skip_file, readdir_skips, scan_link
  <1>6. ~lstat_fails
    BY <1>0 DEF lstat_fails
  <1> QED BY <1>0, <1>1, <1>2, <1>3, <1>4, <1>5, <1>6 DEF Next, Program, vars, scanVars, get_usbdevname,
         check_usbdev, wait_child, child_fails, walk_inside, skip_link, open_uevent,
         walk_up, read_devname, no_name, unplug, Parents

LEMMA LookupNext == UsbAssumption /\ LookupInv /\ [Next]_vars => LookupInv'
  BY ShapeNext, AstrayNext, NotPassedOver, ResultedNext DEF LookupInv

LEMMA LookupAlways == Spec => []LookupInv
  <1>1. UsbAssumption
    BY UsbAssumption
  <1>2. Init => LookupInv
    BY <1>1, InitLookup
  <1> QED BY <1>1, <1>2, LookupNext, PTL DEF Spec

-----------------------------------------------------------------------------
(* Type correctness: the places in the directories stay in them, and the   *)
(* one in the uevent file does, however often a chunk is read again, when  *)
(* a NUL lies behind the buffer; it is a number in any case.               *)
THEOREM LookupType == Spec => []TypeOK
  <1>1. LookupInv => TypeOK
    BY DEF LookupInv, Shape
  <1> QED BY <1>1, LookupAlways, PTL

(* The search never looks an entry up in a directory it has left, however  *)
(* deep the directories are: what is not found is of a device unplugged.   *)
THEOREM OnlyUnplugsEndIt == Spec => []NeverAstray
  <1>1. LookupInv => NeverAstray
    BY DEF LookupInv
  <1> QED BY <1>1, LookupAlways, PTL

(* Neither does the child, of which only unplugging makes an error.        *)
THEOREM ChildKeepsItsPlace == Spec => [][child_fails => gone # {}]_vars
  <1>1. UsbAssumption /\ LookupInv /\ [Next]_vars => [child_fails => gone # {}]_vars
    <2> SUFFICES ASSUME UsbAssumption, LookupInv, child_fails, gone = {} PROVE FALSE
      OBVIOUS
    <2>1. walk # <<>> /\ More(There) /\ ~Found(childcwd, Entry(There))
      BY DEF child_fails, Walks
    <2>2. Entry(There) \in Range(tree.entries[childcwd])
      BY <2>1, Tops DEF LookupInv, Shape, Walking, There
    <2> QED BY <2>1, <2>2 DEF Found
  <1>2. UsbAssumption
    BY UsbAssumption
  <1> QED BY <1>1, <1>2, LookupAlways, PTL DEF Spec

(* While nothing is unplugged a search that returns succeeds just when a   *)
(* device with the ids is linked from the directory itself, but for the    *)
(* two cases in which the code and its comments disagree.                  *)
THEOREM SearchTellsRight == Spec => []ToldRight
  <1>1. LookupInv => ToldRight
    BY DEF LookupInv, Resulted, ToldRight
  <1> QED BY <1>1, LookupAlways, PTL
=============================================================================
