------------------------- MODULE FileDescriptors_proof -------------------------
(***************************************************************************)
(* Proofs about FileDescriptors, for every size of the file table and      *)
(* whatever the calls on the pipes behind it return.                       *)
(***************************************************************************)
EXTENDS FileDescriptors, TLAPS

-------------------------------------------------------------------------------
(* Sequences.                                                              *)

(* What SubSeq returns, from positions m to n of s.                        *)
LEMMA Sliced ==
  ASSUME NEW S, NEW s, NEW m \in Int, NEW n \in Int, \A i \in m .. n : s[i] \in S
  PROVE  /\ SubSeq(s, m, n) \in Seq(S)
         /\ Len(SubSeq(s, m, n)) = IF m <= n THEN n - m + 1 ELSE 0
         /\ \A i \in 1 .. n - m + 1 : SubSeq(s, m, n)[i] = s[m + i - 1]
OBVIOUS

Waiting(s) == {s[i] : i \in 1 .. Len(s)}
Injective(s) == \A i, j \in 1 .. Len(s) : s[i] = s[j] => i = j

(* The numbers of a table: `used' are the open descriptors, every other    *)
(* number below `max' waits once in `available'.                           *)
Balanced(available, max, used) ==
  /\ max \in 3 .. MAX_FILES
  /\ available \in Seq(Fds) /\ Injective(available)
  /\ used \subseteq 0 .. max - 1
  /\ Waiting(available) = (0 .. max - 1) \ used

NumbersType == [fds : Seq(Fds), available : Seq(Fds), max : Nat, full : BOOLEAN]

(* free_fd: a number that is used goes to the top of the stack.            *)
LEMMA GiveBack ==
  ASSUME NEW available, NEW max, NEW used, Balanced(available, max, used), NEW fd \in used
  PROVE  Balanced(Append(available, fd), max, used \ {fd})
<1> DEFINE s == Append(available, fd)
<1>1. max \in 3 .. MAX_FILES /\ used \subseteq 0 .. max - 1 /\ available \in Seq(Fds) /\ Injective(available)
      /\ Waiting(available) = (0 .. max - 1) \ used
  BY Zenon DEF Balanced
<1>2. fd \in Fds /\ fd \in 0 .. max - 1 /\ fd \notin Waiting(available)
  BY <1>1, FilesAssumption DEF Fds
<1>3. /\ s \in Seq(Fds) /\ Len(available) \in Nat /\ Len(s) = Len(available) + 1
      /\ s[Len(available) + 1] = fd
      /\ \A i \in 1 .. Len(available) : s[i] = available[i]
  BY <1>1, <1>2
<1> HIDE DEF s
<1>4. Waiting(s) = Waiting(available) \cup {fd}
  BY <1>3 DEF Waiting
<1>5. Injective(s)
  BY <1>1, <1>2, <1>3, SMTT(30) DEF Injective, Waiting
<1> QED BY <1>1, <1>2, <1>3, <1>4, <1>5, Zenon DEF Balanced, s

(* alloc_fd from the stack: the number on top is taken off.                *)
LEMMA PopWaiting ==
  ASSUME NEW available, NEW max, NEW used, Balanced(available, max, used), available # <<>>
  PROVE  LET fd == available[Len(available)]
         IN  /\ fd \in Fds \ used
             /\ Balanced(SubSeq(available, 1, Len(available) - 1), max, used \cup {fd})
<1> DEFINE n == Len(available)
           fd == available[n]
           s == SubSeq(available, 1, n - 1)
<1>1. max \in 3 .. MAX_FILES /\ used \subseteq 0 .. max - 1 /\ available \in Seq(Fds) /\ Injective(available)
      /\ Waiting(available) = (0 .. max - 1) \ used
  BY Zenon DEF Balanced
<1>2. /\ n \in Nat \ {0} /\ fd \in Fds /\ s \in Seq(Fds) /\ Len(s) = n - 1
      /\ \A i \in 1 .. n - 1 : s[i] = available[i]
  <2>1. n \in Nat /\ n # 0
    BY <1>1
  <2>2. fd \in Fds /\ 1 \in Int /\ n - 1 \in Int /\ \A i \in 1 .. n - 1 : available[i] \in Fds
    BY <1>1, <2>1
  <2>3. /\ s \in Seq(Fds) /\ Len(s) = (IF 1 <= n - 1 THEN (n - 1) - 1 + 1 ELSE 0)
        /\ \A i \in 1 .. (n - 1) - 1 + 1 : s[i] = available[1 + i - 1]
    <3> HIDE DEF fd, n
    <3> QED BY <2>2, Sliced
  <2> HIDE DEF s, fd, n
  <2> QED BY <2>1, <2>2, <2>3
<1>3. fd \in Waiting(available)
  BY <1>2 DEF Waiting
<1>4. Waiting(s) = Waiting(available) \ {fd}
  <2> HIDE DEF s, fd
  <2>1. \A i \in 1 .. n - 1 : available[i] # fd
    BY <1>1, <1>2, SMTT(30) DEF Injective, fd
  <2>2. fd = available[n]
    BY Zenon DEF fd
  <2>3. Waiting(s) \subseteq Waiting(available) \ {fd}
    BY <1>2, <2>1 DEF Waiting
  <2>4. ASSUME NEW i \in 1 .. n, available[i] # fd PROVE available[i] \in Waiting(s)
    <3>1. i \in 1 .. n - 1
      BY <1>2, <2>2, <2>4
    <3> QED BY <1>2, <3>1, Zenon DEF Waiting
  <2> QED BY <2>3, <2>4, Zenon DEF Waiting
<1>5. Injective(s)
  <2> HIDE DEF s
  <2> QED BY <1>1, <1>2, SMTT(30) DEF Injective
<1> HIDE DEF s, fd
<1>6. /\ used \cup {fd} \subseteq 0 .. max - 1 /\ fd \notin used
      /\ Waiting(s) = (0 .. max - 1) \ (used \cup {fd})
  BY <1>1, <1>3, <1>4, Zenon
<1>7. Balanced(s, max, used \cup {fd}) /\ fd \in Fds \ used
  BY <1>1, <1>2, <1>5, <1>6, Zenon DEF Balanced
<1> QED BY <1>7, Zenon DEF s, fd

(* alloc_fd when the stack is empty: the first number never handed out.    *)
LEMMA TakeNext ==
  ASSUME NEW max, NEW used, Balanced(<<>>, max, used), max < MAX_FILES
  PROVE  max \in Fds \ used /\ Balanced(<<>>, max + 1, used \cup {max})
<1>1. /\ max \in 3 .. MAX_FILES /\ max + 1 \in 3 .. MAX_FILES /\ max \in Fds
  BY FilesAssumption DEF Balanced, Fds
<1>2. Waiting(<<>>) = {}
  BY DEF Waiting
<1>3. used = 0 .. max - 1
  BY <1>2, Zenon DEF Balanced
<1>4. max \notin used /\ used \cup {max} = 0 .. (max + 1) - 1
  BY <1>1, <1>3, FilesAssumption
<1> QED BY <1>1, <1>2, <1>4, Zenon DEF Balanced

-------------------------------------------------------------------------------
(* FileTable::alloc_fd.                                                    *)
LEMMA AllocFdFacts ==
  ASSUME NEW t \in NumbersType, NEW used, Balanced(t.available, t.max, used), ~t.full
  PROVE  LET u == AllocFd(t)
         IN  /\ u \in NumbersType
             /\ u.full => u = [t EXCEPT !.full = TRUE]
             /\ ~u.full => \E fd \in Fds \ used :
                             /\ u.fds = Append(t.fds, fd)
                             /\ Balanced(u.available, u.max, used \cup {fd})
<1> DEFINE u == AllocFd(t)
<1>1. t.fds \in Seq(Fds) /\ t.available \in Seq(Fds) /\ t.max \in Nat
  BY Zenon DEF NumbersType
<1>2. CASE t.available # <<>>
  <2> DEFINE fd == t.available[Len(t.available)]
             rest == SubSeq(t.available, 1, Len(t.available) - 1)
  <2>1. fd \in Fds \ used /\ Balanced(rest, t.max, used \cup {fd})
    BY <1>2, PopWaiting, Zenon
  <2>2. rest \in Seq(Fds)
    BY <2>1, Zenon DEF Balanced
  <2>3. u = [t EXCEPT !.fds = Append(t.fds, fd), !.available = rest]
    BY <1>2, Zenon DEF AllocFd
  <2> HIDE DEF fd, rest, u
  <2>4. Append(t.fds, fd) \in Seq(Fds)
    BY <1>1, <2>1
  <2>5. /\ u \in NumbersType /\ ~u.full /\ u.fds = Append(t.fds, fd) /\ u.available = rest /\ u.max = t.max
    BY <1>1, <2>2, <2>3, <2>4, Zenon DEF NumbersType
  <2>6. u \in NumbersType /\ ~u.full
        /\ \E f \in Fds \ used : u.fds = Append(t.fds, f) /\ Balanced(u.available, u.max, used \cup {f})
    BY <2>1, <2>5, Zenon
  <2> QED BY <2>6, Zenon DEF u
<1>3. CASE t.available = <<>> /\ t.max < MAX_FILES
  <2> DEFINE fd == t.max
  <2>1. fd \in Fds \ used /\ Balanced(<<>>, fd + 1, used \cup {fd})
    BY <1>3, TakeNext, Zenon
  <2>2. u = [t EXCEPT !.fds = Append(t.fds, t.max), !.max = t.max + 1]
    BY <1>3, Zenon DEF AllocFd
  <2>3. Append(t.fds, t.max) \in Seq(Fds) /\ t.max + 1 \in Nat
    BY <1>1, <2>1
  <2> HIDE DEF u
  <2>4. u \in NumbersType /\ ~u.full /\ u.fds = Append(t.fds, t.max) /\ u.available = <<>> /\ u.max = t.max + 1
    BY <1>1, <1>3, <2>2, <2>3, Zenon DEF NumbersType
  <2>5. u \in NumbersType /\ ~u.full
        /\ \E f \in Fds \ used : u.fds = Append(t.fds, f) /\ Balanced(u.available, u.max, used \cup {f})
    BY <2>1, <2>4, Zenon
  <2> QED BY <2>5, Zenon DEF u
<1>4. CASE t.available = <<>> /\ ~(t.max < MAX_FILES)
  <2>1. u = [t EXCEPT !.full = TRUE]
    BY <1>4, Zenon DEF AllocFd
  <2> HIDE DEF u
  <2>2. u \in NumbersType /\ u.full
    BY <2>1, Zenon DEF NumbersType
  <2> QED BY <2>1, <2>2, Zenon DEF u
<1> QED BY <1>2, <1>3, <1>4, Zenon

(* The descriptors that are open.                                          *)
Used == {fd \in Fds : files[fd] # Empty}

SlotType == {Empty, Elsewhere} \cup [handle : Addresses, data : PipeFsHandle]

(* The inductive invariant: the types of the table, and FdsConserved.      *)
TableInv ==
  /\ files \in [Fds -> SlotType]
  /\ available_fds \in Seq(Fds)
  /\ FdsConserved

LEMMA ConservedIsBalanced ==
  ASSUME files \in [Fds -> SlotType]
  PROVE  available_fds \in Seq(Fds) /\ FdsConserved <=> Balanced(available_fds, max_allocated_fd, Used)
<1>1. MAX_FILES \in Nat /\ MAX_FILES >= 3
  BY FilesAssumption, Zenon
<1>2. ASSUME max_allocated_fd \in 3 .. MAX_FILES
      PROVE  /\ (\A fd \in Fds : fd >= max_allocated_fd => files[fd] = Empty)
                  <=> Used \subseteq 0 .. max_allocated_fd - 1
             /\ {fd \in 0 .. max_allocated_fd - 1 : files[fd] = Empty}
                  = (0 .. max_allocated_fd - 1) \ Used
  BY <1>1, <1>2 DEF Used, Fds
<1> QED BY <1>2, Zenon DEF FdsConserved, Balanced, Injective, Waiting

(* FileTable::alloc_fds for one or two descriptors: numbers that were not  *)
(* in use, or, when the table is full, the table as it was.                *)
LEMMA AllocFdsFacts ==
  ASSUME TableInv, NEW n \in {1, 2}
  PROVE  LET t == AllocFds(n)
         IN  /\ t.full => Balanced(t.available, t.max, Used)
             /\ ~t.full => \E a, b \in Fds \ Used :
                             /\ n = 1 => b = a
                             /\ n = 2 => b # a
                             /\ t.fds[1] = a
                             /\ n = 2 => t.fds[2] = b
                             /\ Balanced(t.available, t.max, Used \cup {a, b})
<1> DEFINE one == AllocFd(Numbers)
           two == AllocFd(one)
           t == AllocFds(n)
<1>1. Balanced(available_fds, max_allocated_fd, Used)
  BY ConservedIsBalanced, Zenon DEF TableInv
<1>2. /\ Numbers \in NumbersType /\ Numbers.available = available_fds /\ Numbers.fds = <<>>
      /\ Numbers.max = max_allocated_fd /\ ~Numbers.full
  BY <1>1, FilesAssumption DEF Numbers, NumbersType, Balanced
<1>3. /\ one \in NumbersType
      /\ one.full => one = [Numbers EXCEPT !.full = TRUE]
      /\ ~one.full => \E fd \in Fds \ Used :
                        one.fds = Append(<<>>, fd) /\ Balanced(one.available, one.max, Used \cup {fd})
  BY <1>1, <1>2, AllocFdFacts, Zenon
<1> HIDE DEF one
<1>4. CASE one.full
  <2>1. t = Rollback(one)
    BY <1>4, Zenon DEF AllocFds, one
  <2>2. one.full /\ one.available = available_fds /\ one.max = max_allocated_fd /\ one.fds = <<>>
    BY <1>2, <1>3, <1>4, Zenon DEF NumbersType
  <2>3. t.full /\ t.available = available_fds \o <<>> /\ t.max = max_allocated_fd
    BY <1>3, <2>1, <2>2 DEF Rollback, NumbersType
  <2>4. available_fds \o <<>> = available_fds
    BY DEF TableInv
  <2> HIDE DEF t
  <2>5. t.full /\ Balanced(t.available, t.max, Used)
    BY <1>1, <2>3, <2>4, Zenon
  <2> QED BY <2>5, Zenon DEF t
<1>5. CASE ~one.full
  <2>1. PICK a \in Fds \ Used :
          one.fds = Append(<<>>, a) /\ Balanced(one.available, one.max, Used \cup {a})
    BY <1>3, <1>5, Zenon
  <2>2. one.fds = <<a>>
    BY <2>1
  <2>3. CASE n = 1
    <3>1. t = one
      BY <1>5, <2>3, Zenon DEF AllocFds, one
    <3> HIDE DEF t
    <3> DEFINE S == Used \cup {a}
               T == Used \cup {a, a}
    <3>2. T = S /\ t.fds[1] = a
      BY <2>2, <3>1
    <3>3. Balanced(t.available, t.max, S)
      BY <2>1, <3>1, Zenon
    <3> HIDE DEF S, T
    <3>4. Balanced(t.available, t.max, T)
      BY <3>2, <3>3, Zenon
    <3>5. ~t.full /\ Balanced(t.available, t.max, Used \cup {a, a})
      BY <1>5, <3>1, <3>4, Zenon DEF T
    <3>6. \E c, b \in Fds \ Used :
             /\ n = 1 => b = c
             /\ n = 2 => b # c
             /\ t.fds[1] = c
             /\ n = 2 => t.fds[2] = b
             /\ Balanced(t.available, t.max, Used \cup {c, b})
      <4> WITNESS a \in Fds \ Used, a \in Fds \ Used
      <4> QED BY <2>3, <3>2, <3>5, SMTT(30)
    <3> QED BY <3>5, <3>6, Zenon DEF t
  <2>4. CASE n = 2
    <3>1. t = IF two.full THEN Rollback(two) ELSE two
      BY <1>5, <2>4 DEF AllocFds, one
    <3>2. /\ two \in NumbersType
          /\ two.full => two = [one EXCEPT !.full = TRUE]
          /\ ~two.full => \E fd \in Fds \ (Used \cup {a}) :
                            /\ two.fds = Append(one.fds, fd)
                            /\ Balanced(two.available, two.max, (Used \cup {a}) \cup {fd})
      BY <1>3, <1>5, <2>1, AllocFdFacts, Zenon
    <3> HIDE DEF two, t
    <3>3. CASE two.full
      <4>1. two.available = one.available /\ two.max = one.max /\ two.fds = <<a>>
        BY <1>3, <2>2, <3>2, <3>3, Zenon DEF NumbersType
      <4>2. t.full /\ t.available = one.available \o <<a>> /\ t.max = one.max
        BY <3>1, <3>2, <3>3, <4>1, Zenon DEF Rollback, NumbersType
      <4>3. one.available \o <<a>> = Append(one.available, a)
        BY <1>3 DEF NumbersType
      <4>4. Balanced(Append(one.available, a), one.max, (Used \cup {a}) \ {a})
        BY <2>1, GiveBack, Zenon
      <4>5. (Used \cup {a}) \ {a} = Used
        BY Zenon
      <4>6. t.full /\ Balanced(t.available, t.max, Used)
        BY <4>2, <4>3, <4>4, <4>5, Zenon
      <4> QED BY <4>6, Zenon DEF t
    <3>4. CASE ~two.full
      <4>1. PICK b \in Fds \ (Used \cup {a}) :
              /\ two.fds = Append(one.fds, b)
              /\ Balanced(two.available, two.max, (Used \cup {a}) \cup {b})
        BY <3>2, <3>4, Zenon
      <4>2. two.fds[1] = a /\ two.fds[2] = b
        BY <2>2, <4>1
      <4>3. (Used \cup {a}) \cup {b} = Used \cup {a, b}
        BY Zenon
      <4>4. ~t.full /\ t.fds[1] = a /\ t.fds[2] = b /\ Balanced(t.available, t.max, Used \cup {a, b})
        BY <3>1, <3>4, <4>1, <4>2, <4>3, Zenon
      <4> QED BY <2>4, <4>1, <4>4, Zenon DEF t
    <3> QED BY <3>3, <3>4, Zenon
  <2> QED BY <2>3, <2>4, Zenon
<1> QED BY <1>4, <1>5, Zenon

-------------------------------------------------------------------------------
(* A step that puts new files at unused numbers and leaves the rest alone. *)
LEMMA Fill ==
  ASSUME TableInv, NEW a \in Fds \ Used, NEW b \in Fds \ Used,
         NEW x \in SlotType \ {Empty}, NEW y \in SlotType \ {Empty},
         files' = [files EXCEPT ![a] = x, ![b] = y],
         Balanced(available_fds', max_allocated_fd', Used \cup {a, b})
  PROVE  TableInv' /\ \A fd \in Fds : files[fd] # Empty => files'[fd] = files[fd]
<1>1. files \in [Fds -> SlotType]
  BY Zenon DEF TableInv
<1>2. files' \in [Fds -> SlotType]
  BY <1>1, Zenon
<1>3. Used' = Used \cup {a, b}
  BY <1>1, Zenon DEF Used, Fds
<1>4. Balanced(available_fds', max_allocated_fd', Used')
  BY <1>3, Zenon
<1>5. available_fds' \in Seq(Fds) /\ FdsConserved'
  <2>1. max_allocated_fd' \in 3 .. MAX_FILES /\ Used' \subseteq 0 .. max_allocated_fd' - 1
    BY <1>4, Zenon DEF Balanced
  <2>2. Used' = {fd \in Fds : files'[fd] # Empty}
    BY Zenon DEF Used
  <2>3. \A fd \in Fds : fd >= max_allocated_fd' => files'[fd] = Empty
    <3>1. \A fd \in Fds : files'[fd] # Empty => fd \in Used'
      BY <2>2, Zenon
    <3>2. \A fd \in Used' : fd \in 0 .. max_allocated_fd' - 1
      BY <2>1, Zenon
    <3>3. \A fd \in Used' : ~(fd >= max_allocated_fd')
      <4>1. \A m \in Int : \A fd \in 0 .. m - 1 : ~(fd >= m)
        OBVIOUS
      <4>2. max_allocated_fd' \in Int
        BY <2>1, FilesAssumption
      <4> QED BY <3>2, <4>1, <4>2, Zenon
    <3> QED BY <3>1, <3>3, Zenon
  <2>4. {fd \in 0 .. max_allocated_fd' - 1 : files'[fd] = Empty}
             = (0 .. max_allocated_fd' - 1) \ Used'
    BY <2>1, <2>2, FilesAssumption DEF Fds
  <2> QED BY <1>4, <2>1, <2>3, <2>4, Zenon DEF FdsConserved, Balanced, Injective, Waiting
<1>6. \A fd \in Fds : files[fd] # Empty => files'[fd] = files[fd]
  BY <1>1, Zenon DEF Used
<1> QED BY <1>2, <1>5, <1>6, Zenon DEF TableInv

(* A step that changes no slot, whatever it does to the numbers.           *)
LEMMA Keep ==
  ASSUME TableInv, UNCHANGED files, Balanced(available_fds', max_allocated_fd', Used)
  PROVE  TableInv' /\ \A fd \in Fds : files[fd] # Empty => files'[fd] = files[fd]
<1>1. files \in [Fds -> SlotType]
  BY Zenon DEF TableInv
<1>5. available_fds' \in Seq(Fds) /\ FdsConserved'
  <2>1. /\ max_allocated_fd' \in 3 .. MAX_FILES
        /\ (\A fd \in Fds : fd >= max_allocated_fd' => files'[fd] = Empty)
             <=> Used \subseteq 0 .. max_allocated_fd' - 1
        /\ {fd \in 0 .. max_allocated_fd' - 1 : files'[fd] = Empty}
             = (0 .. max_allocated_fd' - 1) \ Used
    BY FilesAssumption DEF Used, Fds, Balanced
  <2> QED BY <2>1, Zenon DEF FdsConserved, Balanced, Injective, Waiting
<1> QED BY <1>1, <1>5, Zenon DEF TableInv

LEMMA KeepTable ==
  ASSUME TableInv, UNCHANGED tableVars
  PROVE  TableInv' /\ \A fd \in Fds : files[fd] # Empty => files'[fd] = files[fd]
<1>1. files' = files /\ max_allocated_fd' = max_allocated_fd /\ available_fds' = available_fds
  BY Zenon DEF tableVars
<1> QED BY <1>1 DEF TableInv, FdsConserved

LEMMA SlotTyped ==
  ASSUME NEW a \in Addresses, NEW id \in Ids, NEW m \in Modes
  PROVE  Slot(a, id, m) \in SlotType \ {Empty}
<1>1. Slot(a, id, m) \in [handle : Addresses, data : PipeFsHandle]
  BY Zenon DEF Slot, PipeFsHandle
<1>2. "data" \in DOMAIN Slot(a, id, m) /\ "data" \notin DOMAIN Empty
  BY Zenon DEF Slot, Empty
<1> QED BY <1>1, <1>2, Zenon DEF SlotType

LEMMA ElsewhereTyped == Elsewhere \in SlotType \ {Empty}
<1>1. Elsewhere.handle # Empty.handle
  BY Zenon DEF Elsewhere, Empty
<1> QED BY <1>1, Zenon DEF SlotType

SlotsKept == \A fd \in Fds : files[fd] # Empty => files'[fd] = files[fd]

LEMMA StepSysPipe ==
  ASSUME TableInv, NEW r \in Addresses, NEW w \in Addresses, SysPipe(r, w)
  PROVE  TableInv' /\ SlotsKept
<1> DEFINE t == AllocFds(2)
<1>1. /\ t.full => Balanced(t.available, t.max, Used)
      /\ ~t.full => \E a, b \in Fds \ Used :
                      /\ b # a
                      /\ t.fds[1] = a
                      /\ t.fds[2] = b
                      /\ Balanced(t.available, t.max, Used \cup {a, b})
  BY AllocFdsFacts, Zenon
<1>2. max_allocated_fd' = t.max /\ available_fds' = t.available
  BY Zenon DEF SysPipe, Allocated
<1>3. \/ t.full /\ UNCHANGED files
      \/ /\ ~t.full /\ next_pipe_id \in Ids
         /\ files' = [files EXCEPT ![t.fds[1]] = Slot(r, next_pipe_id, "Read"),
                                   ![t.fds[2]] = Slot(w, next_pipe_id, "Write")]
  BY Zenon DEF SysPipe
<1> HIDE DEF t
<1>4. CASE t.full
  <2>1. UNCHANGED files /\ Balanced(available_fds', max_allocated_fd', Used)
    BY <1>1, <1>2, <1>3, <1>4, Zenon
  <2> QED BY <2>1, Keep, Zenon DEF SlotsKept
<1>5. CASE ~t.full
  <2>1. PICK a \in Fds \ Used, b \in Fds \ Used :
          t.fds[1] = a /\ t.fds[2] = b /\ Balanced(t.available, t.max, Used \cup {a, b})
    BY <1>1, <1>5, Zenon
  <2> DEFINE x == Slot(r, next_pipe_id, "Read")
             y == Slot(w, next_pipe_id, "Write")
  <2>2. x \in SlotType \ {Empty} /\ y \in SlotType \ {Empty}
    BY <1>3, <1>5, SlotTyped, Zenon DEF Modes
  <2>3. files' = [files EXCEPT ![a] = x, ![b] = y]
    BY <1>3, <1>5, <2>1, Zenon
  <2>4. Balanced(available_fds', max_allocated_fd', Used \cup {a, b})
    BY <1>2, <2>1, Zenon
  <2> HIDE DEF x, y
  <2> QED BY <2>2, <2>3, <2>4, Fill, Zenon DEF SlotsKept
<1> QED BY <1>4, <1>5, Zenon

(* What both open calls do to the table when the file is there.            *)
LEMMA PlaceOne ==
  ASSUME TableInv, NEW x \in SlotType \ {Empty}, Allocated(AllocFds(1)),
         files' = IF AllocFds(1).full THEN files ELSE [files EXCEPT ![AllocFds(1).fds[1]] = x]
  PROVE  TableInv' /\ SlotsKept
<1> DEFINE t == AllocFds(1)
<1>1. /\ t.full => Balanced(t.available, t.max, Used)
      /\ ~t.full => \E a, b \in Fds \ Used :
                      /\ b = a
                      /\ t.fds[1] = a
                      /\ Balanced(t.available, t.max, Used \cup {a, b})
  BY AllocFdsFacts, Zenon
<1>2. max_allocated_fd' = t.max /\ available_fds' = t.available
  BY Zenon DEF Allocated
<1>3. files' = IF t.full THEN files ELSE [files EXCEPT ![t.fds[1]] = x]
  BY Zenon
<1> HIDE DEF t
<1>4. CASE t.full
  <2>1. UNCHANGED files /\ Balanced(available_fds', max_allocated_fd', Used)
    BY <1>1, <1>2, <1>3, <1>4, Zenon
  <2> QED BY <2>1, Keep, Zenon DEF SlotsKept
<1>5. CASE ~t.full
  <2>1. PICK a \in Fds \ Used : t.fds[1] = a /\ Balanced(t.available, t.max, Used \cup {a, a})
    BY <1>1, <1>5, Zenon
  <2>2. files' = [files EXCEPT ![a] = x]
    BY <1>3, <1>5, <2>1, Zenon
  <2>3. files' = [files EXCEPT ![a] = x, ![a] = x]
    BY <2>2, Zenon DEF TableInv
  <2>4. Balanced(available_fds', max_allocated_fd', Used \cup {a, a})
    BY <1>2, <2>1, Zenon
  <2> QED BY <2>3, <2>4, Fill, Zenon DEF SlotsKept
<1> QED BY <1>4, <1>5, Zenon

LEMMA StepSysOpen ==
  ASSUME TableInv, NEW id \in Ids, NEW m \in Modes, NEW flags, NEW a \in Addresses, NEW trunc,
         SysOpen(id, m, flags, a, trunc)
  PROVE  TableInv' /\ SlotsKept
<1>1. CASE ret'.res = "Ok" /\ ~trunc
  <2> DEFINE x == Slot(a, id, m)
  <2>1. Allocated(AllocFds(1))
    BY <1>1, Zenon DEF SysOpen
  <2>2. files' = IF AllocFds(1).full THEN files ELSE [files EXCEPT ![AllocFds(1).fds[1]] = x]
    BY <1>1, Zenon DEF SysOpen
  <2>3. x \in SlotType \ {Empty}
    BY SlotTyped, Zenon
  <2> HIDE DEF x
  <2> QED BY <2>1, <2>2, <2>3, PlaceOne, Zenon
<1>2. CASE ~(ret'.res = "Ok" /\ ~trunc)
  BY <1>2, KeepTable, Zenon DEF SysOpen, SlotsKept
<1> QED BY <1>1, <1>2, Zenon

LEMMA StepSysOpenElsewhere ==
  ASSUME TableInv, SysOpenElsewhere
  PROVE  TableInv' /\ SlotsKept
<1>1. Allocated(AllocFds(1))
  BY Zenon DEF SysOpenElsewhere
<1>2. files' = IF AllocFds(1).full THEN files ELSE [files EXCEPT ![AllocFds(1).fds[1]] = Elsewhere]
  BY Zenon DEF SysOpenElsewhere
<1> QED BY <1>1, <1>2, PlaceOne, ElsewhereTyped, Zenon

LEMMA StepTable ==
  ASSUME TableInv, [TableNext]_allVars
  PROVE  TableInv' /\ SlotsKept
<1>1. CASE UNCHANGED allVars
  BY <1>1, KeepTable, Zenon DEF allVars, SlotsKept
<1>2. CASE SysOpenElsewhere
  BY <1>2, StepSysOpenElsewhere, Zenon
<1>3. CASE SysMkdir
  BY <1>3, KeepTable, Zenon DEF SysMkdir, SlotsKept
<1>4. CASE \E r, w \in Addresses : SysPipe(r, w)
  BY <1>4, StepSysPipe, Zenon
<1>5. CASE \E a \in Addresses, id \in Ids, m \in Modes, flags \in OpenFlags, trunc \in BOOLEAN :
             SysOpen(id, m, flags, a, trunc)
  BY <1>5, StepSysOpen, Zenon
<1>6. ASSUME NEW fd \in Fds,
             \/ SysClose(fd) \/ SysSeek(fd) \/ SysOther(fd)
             \/ \E n \in ReadSizes : SysRead(fd, n)
             \/ \E buf \in Requests : SysWrite(fd, buf)
      PROVE  UNCHANGED tableVars
  <2>1. CASE SysOther(fd)
    BY <2>1, Zenon DEF SysOther
  <2>2. CASE ~SysOther(fd)
    BY <1>6, <2>2, Zenon DEF SysClose, SysSeek, SysRead, SysWrite
  <2> QED BY <2>1, <2>2, Zenon
<1> QED BY <1>1, <1>2, <1>3, <1>4, <1>5, <1>6, KeepTable, Zenon DEF TableNext, SlotsKept

-------------------------------------------------------------------------------
LEMMA InitTable == TableInit => TableInv
<1> SUFFICES ASSUME TableInit PROVE TableInv
  BY Zenon
<1>1. /\ files = [fd \in Fds |-> IF fd < 3 THEN Elsewhere ELSE Empty]
      /\ max_allocated_fd = 3 /\ available_fds = <<>>
  BY Zenon DEF TableInit
<1>2. files \in [Fds -> SlotType]
  BY <1>1, Zenon DEF SlotType
<1>3. \A fd \in Fds : files[fd] = Empty <=> fd >= 3
  BY <1>1, ElsewhereTyped DEF Fds
<1>4. {fd \in 0 .. 2 : files[fd] = Empty} = {}
  BY <1>3, FilesAssumption DEF Fds
<1>5. FdsConserved
  BY <1>1, <1>3, <1>4, FilesAssumption DEF FdsConserved
<1> QED BY <1>1, <1>2, <1>5 DEF TableInv

(* For every size of the table, however pipe, open and mkdir calls succeed *)
(* or fail: each number below max_allocated_fd is an open descriptor's or  *)
(* waits once in available_fds (FileTable::alloc_fd, alloc_fds, free_fd).  *)
THEOREM DescriptorsConserved == TableSpec => []FdsConserved
<1>1. TableInit => TableInv
  BY InitTable, Zenon
<1>2. TableInv /\ [TableNext]_allVars => TableInv'
  BY StepTable, Zenon
<1>3. TableInv => FdsConserved
  BY Zenon DEF TableInv
<1> QED BY <1>1, <1>2, <1>3, PTL DEF TableSpec

(* For every size of the table: no call puts a file at a number that is    *)
(* already an open descriptor's (linux_sys_pipe, linux_sys_open).          *)
THEOREM OpenDescriptorsKept == TableSpec => NotTakenOver
<1>1. TableInit => TableInv
  BY InitTable, Zenon
<1>2. TableInv /\ [TableNext]_allVars => TableInv'
  BY StepTable, Zenon
<1>3. TableInv /\ [TableNext]_allVars
        => [\A fd \in Fds : files[fd] # Empty => files'[fd] = files[fd]]_allVars
  BY StepTable, Zenon DEF SlotsKept
<1> QED BY <1>1, <1>2, <1>3, PTL DEF TableSpec, NotTakenOver
===============================================================================
