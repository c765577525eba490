---------------------------- MODULE ManagerProofs ----------------------------
(***************************************************************************)
(* Proofs about Manager.                                                   *)
(***************************************************************************)
EXTENDS Manager, SequenceTheorems, FiniteSetTheorems, TLAPS

-----------------------------------------------------------------------------
(* The inductive invariant *)

(***************************************************************************)
(* The frames of manager_fetch: when there is one, and that the metadata   *)
(* it works from is there.                                                 *)
(***************************************************************************)
FramesOK ==
  /\ pc \in {"download", "deps", "unpack", "register", "pop"} => calls # <<>>
  /\ pc \in Control \ {"download", "deps", "unpack", "register", "pop", "return"}
       => calls = <<>>
  /\ \A i \in 1 .. Len(calls) : calls[i].name \in DOMAIN avail

StackInv == TypeOK /\ FramesOK /\ StackMatchesCalls /\ InsertIsFresh

(***************************************************************************)
(* Why _remove may work on its package, and that a pass of the cleanup     *)
(* visits rows that are still there.                                       *)
(***************************************************************************)
RemovalInv ==
  /\ pending \subseteq Installed
  /\ pc = "cleanup" => cleaning
  /\ pc \in {"erase", "unregister"} =>
       /\ victim \in Installed
       /\ packages[victim].reason # Core
       /\ IF cleaning
            THEN packages[victim].reason = Dependency /\ victim \notin pending
            ELSE cmd.action = "remove" /\ cmd.name = victim

Rank == CHOOSE r \in Ranks(avail) : TRUE

NoSelfDependency ==
  \A p \in Installed :
    \A k \in 1 .. Len(packages[p].deps) : packages[p].deps[k] # p

(***************************************************************************)
(* Each frame but the last waits for the dependency its successor is the   *)
(* manager_fetch of: the call stack is a path of dependency edges, and     *)
(* descends.                                                               *)
(***************************************************************************)
FramesDescend ==
  /\ \A i \in 1 .. Len(calls) - 1 :
       /\ calls[i].next - 1 \in 1 .. Len(Deps(calls[i]))
       /\ calls[i + 1].name = Deps(calls[i])[calls[i].next - 1]
  /\ \A i, j \in 1 .. Len(calls) :
       i < j => Rank[calls[j].name] < Rank[calls[i].name]

(***************************************************************************)
(* The dependencies a frame is done with are installed.                    *)
(***************************************************************************)
FramesSettled ==
  \A i \in 1 .. Len(calls) : \A k \in 1 .. Len(Deps(calls[i])) :
    k < calls[i].next - 1 => Deps(calls[i])[k] \in Installed

TopSettled ==
  /\ pc \in {"download", "deps", "unpack", "register"} =>
       \A k \in 1 .. Len(Deps(Top)) : k < Top.next => Deps(Top)[k] \in Installed
  /\ pc \in {"unpack", "register"} => Top.next > Len(Deps(Top))
  /\ pc = "pop" /\ ret = OK => Top.name \in Installed
  /\ pc = "return" /\ calls # <<>> /\ ret = OK =>
       /\ Top.next - 1 \in 1 .. Len(Deps(Top))
       /\ Deps(Top)[Top.next - 1] \in Installed

NobodyNeedsVictim ==
  pc \in {"erase", "unregister"} =>
    \A p \in Others(victim) : \A k \in 1 .. Len(packages[p].deps) :
      packages[p].deps[k] # victim

ClosureInv ==
  /\ DependencyClosed
  /\ NoSelfDependency
  /\ FramesDescend
  /\ FramesSettled
  /\ TopSettled
  /\ NobodyNeedsVictim

(***************************************************************************)
(* What a command in progress is about: the outermost manager_fetch is for *)
(* the package asked for, every other one for a dependency, and an         *)
(* installation that returned OK has the package.                          *)
(***************************************************************************)
CommandInv ==
  /\ pc \in {"idle", "start", "download", "deps", "unpack", "register", "pop", "return"}
       => ~cleaning
  /\ pc \in {"download", "deps", "unpack", "register", "pop", "return"}
       => cmd.action = "install"
  /\ \A i \in 1 .. Len(calls) :
       IF i = 1 THEN calls[i].name = cmd.name /\ calls[i].reason = cmd.reason
                ELSE calls[i].reason = Dependency
  /\ pc = "return" /\ calls = <<>> /\ ret = OK => cmd.name \in Installed

(***************************************************************************)
(* As long as a pass of the cleanup removed nothing, what it has visited   *)
(* has to stay.                                                            *)
(***************************************************************************)
Needed(p) ==
  \E q \in Others(p) : \E k \in DOMAIN packages[q].deps : packages[q].deps[k] = p

PassInv ==
  pc = "cleanup" /\ ~removed =>
    \A p \in Installed \ pending : packages[p].reason = Dependency => Needed(p)

(***************************************************************************)
(* The cleanup starts when the package asked for is gone.                  *)
(***************************************************************************)
DoneInv ==
  /\ cleaning => cmd.action = "remove" /\ cmd.name \notin Installed
  /\ SuccessMeansDone

(***************************************************************************)
(* The installed packages have no cycle of dependencies, although they may *)
(* come from editions that reverse an edge: among any of them there is one *)
(* that none of them depends on, as the last to be installed is.           *)
(***************************************************************************)
OrderedInv ==
  \A T \in SUBSET Installed :
    T # {} => \E p \in T : \A q \in T : \A k \in DOMAIN packages[q].deps :
                packages[q].deps[k] # p

(***************************************************************************)
(* What is left by a removal that succeeded is needed by something.        *)
(***************************************************************************)
LeftInv ==
  RemoveSucceeded =>
    \A p \in Installed : packages[p].reason = Dependency => Needed(p)

-----------------------------------------------------------------------------
(* What the steps of manager_fetch do to the call stack. *)

(***************************************************************************)
(* Popping the last element of a list (stack_pop, or a return from         *)
(* manager_fetch) leaves the others where they were.                       *)
(***************************************************************************)
LEMMA PopProperties ==
  ASSUME NEW S, NEW s \in Seq(S), s # <<>>
  PROVE  /\ Pop(s) \in Seq(S)
         /\ Len(Pop(s)) = Len(s) - 1
         /\ \A i \in 1 .. Len(s) - 1 : Pop(s)[i] = s[i]
<1> DEFINE n == Len(s) - 1
           t == SubSeq(s, 1, n)
<1>1. n \in Nat /\ Len(s) = n + 1
  BY EmptySeq
<1>2. \A i \in 1 .. n : s[i] \in S
  BY <1>1, ElementOfSeq
<1> HIDE DEF n
<1>3. /\ t \in Seq(S)
      /\ Len(t) = IF 1 <= n THEN n - 1 + 1 ELSE 0
      /\ \A i \in 1 .. n - 1 + 1 : t[i] = s[1 + i - 1]
  BY <1>1, <1>2, SubSeqProperties
<1> HIDE DEF t
<1>4. Len(t) = n /\ \A i \in 1 .. n : t[i] = s[i]
  BY <1>1, <1>3
<1>5. Pop(s) = t
  BY DEF Pop, t, n
<1>6. QED
  BY <1>3, <1>4, <1>5 DEF n

(***************************************************************************)
(* Moving the innermost frame to its next dependency changes nothing else  *)
(* of the call stack.                                                      *)
(***************************************************************************)
LEMMA BumpProperties ==
  ASSUME calls \in Seq(Frame), calls # <<>>,
         NEW new, new = [calls EXCEPT ![Len(calls)].next = @ + 1]
  PROVE  /\ new \in Seq(Frame)
         /\ Len(new) = Len(calls)
         /\ \A i \in 1 .. Len(calls) : new[i].name = calls[i].name
         /\ \A i \in 1 .. Len(calls) - 1 : new[i] = calls[i]
         /\ new[Len(calls)] = [calls[Len(calls)] EXCEPT !.next = @ + 1]
<1> DEFINE top == [calls[Len(calls)] EXCEPT !.next = @ + 1]
<1>1. Len(calls) \in 1 .. Len(calls)
  BY EmptySeq
<1>2. calls[Len(calls)] \in Frame
  BY <1>1, ElementOfSeq
<1>3. top \in Frame /\ top.name = calls[Len(calls)].name
  BY <1>2 DEF Frame
<1>4. new = [calls EXCEPT ![Len(calls)] = top]
  OBVIOUS
<1> HIDE DEF top
<1>5. /\ new \in Seq(Frame)
      /\ Len(new) = Len(calls)
      /\ \A j \in 1 .. Len(calls) : new[j] = IF j = Len(calls) THEN top ELSE calls[j]
  BY <1>1, <1>3, <1>4, ExceptSeq
<1>6. QED
  BY <1>1, <1>3, <1>5, LenProperties DEF top

-----------------------------------------------------------------------------
(* The installation stack. *)

(***************************************************************************)
(* A call of manager_fetch, from main or from the loop over the            *)
(* dependencies, whose frame may already have moved to the next one.       *)
(***************************************************************************)
LEMMA FetchKeepsStackInv ==
  ASSUME StackInv, pc \in {"start", "deps"},
         NEW name \in Package, NEW reason \in Reasons, NEW callers \in Seq(Frame),
         Len(callers) = Len(calls),
         \A i \in 1 .. Len(calls) : callers[i].name = calls[i].name,
         Fetch(name, reason, callers),
         UNCHANGED sessionVars
  PROVE  StackInv'
<1> DEFINE frame == [name |-> name, reason |-> reason, next |-> 1]
<1> USE DEF StackInv, FramesOK, StackMatchesCalls, InsertIsFresh
<1>1. /\ calls \in Seq(Frame) /\ inst_stack \in Seq(Package)
      /\ Len(calls) \in Nat /\ DOMAIN calls = 1 .. Len(calls)
      /\ Len(inst_stack) = Len(calls) /\ DOMAIN inst_stack = 1 .. Len(calls)
      /\ DOMAIN callers = 1 .. Len(calls)
  BY LenProperties DEF TypeOK
<1>2. /\ packages' = packages /\ Installed' = Installed /\ avail' = avail
      /\ cmd' = cmd /\ status' = status /\ victim' = victim
      /\ cleaning' = cleaning /\ pending' = pending /\ removed' = removed
  BY DEF Fetch, sessionVars, removeVars, Installed
<1>3. \A i \in 1 .. Len(calls) : calls[i].name \notin Installed
  BY <1>1
<1>4. CASE calls' = callers /\ ret' \in {OK, Failed} /\ pc' = "return"
           /\ inst_stack' = inst_stack
  <2>1. TypeOK'
    BY <1>2, <1>4 DEF TypeOK, Control
  <2>2. FramesOK'
    BY <1>1, <1>2, <1>4 DEF Control
  <2>3. StackMatchesCalls'
    BY <1>1, <1>4
  <2>4. InsertIsFresh'
    BY <1>1, <1>2, <1>3, <1>4
  <2>5. QED
    BY <2>1, <2>2, <2>3, <2>4
<1>5. CASE EnterFetch(name, reason, callers)
  <2>1. frame \in Frame /\ frame.name = name
    BY DEF Frame
  <2> HIDE DEF frame
  <2>2. /\ calls' \in Seq(Frame) /\ calls' # <<>>
        /\ Len(calls') = Len(calls) + 1
        /\ \A i \in 1 .. Len(calls) : calls'[i] = callers[i]
        /\ calls'[Len(calls) + 1] = frame
        /\ DOMAIN calls' = 1 .. Len(calls')
    BY <1>1, <1>5, <2>1, AppendProperties, LenProperties DEF EnterFetch, frame
  <2>3. /\ inst_stack' \in Seq(Package)
        /\ Len(inst_stack') = Len(calls) + 1
        /\ \A i \in 1 .. Len(calls) : inst_stack'[i] = inst_stack[i]
        /\ inst_stack'[Len(calls) + 1] = name
    BY <1>1, <1>5, AppendProperties DEF EnterFetch
  <2>4. name \notin Installed /\ name \in DOMAIN avail /\ pc' = "download" /\ ret' = ret
    BY <1>5 DEF EnterFetch
  <2>5. \A i \in 1 .. Len(calls) : inst_stack[i] # name
    BY <1>1, <1>5 DEF EnterFetch, OnStack
  <2>6. \A i \in 1 .. Len(calls') : i \in 1 .. Len(calls) \/ i = Len(calls) + 1
    BY <1>1, <2>2
  <2>7. \A i \in 1 .. Len(calls') : calls'[i].name = inst_stack'[i]
    BY <1>1, <2>1, <2>2, <2>3, <2>6
  <2>8. TypeOK'
    BY <1>2, <2>2, <2>3, <2>4 DEF TypeOK, Control
  <2>9. FramesOK'
    BY <1>1, <1>2, <2>1, <2>2, <2>4, <2>6 DEF Control
  <2>10. StackMatchesCalls'
    BY <1>1, <2>2, <2>3, <2>5, <2>6, <2>7
  <2>11. InsertIsFresh'
    BY <1>1, <1>2, <1>3, <2>1, <2>2, <2>4, <2>6
  <2>12. QED
    BY <2>8, <2>9, <2>10, <2>11
<1>6. QED
  BY <1>4, <1>5 DEF Fetch, SkipFetch, RejectFetch

(***************************************************************************)
(* The end of a process, and the steps that leave calls and inst_stack     *)
(* alone and add no row.                                                   *)
(***************************************************************************)
LEMMA ExitKeepsStackInv ==
  ASSUME StackInv, NEW how \in {"success", "failure", "killed"}, Exit(how),
         UNCHANGED packages
  PROVE  StackInv'
<1>1. /\ calls' = <<>> /\ inst_stack' = <<>> /\ pc' = "idle"
      /\ Installed' = Installed /\ packages' = packages
  BY DEF Exit, Installed
<1>2. calls' \in Seq(Frame) /\ inst_stack' \in Seq(Package) /\ Len(calls') = 0
  BY <1>1, EmptySeq
<1>3. DOMAIN calls' = {} /\ Len(inst_stack') = Len(calls')
  BY <1>1, <1>2, LenProperties
<1>4. TypeOK'
  BY <1>1, <1>2 DEF StackInv, TypeOK, Exit, sessionVars, Control
<1>5. QED
  BY <1>1, <1>2, <1>3, <1>4
     DEF StackInv, FramesOK, StackMatchesCalls, InsertIsFresh, Control

(***************************************************************************)
(* A step that changes where the process is, but neither the frames nor    *)
(* the packages table, keeps StackInv if the frames suit the new place.    *)
(***************************************************************************)
LEMMA QuietStepKeepsStackInv ==
  ASSUME StackInv, TypeOK',
         UNCHANGED <<calls, inst_stack>>, Installed' \subseteq Installed,
         avail' = avail \/ calls = <<>>,
         pc \in {"download", "deps", "unpack", "register", "pop"} =>
           pc' \in {"download", "deps", "unpack", "register", "pop", "return"},
         pc' \in {"download", "deps", "unpack", "register", "pop"} => calls # <<>>,
         pc = "return" => pc' \in {"deps", "pop"},
         pc \notin {"download", "deps", "unpack", "register", "pop", "return"} =>
           pc' \notin {"download", "deps", "unpack", "register", "pop", "return"},
         pc # "pop"
  PROVE  StackInv'
<1>1. /\ calls \in Seq(Frame) /\ Len(calls) \in Nat
      /\ DOMAIN calls = 1 .. Len(calls)
      /\ calls' = calls /\ inst_stack' = inst_stack
  BY LenProperties DEF StackInv, TypeOK
<1>2. StackMatchesCalls' /\ InsertIsFresh'
  BY <1>1 DEF StackInv, StackMatchesCalls, InsertIsFresh
<1>3. FramesOK'
  BY <1>1, EmptySeq DEF StackInv, TypeOK, FramesOK, Control
<1>4. QED
  BY <1>2, <1>3 DEF StackInv

(***************************************************************************)
(* Every step of the manager preserves StackInv.                           *)
(***************************************************************************)
LEMMA StackInvStep ==
  ASSUME StackInv, [Next]_vars
  PROVE  StackInv'
<1>0. /\ TypeOK /\ FramesOK
      /\ calls \in Seq(Frame) /\ inst_stack \in Seq(Package)
      /\ Len(calls) \in Nat /\ DOMAIN calls = 1 .. Len(calls)
      /\ Len(inst_stack) = Len(calls)
  BY LenProperties DEF StackInv, StackMatchesCalls, TypeOK
<1>1. ASSUME calls # <<>>
      PROVE  /\ Len(calls) \in 1 .. Len(calls)
             /\ Top \in Frame /\ Top.name \in Package /\ Top.next \in Nat \ {0}
             /\ Top.name \in DOMAIN avail
             /\ Deps(Top) \in Seq(Package)
  <2>1. Len(calls) \in 1 .. Len(calls)
    BY <1>0, <1>1, EmptySeq
  <2>2. Top \in Frame /\ Top.name \in DOMAIN avail
    BY <1>0, <2>1, ElementOfSeq DEF FramesOK, Top
  <2>3. avail[Top.name] \in Metadata
    BY <1>0, <2>2, ConstantsAssumption DEF TypeOK
  <2>4. QED
    BY <2>1, <2>2, <2>3 DEF Metadata, Deps, Frame
<1>2. ASSUME NEW name \in Package, NEW reason \in {User, Core}, Install(name, reason)
      PROVE  StackInv'
  <2>1. TypeOK'
    BY <1>0, <1>2 DEF TypeOK, Install, fetchVars, removeVars, Control, Installed, Reasons
  <2>2. calls = <<>>
    BY <1>0, <1>2 DEF FramesOK, Install, Control
  <2>3. QED
    BY <1>2, <2>1, <2>2, QuietStepKeepsStackInv DEF Install, fetchVars, Installed
<1>3. ASSUME NEW name \in Package, Remove(name)
      PROVE  StackInv'
  <2>1. TypeOK'
    BY <1>0, <1>3 DEF TypeOK, Remove, fetchVars, removeVars, Control, Installed, Reasons
  <2>2. QED
    BY <1>3, <2>1, QuietStepKeepsStackInv DEF Remove, fetchVars, Installed
<1>4. CASE FetchRequested
  <2>1. cmd.name \in Package /\ cmd.reason \in Reasons
    BY <1>0, <1>4 DEF FetchRequested, TypeOK
  <2>2. QED
    BY <1>0, <1>4, <2>1, FetchKeepsStackInv DEF FetchRequested
<1>5. CASE InstallDependency
  <2> DEFINE bumped == [calls EXCEPT ![Len(calls)].next = @ + 1]
             dep == Deps(Top)[Top.next]
  <2>1. calls # <<>>
    BY <1>0, <1>5 DEF FramesOK, InstallDependency
  <2>2. /\ bumped \in Seq(Frame) /\ Len(bumped) = Len(calls)
        /\ \A i \in 1 .. Len(calls) : bumped[i].name = calls[i].name
    BY <1>0, <2>1, BumpProperties
  <2>3. Len(Deps(Top)) \in Nat /\ Top.next \in 1 .. Len(Deps(Top))
    BY <1>1, <1>5, <2>1, LenProperties DEF InstallDependency
  <2>4. dep \in Package
    BY <1>1, <2>1, <2>3, ElementOfSeq
  <2>5. Fetch(dep, Dependency, bumped) /\ UNCHANGED sessionVars /\ pc = "deps"
    BY <1>5 DEF InstallDependency
  <2> HIDE DEF bumped, dep
  <2>6. QED
    BY <2>2, <2>4, <2>5, FetchKeepsStackInv DEF Reasons
<1>6. CASE Download \/ DependenciesDone \/ Unpack
  <2>1. TypeOK'
    BY <1>0, <1>6 DEF TypeOK, Download, DependenciesDone, Unpack,
                      sessionVars, fetchVars, removeVars, Control, Installed
  <2>2. calls # <<>>
    BY <1>0, <1>6 DEF FramesOK, Download, DependenciesDone, Unpack
  <2>3. QED
    BY <1>6, <2>1, <2>2, QuietStepKeepsStackInv
       DEF Download, DependenciesDone, Unpack, sessionVars, fetchVars, Installed
<1>7. CASE DownloadFails \/ DependenciesUnreadable \/ UnpackFails \/ RegisterFails
  <2>1. TypeOK'
    BY <1>0, <1>7 DEF TypeOK, DownloadFails, DependenciesUnreadable, UnpackFails,
                      RegisterFails, sessionVars, removeVars, Control, Installed
  <2>2. calls # <<>>
    BY <1>0, <1>7 DEF FramesOK, DownloadFails, DependenciesUnreadable, UnpackFails,
                      RegisterFails
  <2>3. QED
    BY <1>7, <2>1, <2>2, QuietStepKeepsStackInv
       DEF DownloadFails, DependenciesUnreadable, UnpackFails, RegisterFails,
           sessionVars, Installed
<1>8. CASE Register
  <2>1. /\ calls # <<>> /\ pc = "register" /\ pc' = "pop" /\ ret' = OK
        /\ calls' = calls /\ inst_stack' = inst_stack /\ avail' = avail
        /\ Installed' = Installed \cup {Top.name}
    BY <1>0, <1>8 DEF FramesOK, Register, Installed, sessionVars
  <2>2. Row(Top) \in [deps : Seq(Package), reason : Reasons]
    BY <1>1, <2>1 DEF Row, Frame
  <2>3. \A p \in Installed' : packages'[p] \in [deps : Seq(Package), reason : Reasons]
    BY <1>0, <1>8, <2>2 DEF Register, TypeOK, Installed
  <2>4. TypeOK'
    BY <1>0, <1>1, <1>8, <2>1, <2>3 DEF TypeOK, Register, sessionVars, removeVars, Control
  <2>5. FramesOK'
    BY <1>0, <2>1 DEF FramesOK, Control
  <2>6. StackMatchesCalls'
    BY <2>1 DEF StackInv, StackMatchesCalls
  <2>7. \A i \in 1 .. Len(calls) : calls[i].name = Top.name => i = Len(calls)
    BY <1>0, <1>1, <2>1 DEF StackInv, StackMatchesCalls, Top
  <2>8. \A i \in 1 .. Len(calls) : calls[i].name \notin Installed
    BY <1>0, <2>1 DEF StackInv, InsertIsFresh
  <2>9. InsertIsFresh'
    BY <1>0, <2>1, <2>7, <2>8 DEF InsertIsFresh
  <2>10. QED
    BY <2>4, <2>5, <2>6, <2>9 DEF StackInv
<1>9. CASE PopFromStack
  <2>1. /\ calls # <<>> /\ inst_stack # <<>>
        /\ packages' = packages /\ Installed' = Installed
        /\ avail' = avail /\ pc = "pop" /\ pc' = "return"
        /\ calls' = Pop(calls) /\ inst_stack' = Pop(inst_stack)
    BY <1>0, <1>9, EmptySeq DEF FramesOK, PopFromStack, Installed, sessionVars
  <2>2. /\ calls' \in Seq(Frame) /\ Len(calls') = Len(calls) - 1
        /\ \A i \in 1 .. Len(calls) - 1 : calls'[i] = calls[i]
    BY <1>0, <2>1, PopProperties
  <2>3. /\ inst_stack' \in Seq(Package) /\ Len(inst_stack') = Len(calls) - 1
        /\ \A i \in 1 .. Len(calls) - 1 : inst_stack'[i] = inst_stack[i]
    BY <1>0, <2>1, PopProperties
  <2>4. DOMAIN calls' = 1 .. Len(calls) - 1
    BY <2>2, LenProperties
  <2>5. TypeOK'
    BY <1>0, <1>9, <2>1, <2>2, <2>3 DEF TypeOK, PopFromStack, sessionVars, removeVars, Control
  <2>6. 1 .. Len(calls) - 1 \subseteq 1 .. Len(calls) \ {Len(calls)}
    BY <1>0
  <2>7. FramesOK'
    <3>1. \A i \in 1 .. Len(calls') : calls'[i].name \in DOMAIN avail'
      BY <1>0, <2>1, <2>2, <2>6 DEF FramesOK
    <3>2. QED
      BY <2>1, <3>1 DEF FramesOK, Control
  <2>8. StackMatchesCalls'
    BY <1>0, <2>2, <2>3, <2>4, <2>6 DEF StackInv, StackMatchesCalls
  <2>9. InsertIsFresh'
    BY <1>0, <2>1, <2>2, <2>4, <2>6 DEF StackInv, InsertIsFresh
  <2>10. QED
    BY <2>5, <2>7, <2>8, <2>9 DEF StackInv
<1>10. CASE ReturnToCaller
  <2>1. TypeOK'
    BY <1>0, <1>10 DEF TypeOK, ReturnToCaller, sessionVars, fetchVars, removeVars,
                       Control, Installed
  <2>2. QED
    BY <1>10, <2>1, QuietStepKeepsStackInv
       DEF ReturnToCaller, sessionVars, fetchVars, Installed
<1>11. CASE InstallEnds \/ RemoveRefused \/ RemovalFails \/ CleanupEnds
            \/ CleanupFails \/ Crash
  BY <1>11, ExitKeepsStackInv
     DEF InstallEnds, RemoveRefused, RemovalFails, CleanupEnds, CleanupFails, Crash
<1>12. CASE RemoveRequested \/ RemoveSpins \/ Erase \/ NextPass
  <2>1. TypeOK'
    BY <1>0, <1>12 DEF TypeOK, RemoveRequested, RemoveSpins, Spin, Erase, NextPass,
                       sessionVars, fetchVars, removeVars, Control, Installed
  <2>2. QED
    BY <1>12, <2>1, QuietStepKeepsStackInv
       DEF RemoveRequested, RemoveSpins, Spin, Erase, NextPass,
           sessionVars, fetchVars, Installed
<1>13. CASE Unregister
  <2>1. TypeOK'
    BY <1>0, <1>13 DEF TypeOK, Unregister, sessionVars, fetchVars, Control, Installed
  <2>2. QED
    BY <1>13, <2>1, QuietStepKeepsStackInv
       DEF Unregister, sessionVars, fetchVars, Installed
<1>14. ASSUME NEW p \in pending, KeepRow(p) \/ RemoveRow(p) \/ SpinOnRow(p)
       PROVE  StackInv'
  <2>1. TypeOK'
    BY <1>0, <1>14 DEF TypeOK, KeepRow, RemoveRow, SpinOnRow, Spin,
                       sessionVars, fetchVars, removeVars, Control, Installed
  <2>2. QED
    BY <1>14, <2>1, QuietStepKeepsStackInv
       DEF KeepRow, RemoveRow, SpinOnRow, Spin, sessionVars, fetchVars, Installed
<1>15. CASE UNCHANGED vars
  BY <1>15 DEF vars, StackInv, TypeOK, FramesOK, StackMatchesCalls, InsertIsFresh, Installed
<1>16. QED
  BY <1>2, <1>3, <1>4, <1>5, <1>6, <1>7, <1>8, <1>9, <1>10, <1>11, <1>12, <1>13,
     <1>14, <1>15
     DEF Next, Begin, FetchStep, RemoveStep

LEMMA InitialStack == Init => StackInv
<1> SUFFICES ASSUME Init PROVE StackInv
  OBVIOUS
<1>1. /\ calls = <<>> /\ inst_stack = <<>> /\ pc = "idle" /\ Installed = {}
  BY DEF Init, Installed
<1>2. /\ calls \in Seq(Frame) /\ inst_stack \in Seq(Package)
      /\ Len(calls) = 0 /\ Len(inst_stack) = 0
  BY <1>1, EmptySeq
<1>3. DOMAIN calls = {}
  BY <1>2, LenProperties
<1>4. TypeOK
  BY <1>1, <1>2 DEF Init, TypeOK, NoCommand, Reasons, Control
<1> QED
  BY <1>1, <1>2, <1>3, <1>4 DEF StackInv, FramesOK, StackMatchesCalls, InsertIsFresh

(***************************************************************************)
(* Every reachable state is well typed, the installation stack mirrors the *)
(* recursion of manager_fetch, and the INSERT of a package being installed *)
(* never meets a row of the same name.                                     *)
(***************************************************************************)
THEOREM StackInvariant == Spec => []StackInv
<1>1. StackInv /\ [Next]_vars => StackInv'
  BY StackInvStep
<1>2. QED
  BY <1>1, InitialStack, PTL DEF Spec

(***************************************************************************)
(* Every reachable state of the manager is well typed.                     *)
(***************************************************************************)
THEOREM TypeCorrect == Spec => []TypeOK
BY StackInvariant, PTL DEF StackInv

(***************************************************************************)
(* The installation stack of manager_fetch holds exactly the packages of   *)
(* its active frames, each once: the recursion is never deeper than there  *)
(* are packages, whatever the repository says and whatever fails.          *)
(***************************************************************************)
THEOREM StackMirrorsRecursion == Spec => []StackMatchesCalls
BY StackInvariant, PTL DEF StackInv

(***************************************************************************)
(* While manager_fetch works on a package no row of that name appears, so  *)
(* its INSERT never meets the UNIQUE constraint on name.                   *)
(***************************************************************************)
THEOREM InsertNeverClashes == Spec => []InsertIsFresh
BY StackInvariant, PTL DEF StackInv

-----------------------------------------------------------------------------
(* What may be removed. *)

(***************************************************************************)
(* Every step of the manager preserves RemovalInv.                         *)
(***************************************************************************)
LEMMA RemovalInvStep ==
  ASSUME TypeOK, RemovalInv, [Next]_vars
  PROVE  RemovalInv'
<1> USE DEF RemovalInv
<1>1. CASE Begin
  BY <1>1 DEF Begin, Install, Remove, fetchVars, removeVars, Installed
<1>2. CASE FetchRequested \/ InstallDependency
  <2>1. /\ packages' = packages /\ pending' = pending
        /\ pc' \in {"return", "download"}
    BY <1>2 DEF FetchRequested, InstallDependency, Fetch, SkipFetch, RejectFetch,
                EnterFetch, removeVars
  <2>2. QED
    BY <2>1 DEF Installed
<1>3. CASE Download \/ DownloadFails \/ DependenciesUnreadable \/ DependenciesDone
           \/ Unpack \/ UnpackFails \/ RegisterFails \/ PopFromStack \/ ReturnToCaller
  BY <1>3 DEF Download, DownloadFails, DependenciesUnreadable, DependenciesDone, Unpack,
              UnpackFails, RegisterFails, PopFromStack, ReturnToCaller,
              removeVars, Installed
<1>4. CASE Register
  BY <1>4 DEF Register, removeVars, Installed
<1>5. CASE InstallEnds \/ RemoveRefused \/ RemovalFails \/ CleanupEnds
           \/ CleanupFails \/ Crash
  BY <1>5 DEF InstallEnds, RemoveRefused, RemovalFails, CleanupEnds, CleanupFails,
              Crash, Exit
<1>6. CASE RemoveRequested
  BY <1>6 DEF RemoveRequested, MayRemove, sessionVars, Installed
<1>7. CASE RemoveSpins
  BY <1>7 DEF RemoveSpins, Spin, removeVars, Installed
<1>8. CASE Erase
  BY <1>8 DEF Erase, sessionVars, removeVars, Installed
<1>9. CASE Unregister
  <2>1. Installed' = Installed \ {victim} /\ pc' = "cleanup" /\ cleaning'
    BY <1>9 DEF Unregister, Installed
  <2>2. pending' = IF cleaning THEN pending ELSE Installed'
    BY <1>9 DEF Unregister, Installed
  <2>3. cleaning => victim \notin pending
    BY <1>9 DEF Unregister
  <2>4. QED
    BY <2>1, <2>2, <2>3
<1>10. ASSUME NEW p \in pending, KeepRow(p) \/ RemoveRow(p) \/ SpinOnRow(p)
       PROVE  RemovalInv'
  <2>1. CASE KeepRow(p)
    BY <2>1 DEF KeepRow, Installed
  <2>2. CASE RemoveRow(p)
    BY <2>2 DEF RemoveRow, MayRemove, Installed, sessionVars,
                User, Dependency, Core
  <2>3. CASE SpinOnRow(p)
    BY <2>3 DEF SpinOnRow, Spin, removeVars, Installed
  <2>4. QED
    BY <1>10, <2>1, <2>2, <2>3
<1>11. CASE NextPass
  BY <1>11 DEF NextPass, Installed
<1>12. CASE UNCHANGED vars
  BY <1>12 DEF vars, Installed
<1>13. QED
  BY <1>1, <1>2, <1>3, <1>4, <1>5, <1>6, <1>7, <1>8, <1>9, <1>10, <1>11, <1>12
     DEF Next, FetchStep, RemoveStep

(***************************************************************************)
(* Between manager_can_remove and the end of _remove the row that was      *)
(* judged stays as it was judged.                                          *)
(***************************************************************************)
THEOREM RemovalInvariant == Spec => []RemovalInv
<1>1. Init => RemovalInv
  BY DEF Init, RemovalInv
<1>2. TypeOK /\ RemovalInv /\ [Next]_vars => RemovalInv'
  BY RemovalInvStep
<1>3. QED
  BY <1>1, <1>2, TypeCorrect, PTL DEF Spec

(***************************************************************************)
(* The steps that change the packages table.                               *)
(***************************************************************************)
LEMMA TableChanges ==
  ASSUME [Next]_vars, packages' # packages
  PROVE  Register \/ Unregister
<1>1. CASE Begin
  BY <1>1 DEF Begin, Install, Remove
<1>2. CASE FetchStep
  BY <1>2 DEF FetchStep, FetchRequested, InstallDependency, Fetch, Download,
              DownloadFails, DependenciesUnreadable, DependenciesDone, Unpack,
              UnpackFails, RegisterFails, PopFromStack, ReturnToCaller, InstallEnds
<1>3. CASE RemoveStep
  BY <1>3 DEF RemoveStep, RemoveRequested, RemoveRefused, RemoveSpins, Spin, Erase,
              RemovalFails, KeepRow, RemoveRow, SpinOnRow, NextPass, CleanupEnds,
              CleanupFails
<1>4. QED
  BY <1>1, <1>2, <1>3 DEF Next, Crash, vars

(***************************************************************************)
(* No step removes a core package or changes why it is installed, in any   *)
(* repository and under every failure: _remove works on a package only     *)
(* after manager_can_remove has read its row.                              *)
(***************************************************************************)
THEOREM CorePackagesAreKept == Spec => CoreIsKept
<1>1. RemovalInv /\ [Next]_vars =>
        [\A p \in Installed :
           packages[p].reason = Core =>
             p \in Installed' /\ packages'[p].reason = Core]_vars
  <2> SUFFICES ASSUME RemovalInv, [Next]_vars,
                      NEW p \in Installed, packages[p].reason = Core
               PROVE  p \in Installed' /\ packages'[p].reason = Core
    OBVIOUS
  <2>1. CASE packages' = packages
    BY <2>1 DEF Installed
  <2>2. CASE Register
    BY <2>2 DEF Register, Installed
  <2>3. CASE Unregister
    BY <2>3 DEF Unregister, RemovalInv, Installed
  <2>4. QED
    BY <2>1, <2>2, <2>3, TableChanges
<1>2. QED
  BY <1>1, RemovalInvariant, PTL DEF Spec, CoreIsKept

(***************************************************************************)
(* A package that was not installed as a dependency is removed only by the *)
(* packdude -r that names it.                                              *)
(***************************************************************************)
THEOREM CleanupSparesTheRequested == Spec => OnlyDependenciesAreCleaned
<1>1. RemovalInv /\ [Next]_vars =>
        [\A p \in Installed \ Installed' :
           \/ packages[p].reason = Dependency
           \/ cmd.action = "remove" /\ cmd.name = p /\ ~cleaning]_vars
  <2> SUFFICES ASSUME RemovalInv, [Next]_vars, NEW p \in Installed \ Installed'
               PROVE  \/ packages[p].reason = Dependency
                      \/ cmd.action = "remove" /\ cmd.name = p /\ ~cleaning
    OBVIOUS
  <2>1. packages' # packages
    BY DEF Installed
  <2>2. ~Register
    BY DEF Register, Installed
  <2>3. Unregister
    BY <2>1, <2>2, TableChanges
  <2>4. p = victim
    BY <2>3 DEF Unregister, Installed
  <2>5. QED
    BY <2>3, <2>4 DEF Unregister, RemovalInv
<1>2. QED
  BY <1>1, RemovalInvariant, PTL DEF Spec, OnlyDependenciesAreCleaned

-----------------------------------------------------------------------------
(***************************************************************************)
(* Every dependency of an installed package is installed (DependencyClosed *)
(* in Manager), for repositories without dependency cycles and as long as  *)
(* memory does not run out.  Both hypotheses are needed: a cycle makes     *)
(* manager_fetch skip a dependency that is still on the installation       *)
(* stack, and _depends_on answers "no" when its strdup fails.              *)
(***************************************************************************)

-----------------------------------------------------------------------------
(* Ranks *)

(***************************************************************************)
(* In a repository without cycles a package ranks above what it needs.     *)
(***************************************************************************)
LEMMA RankDescends ==
  ASSUME Acyclic, TypeOK
  PROVE  /\ \A p \in Package : Rank[p] \in Nat
         /\ \A p \in DOMAIN avail : \A k \in 1 .. Len(avail[p].deps) :
              Rank[avail[p].deps[k]] < Rank[p]
<1>1. Rank \in Ranks(avail)
  BY DEF Acyclic, TypeOK, Rank
<1>2. Cardinality(Package) \in Nat
  BY FS_CardinalityType, ConstantsAssumption
<1>3. QED
  BY <1>1, <1>2 DEF Ranks

(***************************************************************************)
(* The frame manager_fetch works in, and its dependency list.              *)
(***************************************************************************)
LEMMA FrameType ==
  ASSUME StackInv, NEW i \in 1 .. Len(calls)
  PROVE  /\ calls[i] \in Frame /\ calls[i].name \in DOMAIN avail
         /\ calls[i].name \in Package /\ calls[i].next \in Nat \ {0}
         /\ Deps(calls[i]) \in Seq(Package) /\ Len(Deps(calls[i])) \in Nat
         /\ Deps(calls[i]) = avail[calls[i].name].deps
<1>1. calls[i] \in Frame /\ calls[i].name \in DOMAIN avail
  BY ElementOfSeq DEF StackInv, TypeOK, FramesOK
<1>2. avail[calls[i].name] \in Metadata
  BY <1>1, ConstantsAssumption DEF StackInv, TypeOK
<1>3. Deps(calls[i]) \in Seq(Package)
  BY <1>2 DEF Metadata, Deps
<1>4. QED
  BY <1>1, <1>3, LenProperties DEF Frame, Deps

(***************************************************************************)
(* The innermost frame is a frame, and its package is in the catalog.      *)
(***************************************************************************)
LEMMA TopType ==
  ASSUME StackInv, calls # <<>>
  PROVE  /\ Len(calls) \in 1 .. Len(calls) /\ Top = calls[Len(calls)]
         /\ Top.name \in DOMAIN avail
         /\ Top.name \in Package /\ Top.next \in Nat \ {0}
         /\ Deps(Top) \in Seq(Package) /\ Len(Deps(Top)) \in Nat
         /\ Deps(Top) = avail[Top.name].deps
<1>1. Len(calls) \in 1 .. Len(calls)
  BY EmptySeq DEF StackInv, TypeOK
<1>2. QED
  BY <1>1, FrameType DEF Top

(***************************************************************************)
(* A dependency of the top frame is below every package on the stack, so   *)
(* the stack does not hold it.                                             *)
(***************************************************************************)
LEMMA DependencyOffStack ==
  ASSUME Acyclic, StackInv, FramesDescend, calls # <<>>,
         NEW k \in 1 .. Len(Deps(Top))
  PROVE  /\ \A i \in 1 .. Len(calls) : Rank[Deps(Top)[k]] < Rank[calls[i].name]
         /\ ~OnStack(Deps(Top)[k])
<1> DEFINE dep == Deps(Top)[k]
<1>1. dep \in Package /\ Rank[dep] < Rank[Top.name]
  BY TopType, RankDescends, ElementOfSeq DEF StackInv
<1>2. Len(calls) \in 1 .. Len(calls) /\ Top = calls[Len(calls)]
  BY TopType
<1>3. \A i \in 1 .. Len(calls) : calls[i].name \in Package
  BY FrameType
<1>4. \A p \in Package : Rank[p] \in Nat
  BY RankDescends DEF StackInv
<1> HIDE DEF dep
<1>5. \A i \in 1 .. Len(calls) : Rank[dep] < Rank[calls[i].name]
  <2> SUFFICES ASSUME NEW i \in 1 .. Len(calls)
               PROVE  Rank[dep] < Rank[calls[i].name]
    OBVIOUS
  <2>1. CASE i = Len(calls)
    BY <1>1, <1>2, <2>1
  <2>2. CASE i # Len(calls)
    <3>1. i < Len(calls)
      BY <2>2, <1>2
    <3>2. Rank[Top.name] < Rank[calls[i].name]
      BY <1>2, <3>1 DEF FramesDescend
    <3>3. Top.name \in Package
      BY <1>2, <1>3
    <3>4. QED
      BY <1>1, <1>3, <1>4, <3>2, <3>3
  <2>3. QED
    BY <2>1, <2>2
<1>6. ~OnStack(dep)
  <2>1. DOMAIN inst_stack = 1 .. Len(calls) /\ DOMAIN calls = 1 .. Len(calls)
    BY LenProperties DEF StackInv, StackMatchesCalls, TypeOK
  <2>2. \A i \in 1 .. Len(calls) : inst_stack[i] = calls[i].name
    BY <2>1 DEF StackInv, StackMatchesCalls
  <2>3. \A i \in 1 .. Len(calls) : calls[i].name # dep
    BY <1>1, <1>4, <1>5
  <2>4. QED
    BY <2>1, <2>2, <2>3 DEF OnStack
<1>7. QED
  BY <1>5, <1>6 DEF dep

-----------------------------------------------------------------------------
(* Steps of manager_fetch *)

Busy == {"download", "deps", "unpack", "register", "pop", "return"}

(***************************************************************************)
(* Outside manager_fetch there is no frame to say anything about.          *)
(***************************************************************************)
LEMMA NoFrames ==
  ASSUME calls' = <<>>
  PROVE  FramesDescend' /\ FramesSettled'
<1>1. Len(calls') = 0
  BY EmptySeq
<1>2. QED
  BY <1>1 DEF FramesDescend, FramesSettled

(***************************************************************************)
(* A step that leaves the frames, the stack and the table alone keeps what *)
(* is said of the frames.                                                  *)
(***************************************************************************)
LEMMA FramesKept ==
  ASSUME FramesDescend, FramesSettled, UNCHANGED <<calls, avail>>,
         Installed \subseteq Installed'
  PROVE  FramesDescend' /\ FramesSettled'
<1>1. calls' = calls /\ Rank' = Rank
  BY DEF Rank, Ranks
<1>2. \A f : Deps(f)' = Deps(f)
  BY DEF Deps
<1>3. FramesDescend'
  BY <1>1, <1>2 DEF FramesDescend, Deps
<1>4. FramesSettled'
  BY <1>1, <1>2 DEF FramesSettled, Deps
<1>5. QED
  BY <1>3, <1>4

(***************************************************************************)
(* The packages table and no removal in progress.                          *)
(***************************************************************************)
LEMMA TableKept ==
  ASSUME DependencyClosed, NoSelfDependency, packages' = packages, 
         pc' \notin {"erase", "unregister"}
  PROVE  DependencyClosed' /\ NoSelfDependency' /\ NobodyNeedsVictim'
BY DEF DependencyClosed, NoSelfDependency, NobodyNeedsVictim, Installed

(***************************************************************************)
(* The outermost call of manager_fetch, from main, preserves ClosureInv.   *)
(***************************************************************************)
LEMMA FetchRequestedKeepsClosure ==
  ASSUME StackInv, ClosureInv, FetchRequested
  PROVE  ClosureInv'
<1>1. calls = <<>> /\ packages' = packages
  BY DEF StackInv, FramesOK, FetchRequested, Fetch, Control
<1>2. DependencyClosed' /\ NoSelfDependency' /\ NobodyNeedsVictim'
  BY <1>1, TableKept
     DEF ClosureInv, FetchRequested, Fetch, SkipFetch, RejectFetch, EnterFetch
<1>3. CASE calls' = <<>> /\ pc' = "return"
  BY <1>2, <1>3, NoFrames DEF ClosureInv, TopSettled
<1>4. CASE EnterFetch(cmd.name, cmd.reason, calls)
  <2> DEFINE frame == [name |-> cmd.name, reason |-> cmd.reason, next |-> 1]
  <2>1. frame \in Frame /\ frame.next = 1
    BY DEF StackInv, TypeOK, FetchRequested, Frame
  <2> HIDE DEF frame
  <2>2. Len(calls') = 1 /\ calls'[1] = frame /\ pc' = "download"
    BY <1>1, <1>4, <2>1, AppendProperties, EmptySeq DEF EnterFetch, frame
  <2>3. FramesDescend' /\ FramesSettled'
    BY <2>1, <2>2 DEF FramesDescend, FramesSettled
  <2>4. TopSettled'
    BY <2>1, <2>2 DEF TopSettled, Top
  <2>5. QED
    BY <1>2, <2>3, <2>4 DEF ClosureInv
<1>5. QED
  BY <1>1, <1>3, <1>4 DEF FetchRequested, Fetch, SkipFetch, RejectFetch

(***************************************************************************)
(* A call of manager_fetch for a dependency preserves ClosureInv: it is    *)
(* skipped only when the dependency is installed, because in a repository  *)
(* without cycles it cannot be on the stack.                               *)
(***************************************************************************)
LEMMA InstallDependencyKeepsClosure ==
  ASSUME Acyclic, StackInv, StackInv', ClosureInv, InstallDependency
  PROVE  ClosureInv'
<1> DEFINE bumped == [calls EXCEPT ![Len(calls)].next = @ + 1]
           n == Len(calls)
           dep == Deps(Top)[Top.next]
           frame == [name |-> dep, reason |-> Dependency, next |-> 1]
<1>1. /\ calls # <<>> /\ n \in 1 .. n /\ calls \in Seq(Frame)
      /\ packages' = packages /\ Installed' = Installed /\ avail' = avail
      /\ pc = "deps" /\ pc' \in {"return", "download"}
  BY TopType DEF StackInv, TypeOK, FramesOK, InstallDependency, Fetch, SkipFetch,
                 RejectFetch, EnterFetch, sessionVars, Installed
<1>2. /\ bumped \in Seq(Frame) /\ Len(bumped) = n
      /\ \A i \in 1 .. n : bumped[i].name = calls[i].name
      /\ \A i \in 1 .. n - 1 : bumped[i] = calls[i]
  BY <1>1, BumpProperties
<1>3. /\ bumped # <<>> /\ bumped[n] = [Top EXCEPT !.next = @ + 1]
      /\ bumped[n] \in Frame
  BY <1>1, <1>2, BumpProperties, EmptySeq, ElementOfSeq DEF Top
<1>4. bumped[n].next = Top.next + 1
  BY <1>1, <1>3, ElementOfSeq DEF Top, Frame
<1>5. /\ Top = calls[n] /\ Top.next \in Nat \ {0} /\ Top.next \in 1 .. Len(Deps(Top))
      /\ Len(Deps(Top)) \in Nat /\ dep \in Package
  BY <1>1, TopType, ElementOfSeq DEF InstallDependency
<1>6. /\ \A i \in 1 .. n : Rank[dep] < Rank[calls[i].name]
      /\ ~OnStack(dep)
  BY <1>1, <1>5, DependencyOffStack DEF ClosureInv
<1>7. Rank' = Rank /\ (\A f : Deps(f)' = Deps(f))
      /\ (\A f, g : f.name = g.name => Deps(f) = Deps(g))
  BY <1>1 DEF Rank, Ranks, Deps
<1>8. Fetch(dep, Dependency, bumped)
  BY DEF InstallDependency
<1>9. frame.name = dep /\ frame.next = 1 /\ frame \in Frame
  BY <1>5 DEF Frame, Reasons
<1>10. DependencyClosed' /\ NoSelfDependency' /\ NobodyNeedsVictim'
  BY <1>1, TableKept DEF ClosureInv
<1> HIDE DEF bumped, dep, frame
<1>11. \A i \in 1 .. n : Deps(bumped[i]) = Deps(calls[i])
  BY <1>2, <1>7
<1>12. \A i \in 1 .. n : \A k \in 1 .. Len(Deps(calls[i])) :
         k < bumped[i].next - 1 => Deps(calls[i])[k] \in Installed
  <2> SUFFICES ASSUME NEW i \in 1 .. n
               PROVE  \A k \in 1 .. Len(Deps(calls[i])) :
                        k < bumped[i].next - 1 => Deps(calls[i])[k] \in Installed
    OBVIOUS
  <2>1. CASE i = n
    BY <1>1, <1>4, <1>5, <2>1 DEF ClosureInv, TopSettled
  <2>2. CASE i # n
    <3>1. bumped[i] = calls[i]
      BY <1>1, <1>2, <2>2
    <3>2. QED
      BY <3>1 DEF ClosureInv, FramesSettled
  <2>3. QED
    BY <2>1, <2>2
<1>13. \A i \in 1 .. n - 1 :
         /\ bumped[i].next - 1 \in 1 .. Len(Deps(calls[i]))
         /\ bumped[i + 1].name = Deps(calls[i])[bumped[i].next - 1]
  BY <1>1, <1>2 DEF ClosureInv, FramesDescend
<1>14. CASE calls' = bumped /\ pc' = "return"
  <2>1. FramesDescend'
    BY <1>1, <1>2, <1>7, <1>11, <1>13, <1>14 DEF ClosureInv, FramesDescend
  <2>2. FramesSettled'
    BY <1>1, <1>2, <1>7, <1>11, <1>12, <1>14 DEF FramesSettled
  <2>3. TopSettled'
    <3>1. ret' = OK => dep \in Installed
      BY <1>6, <1>8, <1>14 DEF Fetch, SkipFetch, RejectFetch, EnterFetch, OK, Failed
    <3>2. Top' = bumped[n] /\ Deps(Top)' = Deps(Top)
      BY <1>1, <1>2, <1>5, <1>14 DEF Top, Deps
    <3>3. Top'.next - 1 = Top.next
      BY <1>4, <1>5, <3>2
    <3>4. QED
      BY <1>1, <1>5, <1>14, <3>1, <3>2, <3>3 DEF TopSettled, dep
  <2>4. QED
    BY <1>10, <2>1, <2>2, <2>3 DEF ClosureInv
<1>15. CASE EnterFetch(dep, Dependency, bumped)
  <2>1. /\ Len(calls') = n + 1
        /\ \A i \in 1 .. n : calls'[i] = bumped[i]
        /\ calls'[n + 1] = frame /\ pc' = "download"
    BY <1>1, <1>2, <1>9, <1>15, AppendProperties DEF EnterFetch, frame
  <2>2. \A i \in 1 .. n + 1 : i \in 1 .. n \/ i = n + 1
    BY <1>1
  <2>3. \A i \in 1 .. n : i \in 1 .. n - 1 \/ i = n
    BY <1>1
  <2>4. FramesDescend'
    <3>1. \A i \in 1 .. n :
            /\ calls'[i].next - 1 \in 1 .. Len(Deps(calls'[i]))
            /\ calls'[i + 1].name = Deps(calls'[i])[calls'[i].next - 1]
      <4> SUFFICES ASSUME NEW i \in 1 .. n
                   PROVE  /\ calls'[i].next - 1 \in 1 .. Len(Deps(calls'[i]))
                          /\ calls'[i + 1].name = Deps(calls'[i])[calls'[i].next - 1]
        OBVIOUS
      <4>1. CASE i = n
        BY <1>4, <1>5, <1>9, <1>11, <2>1, <4>1 DEF dep
      <4>2. CASE i \in 1 .. n - 1
        <5>1. i + 1 \in 1 .. n
          BY <1>1, <4>2
        <5>2. QED
          BY <1>11, <1>13, <2>1, <4>2, <5>1
      <4>3. QED
        BY <2>3, <4>1, <4>2
    <3>2. \A i, j \in 1 .. n + 1 :
            i < j => Rank[calls'[j].name] < Rank[calls'[i].name]
      <4> SUFFICES ASSUME NEW i \in 1 .. n + 1, NEW j \in 1 .. n + 1, i < j
                   PROVE  Rank[calls'[j].name] < Rank[calls'[i].name]
        OBVIOUS
      <4>1. i \in 1 .. n /\ calls'[i].name = calls[i].name
        BY <1>1, <1>2, <2>1
      <4>2. CASE j = n + 1
        BY <1>6, <1>9, <2>1, <4>1, <4>2
      <4>3. CASE j \in 1 .. n
        BY <1>2, <2>1, <4>1, <4>3 DEF ClosureInv, FramesDescend
      <4>4. QED
        BY <2>2, <4>2, <4>3
    <3>3. QED
      <4>1. Len(calls') - 1 = n
        BY <1>1, <2>1
      <4>2. QED
        BY <1>1, <1>7, <2>1, <3>1, <3>2, <4>1 DEF FramesDescend, Deps
  <2>5. FramesSettled'
    <3>1. \A i \in 1 .. n + 1 : \A k \in 1 .. Len(Deps(calls'[i])) :
            k < calls'[i].next - 1 => Deps(calls'[i])[k] \in Installed
      BY <1>9, <1>11, <1>12, <2>1, <2>2
    <3>2. QED
      BY <1>1, <1>7, <2>1, <3>1 DEF FramesSettled
  <2>6. TopSettled'
    BY <1>9, <2>1 DEF TopSettled, Top
  <2>7. QED
    BY <1>10, <2>4, <2>5, <2>6 DEF ClosureInv
<1>16. QED
  BY <1>8, <1>14, <1>15 DEF Fetch, SkipFetch, RejectFetch

(***************************************************************************)
(* The steps inside one manager_fetch that change no row and no frame.     *)
(***************************************************************************)
LEMMA FrameStepKeepsClosure ==
  ASSUME StackInv, ClosureInv,
         Download \/ DownloadFails \/ DependenciesUnreadable \/ DependenciesDone
           \/ Unpack \/ UnpackFails \/ RegisterFails \/ ReturnToCaller
  PROVE  ClosureInv'
<1>1. /\ calls' = calls /\ packages' = packages /\ Installed' = Installed
      /\ avail' = avail /\ pc' \in Busy
  BY DEF Download, DownloadFails, DependenciesUnreadable, DependenciesDone, Unpack,
         UnpackFails, RegisterFails, ReturnToCaller, sessionVars, fetchVars,
         Installed, Busy
<1>2. FramesDescend' /\ FramesSettled'
  BY <1>1, FramesKept DEF ClosureInv
<1>3. DependencyClosed' /\ NoSelfDependency' /\ NobodyNeedsVictim'
  BY <1>1, TableKept DEF ClosureInv, Busy
<1>4. Top' = Top /\ Deps(Top)' = Deps(Top)
  BY <1>1 DEF Top, Deps
<1>5. calls # <<>>
  BY DEF StackInv, FramesOK, Download, DownloadFails, DependenciesUnreadable,
         DependenciesDone, Unpack, UnpackFails, RegisterFails, ReturnToCaller
<1>6. Top.next \in Nat \ {0} /\ Len(Deps(Top)) \in Nat
  BY <1>5, TopType
<1>7. TopSettled'
  <2>1. CASE Download \/ DependenciesDone \/ Unpack
    BY <1>1, <1>4, <2>1
       DEF ClosureInv, TopSettled, Download, DependenciesDone, Unpack
  <2>2. CASE DownloadFails \/ DependenciesUnreadable \/ UnpackFails \/ RegisterFails
    BY <2>2 DEF TopSettled, DownloadFails, DependenciesUnreadable, UnpackFails,
                RegisterFails, OK, Failed
  <2>3. CASE ReturnToCaller
    <3>1. CASE ret = OK
      <4>1. /\ Len(calls) \in 1 .. Len(calls) /\ Top = calls[Len(calls)]
        BY <1>5, TopType
      <4>2. \A k \in 1 .. Len(Deps(Top)) : k < Top.next - 1 => Deps(Top)[k] \in Installed
        BY <4>1 DEF ClosureInv, FramesSettled
      <4>3. Deps(Top)[Top.next - 1] \in Installed
        BY <1>5, <2>3, <3>1 DEF ClosureInv, TopSettled, ReturnToCaller
      <4>4. \A k \in 1 .. Len(Deps(Top)) : k < Top.next => Deps(Top)[k] \in Installed
        BY <1>6, <4>2, <4>3
      <4>5. QED
        BY <1>1, <1>4, <2>3, <3>1, <4>4 DEF TopSettled, ReturnToCaller
    <3>2. CASE ret # OK
      BY <2>3, <3>2 DEF TopSettled, ReturnToCaller, fetchVars
    <3>3. QED
      BY <3>1, <3>2
  <2>4. QED
    BY <2>1, <2>2, <2>3
<1>8. QED
  BY <1>2, <1>3, <1>7 DEF ClosureInv

(***************************************************************************)
(* database_set_installation_data adds a row whose dependencies all have   *)
(* rows.                                                                   *)
(***************************************************************************)
LEMMA RegisterKeepsClosure ==
  ASSUME Acyclic, StackInv, ClosureInv, Register
  PROVE  ClosureInv'
<1>1. /\ calls # <<>> /\ calls' = calls /\ avail' = avail /\ pc' = "pop"
      /\ pc = "register" /\ Installed' = Installed \cup {Top.name}
  BY DEF StackInv, FramesOK, Register, sessionVars, Installed
<1>2. FramesDescend' /\ FramesSettled'
  BY <1>1, FramesKept DEF ClosureInv
<1>3. packages'[Top.name].deps = Deps(Top)
  BY DEF Register, Row, Installed
<1>4. \A p \in Installed : packages'[p] = packages[p]
  BY DEF Register, Installed
<1>5. \A k \in 1 .. Len(Deps(Top)) : Deps(Top)[k] \in Installed
  BY <1>1, TopType DEF ClosureInv, TopSettled
<1>6. DOMAIN Deps(Top) = 1 .. Len(Deps(Top))
  BY <1>1, TopType, LenProperties
<1>7. \A k \in 1 .. Len(Deps(Top)) : Deps(Top)[k] # Top.name
  BY <1>1, TopType, RankDescends, ElementOfSeq DEF StackInv
<1>8. DependencyClosed'
  BY <1>1, <1>3, <1>4, <1>5, <1>6 DEF ClosureInv, DependencyClosed
<1>9. NoSelfDependency'
  BY <1>1, <1>3, <1>4, <1>7 DEF ClosureInv, NoSelfDependency
<1>10. TopSettled' /\ NobodyNeedsVictim'
  BY <1>1 DEF TopSettled, NobodyNeedsVictim, Top
<1>11. QED
  BY <1>2, <1>8, <1>9, <1>10 DEF ClosureInv

(***************************************************************************)
(* The return of a manager_fetch leaves its caller with one more           *)
(* dependency settled.                                                     *)
(***************************************************************************)
LEMMA PopKeepsClosure ==
  ASSUME StackInv, ClosureInv, PopFromStack
  PROVE  ClosureInv'
<1> DEFINE n == Len(calls)
<1>1. /\ calls # <<>> /\ calls \in Seq(Frame) /\ n \in Nat \ {0}
      /\ packages' = packages /\ Installed' = Installed /\ avail' = avail
      /\ ret' = ret /\ pc = "pop" /\ pc' = "return" /\ calls' = Pop(calls)
  BY EmptySeq DEF StackInv, TypeOK, FramesOK, PopFromStack, sessionVars, Installed
<1>2. /\ calls' \in Seq(Frame) /\ Len(calls') = n - 1
      /\ \A i \in 1 .. n - 1 : calls'[i] = calls[i]
  BY <1>1, PopProperties
<1>3. DependencyClosed' /\ NoSelfDependency' /\ NobodyNeedsVictim'
  BY <1>1, TableKept DEF ClosureInv
<1>4. Rank' = Rank
  BY <1>1 DEF Rank, Ranks
<1>5. \A i \in 1 .. n - 1 : i \in 1 .. n /\ (i \in 1 .. n - 2 => i + 1 \in 1 .. n - 1)
  BY <1>1
<1>6. Len(calls') - 1 = n - 2 /\ 1 .. n - 2 \subseteq 1 .. n - 1
  BY <1>1, <1>2
<1>7. FramesDescend'
  <2>1. \A i \in 1 .. n - 2 :
          /\ calls'[i].next - 1 \in 1 .. Len(Deps(calls'[i]))
          /\ calls'[i + 1].name = Deps(calls'[i])[calls'[i].next - 1]
    <3> SUFFICES ASSUME NEW i \in 1 .. n - 2
                 PROVE  /\ calls'[i].next - 1 \in 1 .. Len(Deps(calls'[i]))
                        /\ calls'[i + 1].name = Deps(calls'[i])[calls'[i].next - 1]
      OBVIOUS
    <3>1. /\ i \in 1 .. n - 1 /\ i + 1 \in 1 .. n - 1
          /\ calls'[i] = calls[i] /\ calls'[i + 1] = calls[i + 1]
      BY <1>1, <1>2
    <3>2. QED
      BY <3>1 DEF ClosureInv, FramesDescend
  <2>2. \A i, j \in 1 .. n - 1 :
          i < j => Rank[calls'[j].name] < Rank[calls'[i].name]
    BY <1>2, <1>5 DEF ClosureInv, FramesDescend
  <2>3. QED
    BY <1>1, <1>2, <1>4, <1>6, <2>1, <2>2 DEF FramesDescend, Deps
<1>8. FramesSettled'
  BY <1>1, <1>2, <1>5 DEF ClosureInv, FramesSettled, Deps
<1>9. TopSettled'
  <2> SUFFICES ASSUME calls' # <<>>, ret = OK
               PROVE  /\ Top'.next - 1 \in 1 .. Len(Deps(Top)')
                      /\ (Deps(Top)')[Top'.next - 1] \in Installed
    BY <1>1 DEF TopSettled
  <2>1. n - 1 \in Nat \ {0} /\ Top' = calls[n - 1]
    BY <1>2, EmptySeq DEF Top
  <2>2. Deps(Top)' = Deps(calls[n - 1])
    BY <1>1, <2>1 DEF Deps
  <2>3. /\ calls[n - 1].next - 1 \in 1 .. Len(Deps(calls[n - 1]))
        /\ calls[n].name = Deps(calls[n - 1])[calls[n - 1].next - 1]
    <3>1. \A m \in Nat \ {0} :
            m - 1 \in Nat \ {0} => m - 1 \in 1 .. m - 1 /\ (m - 1) + 1 = m
      OBVIOUS
    <3>2. n - 1 \in 1 .. n - 1 /\ (n - 1) + 1 = n
      BY ONLY <1>1, <2>1, <3>1
    <3>3. QED
      BY <3>2 DEF ClosureInv, FramesDescend
  <2>4. calls[n].name \in Installed
    BY <1>1 DEF ClosureInv, TopSettled, Top
  <2>5. QED
    BY <2>1, <2>2, <2>3, <2>4
<1>10. QED
  BY <1>3, <1>7, <1>8, <1>9 DEF ClosureInv

-----------------------------------------------------------------------------
(* Steps of a removal *)

(***************************************************************************)
(* When memory lasts, _depends_on is exact on rows that do not list        *)
(* themselves.                                                             *)
(***************************************************************************)
LEMMA MayRemoveIsSafe ==
  ASSUME "memory" \notin Faults, TypeOK, NoSelfDependency,
         NEW name \in Installed, MayRemove(name)
  PROVE  \A p \in Others(name) : \A k \in 1 .. Len(packages[p].deps) :
           packages[p].deps[k] # name
<1> SUFFICES ASSUME NEW p \in Others(name), NEW k \in 1 .. Len(packages[p].deps),
                    packages[p].deps[k] = name
             PROVE  FALSE
  OBVIOUS
<1>1. p \in Installed /\ packages[p].deps \in Seq(Package)
  BY DEF Others, TypeOK
<1>2. DOMAIN packages[p].deps = 1 .. Len(packages[p].deps) /\ Len(packages[p].deps) \in Nat
  BY <1>1, LenProperties
<1>3. \A j \in 1 .. k - 1 : packages[p].deps[j] # p
  BY <1>1, <1>2 DEF NoSelfDependency
<1>4. DependsOn(p, name)
  BY <1>2, <1>3 DEF DependsOn
<1>5. QED
  BY <1>4 DEF MayRemove

(***************************************************************************)
(* The steps of a removal before its row goes away preserve ClosureInv.    *)
(***************************************************************************)
LEMMA RemovalStepKeepsClosure ==
  ASSUME "memory" \notin Faults, StackInv, RemovalInv, RemovalInv', ClosureInv,
         \/ RemoveRequested \/ RemoveSpins \/ Erase \/ NextPass
         \/ \E p \in pending : KeepRow(p) \/ RemoveRow(p) \/ SpinOnRow(p)
  PROVE  ClosureInv'
<1>1. /\ calls' = calls /\ packages' = packages /\ Installed' = Installed
      /\ avail' = avail /\ pc' \notin Busy
  BY DEF RemoveRequested, RemoveSpins, Spin, Erase, NextPass, KeepRow, RemoveRow,
         SpinOnRow, sessionVars, fetchVars, Installed, Busy
<1>2. FramesDescend' /\ FramesSettled' /\ TopSettled'
  BY <1>1, FramesKept DEF ClosureInv, TopSettled, Busy
<1>3. DependencyClosed' /\ NoSelfDependency'
  BY <1>1 DEF ClosureInv, DependencyClosed, NoSelfDependency
<1>4. TypeOK /\ NoSelfDependency /\ pending \subseteq Installed
  BY DEF StackInv, ClosureInv, RemovalInv
<1>5. NobodyNeedsVictim'
  <2>1. CASE RemoveRequested
    BY <1>1, <1>4, <2>1, MayRemoveIsSafe DEF RemoveRequested, NobodyNeedsVictim, Others
  <2>2. CASE \E p \in pending : RemoveRow(p)
    BY <1>1, <1>4, <2>2, MayRemoveIsSafe DEF RemoveRow, NobodyNeedsVictim, Others
  <2>3. CASE Erase
    BY <1>1, <2>3 DEF ClosureInv, Erase, removeVars, NobodyNeedsVictim, Others
  <2>4. CASE RemoveSpins \/ NextPass \/ \E p \in pending : KeepRow(p) \/ SpinOnRow(p)
    BY <2>4 DEF RemoveSpins, Spin, NextPass, KeepRow, SpinOnRow, NobodyNeedsVictim
  <2>5. QED
    BY <2>1, <2>2, <2>3, <2>4
<1>6. QED
  BY <1>2, <1>3, <1>5 DEF ClosureInv

(***************************************************************************)
(* database_remove_installation_data takes away a row that nobody needs.   *)
(***************************************************************************)
LEMMA UnregisterKeepsClosure ==
  ASSUME StackInv, ClosureInv, Unregister
  PROVE  ClosureInv'
<1>1. /\ calls = <<>> /\ calls' = <<>> /\ pc = "unregister" /\ pc' = "cleanup"
      /\ Installed' = Installed \ {victim}
      /\ \A p \in Installed' : packages'[p] = packages[p]
  BY DEF StackInv, FramesOK, Control, Unregister, fetchVars, Installed
<1>2. FramesDescend' /\ FramesSettled'
  BY <1>1, NoFrames
<1>3. \A p \in Installed' : \A k \in 1 .. Len(packages[p].deps) :
        packages[p].deps[k] # victim
  BY <1>1 DEF ClosureInv, NobodyNeedsVictim, Others
<1>4. \A p \in Installed : DOMAIN packages[p].deps = 1 .. Len(packages[p].deps)
  BY LenProperties DEF StackInv, TypeOK
<1>5. DependencyClosed'
  BY <1>1, <1>3, <1>4 DEF ClosureInv, DependencyClosed
<1>6. NoSelfDependency'
  BY <1>1 DEF ClosureInv, NoSelfDependency
<1>7. TopSettled' /\ NobodyNeedsVictim'
  BY <1>1 DEF TopSettled, NobodyNeedsVictim
<1>8. QED
  BY <1>2, <1>5, <1>6, <1>7 DEF ClosureInv

(***************************************************************************)
(* The start and the end of a process, killed ones included, preserve      *)
(* ClosureInv.                                                             *)
(***************************************************************************)
LEMMA ProcessBoundaryKeepsClosure ==
  ASSUME StackInv, ClosureInv,
         \/ Begin
         \/ InstallEnds \/ RemoveRefused \/ RemovalFails \/ CleanupEnds
         \/ CleanupFails \/ Crash
  PROVE  ClosureInv'
<1>1. packages' = packages /\ calls' = <<>> /\ pc' \in {"start", "idle"}
  BY DEF StackInv, FramesOK, Control, Begin, Install, Remove, fetchVars, Exit,
         InstallEnds, RemoveRefused, RemovalFails, CleanupEnds, CleanupFails, Crash
<1>2. FramesDescend' /\ FramesSettled'
  BY <1>1, NoFrames
<1>3. DependencyClosed' /\ NoSelfDependency' /\ NobodyNeedsVictim'
  BY <1>1, TableKept DEF ClosureInv
<1>4. TopSettled'
  BY <1>1 DEF TopSettled
<1>5. QED
  BY <1>2, <1>3, <1>4 DEF ClosureInv

(***************************************************************************)
(* Every step of the manager preserves ClosureInv.                         *)
(***************************************************************************)
LEMMA ClosureInvStep ==
  ASSUME Acyclic, "memory" \notin Faults,
         StackInv, StackInv', RemovalInv, RemovalInv', ClosureInv, [Next]_vars
  PROVE  ClosureInv'
<1>1. CASE UNCHANGED vars
  <2>1. /\ calls' = calls /\ packages' = packages /\ Installed' = Installed
        /\ avail' = avail /\ pc' = pc /\ ret' = ret /\ victim' = victim
    BY <1>1 DEF vars, Installed
  <2>2. FramesDescend' /\ FramesSettled'
    BY <2>1, FramesKept DEF ClosureInv
  <2>3. Top' = Top /\ Deps(Top)' = Deps(Top)
    BY <2>1 DEF Top, Deps
  <2>4. TopSettled'
    BY <2>1, <2>3 DEF ClosureInv, TopSettled
  <2>5. DependencyClosed' /\ NoSelfDependency' /\ NobodyNeedsVictim'
    BY <2>1 DEF ClosureInv, DependencyClosed, NoSelfDependency, NobodyNeedsVictim, Others
  <2>6. QED
    BY <2>2, <2>4, <2>5 DEF ClosureInv
<1>2. CASE FetchStep
  BY <1>2, FetchRequestedKeepsClosure, InstallDependencyKeepsClosure,
     FrameStepKeepsClosure, RegisterKeepsClosure, PopKeepsClosure,
     ProcessBoundaryKeepsClosure DEF FetchStep
<1>3. CASE RemoveStep
  BY <1>3, RemovalStepKeepsClosure, UnregisterKeepsClosure,
     ProcessBoundaryKeepsClosure DEF RemoveStep
<1>4. QED
  BY <1>1, <1>2, <1>3, ProcessBoundaryKeepsClosure DEF Next

LEMMA ClosureInvariant ==
  ASSUME Acyclic, "memory" \notin Faults
  PROVE  Spec => []ClosureInv
<1>1. Init => ClosureInv
  <2> SUFFICES ASSUME Init PROVE ClosureInv
    OBVIOUS
  <2>1. calls = <<>> /\ Installed = {} /\ pc = "idle" /\ Len(calls) = 0
    BY EmptySeq DEF Init, Installed
  <2>2. QED
    BY <2>1 DEF ClosureInv, DependencyClosed, NoSelfDependency, FramesDescend,
                FramesSettled, TopSettled, NobodyNeedsVictim
<1>2. /\ StackInv /\ StackInv' /\ RemovalInv /\ RemovalInv' /\ ClosureInv
      /\ [Next]_vars
      => ClosureInv'
  BY ClosureInvStep
<1>3. QED
  BY <1>1, <1>2, StackInvariant, RemovalInvariant, PTL DEF Spec

(***************************************************************************)
(* At every moment, killed processes and failed commands included, every   *)
(* dependency of an installed package is installed.                        *)
(***************************************************************************)
THEOREM DependenciesAreInstalled ==
  ASSUME Acyclic, "memory" \notin Faults
  PROVE  Spec => []DependencyClosed
<1>1. ClosureInv => DependencyClosed
  BY DEF ClosureInv
<1>2. QED
  BY <1>1, ClosureInvariant, PTL

-----------------------------------------------------------------------------
(* The promise *)

(***************************************************************************)
(* The package manager keeps the promise of module InstalledSet: every     *)
(* step of Manager is a step of InstalledSet or changes nothing it knows   *)
(* of.  The hypotheses are the same, and that queries do not fail: a       *)
(* failed query of the cleanup keeps a row that nobody needs.              *)
(***************************************************************************)

-----------------------------------------------------------------------------
(* What a command in progress is about *)

(***************************************************************************)
(* A step outside the recursion, with no frame before or after it.         *)
(***************************************************************************)
LEMMA NoFramesKeepCommand ==
  ASSUME calls' = <<>>, pc' \in {"idle", "start"} => ~cleaning',
         pc' \in {"idle", "start", "erase", "unregister", "cleanup", "spin"}
  PROVE  CommandInv'
<1>1. Len(calls') = 0
  BY EmptySeq
<1>2. QED
  BY <1>1 DEF CommandInv

(***************************************************************************)
(* The first call of manager_fetch is for the package asked for.           *)
(***************************************************************************)
LEMMA FetchRequestedKeepsCommand ==
  ASSUME StackInv, CommandInv, FetchRequested
  PROVE  CommandInv'
<1>1. /\ calls = <<>> /\ inst_stack = <<>> /\ Len(calls) = 0 /\ ~cleaning /\ cleaning' = cleaning
      /\ cmd' = cmd /\ cmd.action = "install" /\ Installed' = Installed
  BY EmptySeq DEF StackInv, FramesOK, StackMatchesCalls, TypeOK, CommandInv, FetchRequested,
                  Fetch, Control, sessionVars, removeVars, Installed
<1>2. ~OnStack(cmd.name)
  BY <1>1, EmptySeq DEF OnStack
<1>3. CASE SkipFetch(cmd.name, calls)
  BY <1>1, <1>2, <1>3 DEF SkipFetch, CommandInv
<1>4. CASE RejectFetch(cmd.name, calls)
  BY <1>1, <1>4 DEF RejectFetch, CommandInv, OK, Failed
<1>5. CASE EnterFetch(cmd.name, cmd.reason, calls)
  <2> DEFINE frame == [name |-> cmd.name, reason |-> cmd.reason, next |-> 1]
  <2>1. calls' = Append(calls, frame) /\ pc' = "download"
    BY <1>5 DEF EnterFetch
  <2>2. calls \in Seq(Frame) /\ frame \in Frame
    BY <1>1 DEF StackInv, TypeOK, Frame, Reasons
  <2>3. Len(calls') = 1 /\ calls'[1] = frame
    BY <1>1, <2>1, <2>2, AppendProperties
  <2>4. QED
    BY <1>1, <2>1, <2>3 DEF CommandInv
<1>6. QED
  BY <1>3, <1>4, <1>5 DEF FetchRequested, Fetch

(***************************************************************************)
(* Every further call is for a dependency.                                 *)
(***************************************************************************)
LEMMA InstallDependencyKeepsCommand ==
  ASSUME StackInv, CommandInv, InstallDependency
  PROVE  CommandInv'
<1> DEFINE bumped == [calls EXCEPT ![Len(calls)].next = @ + 1]
           name == Deps(Top)[Top.next]
           frame == [name |-> name, reason |-> Dependency, next |-> 1]
<1>1. /\ calls \in Seq(Frame) /\ calls # <<>> /\ pc = "deps"
      /\ ~cleaning /\ cleaning' = cleaning /\ cmd' = cmd /\ cmd.action = "install"
  BY DEF StackInv, TypeOK, FramesOK, CommandInv, InstallDependency, Fetch,
         sessionVars, removeVars
<1>2. /\ bumped \in Seq(Frame) /\ Len(bumped) = Len(calls)
      /\ \A i \in 1 .. Len(calls) :
           bumped[i].name = calls[i].name /\ bumped[i].reason = calls[i].reason
  <2>1. /\ bumped \in Seq(Frame) /\ Len(bumped) = Len(calls)
        /\ \A i \in 1 .. Len(calls) : bumped[i].name = calls[i].name
        /\ \A i \in 1 .. Len(calls) - 1 : bumped[i] = calls[i]
        /\ bumped[Len(calls)] = [calls[Len(calls)] EXCEPT !.next = @ + 1]
    BY <1>1, BumpProperties
  <2>2. Len(calls) \in 1 .. Len(calls) /\ Len(calls) \in Nat
    BY <1>1, EmptySeq
  <2>3. calls[Len(calls)] \in Frame
    BY <1>1, <2>2, ElementOfSeq
  <2>4. bumped[Len(calls)].reason = calls[Len(calls)].reason
    BY <2>1, <2>3 DEF Frame
  <2> HIDE DEF bumped
  <2>5. ASSUME NEW i \in 1 .. Len(calls)
        PROVE  bumped[i].reason = calls[i].reason
    <3>1. CASE i = Len(calls)
      BY <2>4, <3>1
    <3>2. CASE i # Len(calls)
      <4>1. i \in 1 .. Len(calls) - 1
        BY <2>2, <3>2
      <4>2. QED
        BY <2>1, <4>1
    <3>3. QED
      BY <3>1, <3>2
  <2>6. QED
    BY <2>1, <2>5
<1>3. Len(calls) \in Nat \ {0}
  BY <1>1, EmptySeq
<1>4. name \in Package
  BY <1>1, TopType, ElementOfSeq DEF InstallDependency
<1>5. frame \in Frame
  BY <1>4 DEF Frame, Reasons
<1> HIDE DEF bumped, name
<1>6. CASE calls' = bumped /\ pc' = "return"
  BY <1>1, <1>2, <1>3, <1>6, EmptySeq DEF CommandInv
<1>7. CASE calls' = Append(bumped, frame) /\ pc' = "download"
  <2>1. /\ Len(calls') = Len(calls) + 1
        /\ \A i \in 1 .. Len(calls) : calls'[i] = bumped[i]
        /\ calls'[Len(calls) + 1] = frame
    BY <1>2, <1>5, <1>7, AppendProperties
  <2>2. \A i \in 1 .. Len(calls') :
          IF i = 1 THEN calls'[i].name = cmd.name /\ calls'[i].reason = cmd.reason
                   ELSE calls'[i].reason = Dependency
    BY <1>2, <1>3, <2>1 DEF CommandInv
  <2>3. QED
    BY <1>1, <1>7, <2>2 DEF CommandInv
<1>8. QED
  BY <1>6, <1>7 DEF InstallDependency, Fetch, SkipFetch, RejectFetch, EnterFetch, bumped, name

(***************************************************************************)
(* A return from manager_fetch.                                            *)
(***************************************************************************)
LEMMA PopKeepsCommand ==
  ASSUME StackInv, ClosureInv, CommandInv, PopFromStack
  PROVE  CommandInv'
<1>1. /\ calls \in Seq(Frame) /\ calls # <<>> /\ pc = "pop" /\ pc' = "return"
      /\ calls' = Pop(calls) /\ ret' = ret /\ Installed' = Installed
      /\ ~cleaning /\ cleaning' = cleaning /\ cmd' = cmd /\ cmd.action = "install"
  BY DEF StackInv, TypeOK, FramesOK, CommandInv, PopFromStack, sessionVars, removeVars,
         Installed
<1>2. /\ Len(calls') = Len(calls) - 1 /\ Len(calls) \in Nat \ {0}
      /\ \A i \in 1 .. Len(calls) - 1 : calls'[i] = calls[i]
  BY <1>1, PopProperties, EmptySeq
<1>3. ASSUME calls' = <<>>, ret = OK
      PROVE  cmd.name \in Installed
  <2>1. Len(calls) = 1
    BY <1>2, <1>3, EmptySeq
  <2>2. Top.name = cmd.name
    BY <2>1 DEF Top, CommandInv
  <2>3. QED
    BY <1>1, <1>3, <2>2 DEF ClosureInv, TopSettled
<1>4. QED
  BY <1>1, <1>2, <1>3 DEF CommandInv

(***************************************************************************)
(* Every step keeps CommandInv.                                            *)
(***************************************************************************)
LEMMA CommandInvStep ==
  ASSUME StackInv, ClosureInv, CommandInv, [Next]_vars
  PROVE  CommandInv'
<1>1. CASE UNCHANGED vars
  BY <1>1 DEF vars, CommandInv, Installed
<1>2. CASE Begin
  <2>1. calls' = <<>> /\ pc' = "start" /\ ~cleaning'
    BY <1>2 DEF StackInv, FramesOK, Control, CommandInv, Begin, Install, Remove,
                fetchVars, removeVars
  <2>2. QED
    BY <2>1, NoFramesKeepCommand
<1>3. CASE InstallEnds \/ RemoveRefused \/ RemovalFails \/ CleanupEnds \/ CleanupFails \/ Crash
  <2>1. calls' = <<>> /\ pc' = "idle" /\ ~cleaning'
    BY <1>3 DEF InstallEnds, RemoveRefused, RemovalFails, CleanupEnds, CleanupFails, Crash, Exit
  <2>2. QED
    BY <2>1, NoFramesKeepCommand
<1>4. CASE \/ Download \/ DownloadFails \/ DependenciesUnreadable \/ DependenciesDone
           \/ Unpack \/ UnpackFails \/ Register \/ RegisterFails \/ ReturnToCaller
  <2>1. /\ pc \in {"download", "deps", "unpack", "register", "pop", "return"}
        /\ pc' \in {"download", "deps", "unpack", "register", "pop"}
        /\ UNCHANGED <<calls, cmd, cleaning>>
    BY <1>4 DEF Download, DownloadFails, DependenciesUnreadable, DependenciesDone,
                Unpack, UnpackFails, Register, RegisterFails, ReturnToCaller,
                sessionVars, fetchVars, removeVars
  <2>2. QED
    BY <2>1 DEF CommandInv
<1>5. CASE \/ RemoveRequested \/ RemoveSpins \/ Erase \/ Unregister \/ NextPass
           \/ \E p \in pending : KeepRow(p) \/ RemoveRow(p) \/ SpinOnRow(p)
  <2>1. /\ pc \in {"start", "erase", "unregister", "cleanup"} /\ calls' = calls
        /\ pc' \in {"erase", "unregister", "cleanup", "spin"}
    BY <1>5 DEF RemoveRequested, RemoveSpins, Erase, Unregister, NextPass,
                KeepRow, RemoveRow, SpinOnRow, Spin, fetchVars
  <2>2. calls = <<>>
    BY <2>1 DEF StackInv, FramesOK, Control
  <2>3. QED
    BY <2>1, <2>2, NoFramesKeepCommand
<1>6. QED
  BY <1>1, <1>2, <1>3, <1>4, <1>5, FetchRequestedKeepsCommand,
     InstallDependencyKeepsCommand, PopKeepsCommand DEF Next, FetchStep, RemoveStep

-----------------------------------------------------------------------------
(* What the cleanup has visited *)

(***************************************************************************)
(* A row that manager_can_remove refuses is needed, when no query fails.   *)
(***************************************************************************)
LEMMA RefusedIsNeeded ==
  ASSUME Faults \cap {"select", "memory"} = {},
         NEW p \in Installed, packages[p].reason = Dependency, MayRefuse(p)
  PROVE  Needed(p)
<1>1. \E q \in Others(p) : DependsOn(q, p)
  BY DEF MayRefuse, QueryMayFail, Dependency, Core
<1>2. QED
  BY <1>1 DEF Needed, DependsOn

(***************************************************************************)
(* Every step keeps PassInv.                                               *)
(***************************************************************************)
LEMMA PassInvStep ==
  ASSUME Faults \cap {"select", "memory"} = {}, RemovalInv, PassInv, [Next]_vars
  PROVE  PassInv'
<1> SUFFICES ASSUME pc' = "cleanup", ~removed'
             PROVE  \A p \in Installed' \ pending' :
                      packages'[p].reason = Dependency => Needed(p)'
  BY DEF PassInv
<1>1. CASE UNCHANGED vars
  BY <1>1 DEF vars, PassInv, Needed, Others, Installed
<1>2. CASE Unregister
  BY <1>2 DEF Unregister, Installed
<1>3. CASE NextPass
  BY <1>3 DEF NextPass, Installed
<1>4. ASSUME NEW p \in pending, KeepRow(p)
      PROVE  \A q \in Installed' \ pending' :
               packages'[q].reason = Dependency => Needed(q)'
  <2>1. /\ pc = "cleanup" /\ ~removed /\ packages' = packages
        /\ pending' = pending \ {p} /\ p \in Installed
        /\ packages[p].reason # Dependency \/ MayRefuse(p)
    BY <1>4 DEF KeepRow, RemovalInv
  <2>2. packages[p].reason = Dependency => Needed(p)
    BY <2>1, RefusedIsNeeded
  <2>3. \A q \in Installed \ (pending \ {p}) : packages[q].reason = Dependency => Needed(q)
    BY <2>1, <2>2 DEF PassInv
  <2>4. QED
    BY <2>1, <2>3 DEF Needed, Others, Installed
<1>5. ASSUME ~ UNCHANGED vars, ~ Unregister, ~ NextPass, ~ \E p \in pending : KeepRow(p)
      PROVE  FALSE
  <2>1. Begin \/ FetchStep \/ RemoveStep \/ Crash
    BY <1>5 DEF Next
  <2>2. ~ Begin /\ ~ Crash
    BY DEF Begin, Install, Remove, Crash, Exit
  <2>3. ~ FetchStep
    BY DEF FetchStep, FetchRequested, Download, DownloadFails, InstallDependency,
           DependenciesUnreadable, DependenciesDone, Unpack, UnpackFails, Register,
           RegisterFails, PopFromStack, ReturnToCaller, InstallEnds, Fetch, SkipFetch,
           RejectFetch, EnterFetch, Exit
  <2>4. ~ RemoveStep
    BY <1>5 DEF RemoveStep, RemoveRequested, RemoveRefused, RemoveSpins, Erase,
                RemovalFails, RemoveRow, SpinOnRow, CleanupEnds, CleanupFails, Spin, Exit
  <2>5. QED
    BY <2>1, <2>2, <2>3, <2>4
<1>6. QED
  BY <1>1, <1>2, <1>3, <1>4, <1>5

-----------------------------------------------------------------------------
(* Steps of Manager as steps of InstalledSet *)

(***************************************************************************)
(* What changes neither the table, nor the command, nor its phase, is not  *)
(* seen.                                                                   *)
(***************************************************************************)
LEMMA Unseen ==
  ASSUME UNCHANGED <<packages, cmd, status>>, Phase' = Phase
  PROVE  UNCHANGED Promise!setVars
BY DEF Promise!setVars, Table, Installed

(***************************************************************************)
(* A command that starts is a job that is asked for.                       *)
(***************************************************************************)
LEMMA BeginAsks ==
  ASSUME CommandInv, Begin
  PROVE  Promise!Ask
<1>1. /\ pc = "idle" /\ pc' = "start" /\ ~cleaning'
      /\ UNCHANGED <<packages, status>>
  BY DEF CommandInv, Begin, Install, Remove, removeVars
<1>2. cmd' \in Promise!Jobs
  BY DEF Begin, Install, Remove, Promise!Jobs, User, Core
<1>3. Table' = Table
  BY <1>1 DEF Table, Installed
<1>4. QED
  BY <1>1, <1>2, <1>3 DEF Promise!Ask, Phase

(***************************************************************************)
(* A process that ends, ends its job.                                      *)
(***************************************************************************)
LEMMA ExitFinishes ==
  ASSUME NEW how, Exit(how), UNCHANGED packages
  PROVE  Promise!Finish(how)
BY DEF Exit, Promise!Finish, Phase, Table, Installed, sessionVars

(***************************************************************************)
(* A failure or a kill is a job that stops.                                *)
(***************************************************************************)
LEMMA FailureStops ==
  ASSUME pc # "idle", UNCHANGED packages, Exit("failure") \/ Exit("killed")
  PROVE  Promise!Stop
BY ExitFinishes DEF Promise!Stop, Phase

(***************************************************************************)
(* An installation that reports success has the package.                   *)
(***************************************************************************)
LEMMA InstallEndsJob ==
  ASSUME TypeOK, CommandInv, InstallEnds
  PROVE  Promise!Next
<1>1. CASE ret = OK
  <2>1. /\ Exit("success") /\ UNCHANGED packages
        /\ Phase = "work" /\ cmd.action = "install" /\ cmd.name \in DOMAIN Table
    BY <1>1 DEF InstallEnds, CommandInv, Phase, Table
  <2>2. Promise!Succeed
    BY <2>1, ExitFinishes DEF Promise!Succeed
  <2>3. QED
    BY <2>2 DEF Promise!Next
<1>2. CASE ret # OK
  <2>1. Promise!Stop
    BY <1>2, FailureStops DEF InstallEnds
  <2>2. QED
    BY <2>1 DEF Promise!Next
<1>3. QED
  BY <1>1, <1>2

(***************************************************************************)
(* A cleanup that reports success has left nothing that nobody needs: its  *)
(* last pass visited every row and removed none.                           *)
(***************************************************************************)
LEMMA CleanupEndsJob ==
  ASSUME RemovalInv, PassInv, CleanupEnds
  PROVE  Promise!Succeed
<1>1. /\ pc = "cleanup" /\ pending = {} /\ ~removed /\ cleaning
      /\ Exit("success") /\ UNCHANGED packages
  BY DEF CleanupEnds, RemovalInv
<1>2. Phase = "clean"
  BY <1>1 DEF Phase
<1>3. \A p \in Installed : packages[p].reason = Dependency => Needed(p)
  BY <1>1 DEF PassInv
<1>4. \A p \in DOMAIN Table : Table[p].reason = "dependency" => Promise!Needed(p)
  BY <1>3 DEF Table, Dependency, Needed, Others, Promise!Needed
<1>5. QED
  BY <1>1, <1>2, <1>4, ExitFinishes DEF Promise!Succeed

(***************************************************************************)
(* The INSERT of manager_fetch adds a package that has what it needs.      *)
(***************************************************************************)
LEMMA RegisterAdds ==
  ASSUME StackInv, ClosureInv, CommandInv, Register
  PROVE  Promise!Add(Top.name)
<1>1. /\ pc = "register" /\ pc' = "pop" /\ calls # <<>> /\ ~cleaning
      /\ UNCHANGED <<cmd, status, cleaning>> /\ cmd.action = "install"
  BY DEF StackInv, FramesOK, CommandInv, Register, sessionVars, removeVars
<1>2. /\ Len(calls) \in 1 .. Len(calls) /\ Len(calls) \in Nat /\ Top = calls[Len(calls)]
      /\ Top.name \in Package /\ Top.next \in Nat /\ Deps(Top) \in Seq(Package)
      /\ Len(Deps(Top)) \in Nat
  BY <1>1, TopType
<1>3. /\ Top.name \notin Installed
      /\ packages' = [p \in Installed \cup {Top.name} |->
                        IF p = Top.name THEN Row(Top) ELSE packages[p]]
  BY DEF Register
<1>4. cmd.name \notin Installed
  <2>1. calls[1].name = cmd.name /\ 1 \in DOMAIN calls
    BY <1>2, LenProperties DEF CommandInv, StackInv, TypeOK
  <2>2. QED
    BY <1>1, <2>1 DEF StackInv, InsertIsFresh
<1>5. Top.reason = IF Top.name = cmd.name THEN cmd.reason ELSE "dependency"
  <2>1. CASE Len(calls) = 1
    BY <1>2, <2>1 DEF CommandInv
  <2>2. CASE Len(calls) # 1
    <3>1. 1 \in DOMAIN calls /\ Len(calls) \in DOMAIN calls
      BY <1>2, LenProperties DEF StackInv, TypeOK
    <3>2. calls[1].name # Top.name
      BY <1>2, <2>2, <3>1 DEF StackInv, StackMatchesCalls
    <3>3. 1 \in 1 .. Len(calls) /\ calls[1].name = cmd.name
      BY <1>2 DEF CommandInv
    <3>4. calls[Len(calls)].reason = Dependency
      BY <1>2, <2>2 DEF CommandInv
    <3>5. QED
      BY <1>2, <3>2, <3>3, <3>4 DEF Dependency
  <2>3. QED
    BY <2>1, <2>2
<1> DEFINE needs == {Deps(Top)[i] : i \in DOMAIN Deps(Top)}
<1>6. needs \subseteq Installed
  <2>1. DOMAIN Deps(Top) = 1 .. Len(Deps(Top))
    BY <1>2, LenProperties
  <2>2. \A k \in 1 .. Len(Deps(Top)) : k < Top.next /\ Deps(Top)[k] \in Installed
    BY <1>1, <1>2 DEF ClosureInv, TopSettled
  <2>3. QED
    BY <2>1, <2>2
<1>7. Table' = [q \in DOMAIN Table \cup {Top.name} |->
                  IF q # Top.name THEN Table[q]
                  ELSE [needs  |-> needs,
                        reason |-> IF Top.name = cmd.name THEN cmd.reason ELSE "dependency"]]
  <2> DEFINE row == [needs |-> needs, reason |-> Top.reason]
  <2>1. DOMAIN packages' = Installed \cup {Top.name} /\ DOMAIN Table = Installed
    BY <1>3 DEF Table
  <2>2. ASSUME NEW q \in Installed
        PROVE  /\ q # Top.name
               /\ [needs  |-> {packages'[q].deps[i] : i \in DOMAIN packages'[q].deps},
                   reason |-> packages'[q].reason] = Table[q]
    <3>1. q # Top.name /\ packages'[q] = packages[q]
      BY <1>3
    <3>2. QED
      BY <3>1 DEF Table
  <2>3. packages'[Top.name] = [deps |-> Deps(Top), reason |-> Top.reason]
    BY <1>3 DEF Row
  <2>4. [needs  |-> {packages'[Top.name].deps[i] : i \in DOMAIN packages'[Top.name].deps},
         reason |-> packages'[Top.name].reason] = row
    BY <2>3
  <2>5. Table' = [q \in DOMAIN packages' |->
                    [needs  |-> {packages'[q].deps[i] : i \in DOMAIN packages'[q].deps},
                     reason |-> packages'[q].reason]]
    BY DEF Table, Installed
  <2>6. Table' = [q \in Installed \cup {Top.name} |->
                    IF q # Top.name THEN Table[q] ELSE row]
    <3> HIDE DEF row
    <3>1. \A q \in Installed \cup {Top.name} :
            [needs  |-> {packages'[q].deps[i] : i \in DOMAIN packages'[q].deps},
             reason |-> packages'[q].reason] = IF q # Top.name THEN Table[q] ELSE row
      BY <2>2, <2>4
    <3>2. QED
      BY <2>1, <2>5, <3>1
  <2>7. QED
    BY <1>5, <2>1, <2>6
<1>8. QED
  <2>1. Phase = "work" /\ Phase' = Phase
    BY <1>1 DEF Phase
  <2>2. DOMAIN Table = Installed
    BY DEF Table
  <2>3. QED
    BY <1>1, <1>3, <1>4, <1>6, <1>7, <2>1, <2>2 DEF Promise!Add

(***************************************************************************)
(* The DELETE of package_remove drops the package asked for, or one that   *)
(* was installed as a dependency, and that nobody needs.                   *)
(***************************************************************************)
LEMMA UnregisterDrops ==
  ASSUME TypeOK, RemovalInv, ClosureInv, Unregister
  PROVE  Promise!DropNamed \/ Promise!DropUnneeded(victim)
<1>1. /\ pc = "unregister" /\ pc' = "cleanup" /\ cleaning'
      /\ UNCHANGED <<cmd, status>> /\ packages' = [p \in Installed \ {victim} |-> packages[p]]
  BY DEF Unregister, sessionVars
<1>2. /\ victim \in Installed /\ packages[victim].reason # Core
      /\ IF cleaning THEN packages[victim].reason = Dependency
                     ELSE cmd.action = "remove" /\ cmd.name = victim
  BY <1>1 DEF RemovalInv
<1>3. DOMAIN Table = Installed /\ Table[victim].reason = packages[victim].reason
  BY <1>2 DEF Table
<1>4. ~ Promise!Needed(victim)
  <2>1. \A p \in Installed : packages[p].deps \in Seq(Package)
    BY DEF TypeOK
  <2>2. \A p \in Installed : DOMAIN packages[p].deps = 1 .. Len(packages[p].deps)
    BY <2>1, LenProperties
  <2>3. \A p \in Installed \ {victim} : \A k \in DOMAIN packages[p].deps :
          packages[p].deps[k] # victim
    BY <1>1, <2>2 DEF ClosureInv, NobodyNeedsVictim, Others
  <2>4. QED
    BY <2>3 DEF Promise!Needed, Table
<1>5. Table' = Promise!Without(victim)
  BY <1>1 DEF Table, Installed, Promise!Without
<1>6. CASE cleaning
  BY <1>1, <1>2, <1>3, <1>4, <1>5, <1>6 DEF Promise!DropUnneeded, Phase, Dependency
<1>7. CASE ~cleaning
  BY <1>1, <1>2, <1>3, <1>4, <1>5, <1>7 DEF Promise!DropNamed, Phase, Core
<1>8. QED
  BY <1>6, <1>7

(***************************************************************************)
(* Every step keeps the promise or is not seen.                            *)
(***************************************************************************)
LEMMA StepKeepsPromise ==
  ASSUME StackInv, RemovalInv, ClosureInv, CommandInv, PassInv, [Next]_vars
  PROVE  [Promise!Next]_(Promise!setVars)
<1>1. CASE UNCHANGED vars
  BY <1>1, Unseen DEF vars, Phase
<1>2. CASE Begin
  BY <1>2, BeginAsks DEF Promise!Next
<1>3. CASE RemoveRefused \/ RemovalFails \/ CleanupFails \/ Crash
  <2>1. pc # "idle" /\ UNCHANGED packages /\ (Exit("failure") \/ Exit("killed"))
    BY <1>3 DEF RemoveRefused, RemovalFails, CleanupFails, Crash
  <2>2. QED
    BY <2>1, FailureStops DEF Promise!Next
<1>4. CASE InstallEnds
  BY <1>4, InstallEndsJob DEF StackInv
<1>5. CASE CleanupEnds
  BY <1>5, CleanupEndsJob DEF Promise!Next
<1>6. CASE Register
  <2>1. calls # <<>>
    BY <1>6 DEF StackInv, FramesOK, Register
  <2>2. Top.name \in Package
    BY <2>1, TopType
  <2>3. QED
    BY <1>6, <2>2, RegisterAdds DEF Promise!Next
<1>7. CASE Unregister
  <2>1. victim \in Package
    BY <1>7 DEF Unregister, RemovalInv, StackInv, TypeOK
  <2>2. QED
    BY <1>7, <2>1, UnregisterDrops DEF Promise!Next, StackInv
<1>8. CASE \/ FetchRequested \/ Download \/ DownloadFails \/ InstallDependency
           \/ DependenciesUnreadable \/ DependenciesDone \/ Unpack \/ UnpackFails
           \/ RegisterFails \/ PopFromStack \/ ReturnToCaller
  <2>1. pc # "idle" /\ pc' # "idle" /\ UNCHANGED <<packages, cmd, status, cleaning>>
    BY <1>8 DEF FetchRequested, Download, DownloadFails, InstallDependency,
                DependenciesUnreadable, DependenciesDone, Unpack, UnpackFails,
                RegisterFails, PopFromStack, ReturnToCaller, Fetch, SkipFetch,
                RejectFetch, EnterFetch, sessionVars, removeVars
  <2>2. QED
    BY <2>1, Unseen DEF Phase
<1>9. CASE \/ RemoveRequested \/ RemoveSpins \/ Erase \/ NextPass
           \/ \E p \in pending : KeepRow(p) \/ RemoveRow(p) \/ SpinOnRow(p)
  <2>1. pc # "idle" /\ pc' # "idle" /\ UNCHANGED <<packages, cmd, status>>
    BY <1>9 DEF RemoveRequested, RemoveSpins, Erase, NextPass, KeepRow, RemoveRow,
                SpinOnRow, Spin, sessionVars
  <2>2. cleaning' = cleaning \/ (~cleaning /\ ~cleaning')
    <3>1. RemoveRequested => ~cleaning /\ ~cleaning'
      BY DEF RemoveRequested, CommandInv
    <3>2. \/ RemoveSpins \/ Erase \/ NextPass
          \/ \E p \in pending : KeepRow(p) \/ RemoveRow(p) \/ SpinOnRow(p)
          => cleaning' = cleaning
      BY DEF RemoveSpins, Erase, NextPass, KeepRow, RemoveRow, SpinOnRow, Spin, removeVars
    <3>3. QED
      BY <1>9, <3>1, <3>2
  <2>3. QED
    BY <2>1, <2>2, Unseen DEF Phase
<1>10. QED
  BY <1>1, <1>2, <1>3, <1>4, <1>5, <1>6, <1>7, <1>8, <1>9 DEF Next, FetchStep, RemoveStep

-----------------------------------------------------------------------------
(***************************************************************************)
(* Packages come one at a time, each after what it needs and the one asked *)
(* for last; a removal takes the package asked for and then dependencies   *)
(* that nobody needs, all of them when it succeeds.                        *)
(***************************************************************************)
THEOREM PromiseIsKept ==
  ASSUME Acyclic, Faults \cap {"select", "memory"} = {}
  PROVE  Spec => ImplementsInstalledSet
<1>1. "memory" \notin Faults
  OBVIOUS
<1>2. Init => CommandInv /\ PassInv
  <2> SUFFICES ASSUME Init PROVE CommandInv /\ PassInv
    OBVIOUS
  <2>1. Len(calls) = 0 /\ pc = "idle" /\ ~cleaning
    BY EmptySeq DEF Init
  <2>2. QED
    BY <2>1 DEF CommandInv, PassInv
<1>3. StackInv /\ ClosureInv /\ CommandInv /\ [Next]_vars => CommandInv'
  BY CommandInvStep
<1>4. RemovalInv /\ PassInv /\ [Next]_vars => PassInv'
  BY PassInvStep
<1>5. Init => Promise!Init
  <2> SUFFICES ASSUME Init PROVE Promise!Init
    OBVIOUS
  <2>1. Installed = {} /\ cmd = NoCommand /\ pc = "idle" /\ status = "none"
    BY DEF Init, Installed
  <2>2. Table = [p \in {} |-> [needs |-> {}, reason |-> "user"]]
    BY <2>1 DEF Table
  <2>3. QED
    BY <2>1, <2>2 DEF Promise!Init, Promise!NoJob, NoCommand, Phase, User
<1>6. StackInv /\ RemovalInv /\ ClosureInv /\ CommandInv /\ PassInv /\ [Next]_vars
      => [Promise!Next]_(Promise!setVars)
  BY StepKeepsPromise
<1>7. Spec => []StackInv /\ []RemovalInv /\ []ClosureInv
  BY <1>1, StackInvariant, RemovalInvariant, ClosureInvariant
<1>8. QED
  BY <1>2, <1>3, <1>4, <1>5, <1>6, <1>7, PTL DEF Spec, ImplementsInstalledSet, Promise!Spec

-----------------------------------------------------------------------------
(***************************************************************************)
(* Every step keeps DoneInv.                                               *)
(***************************************************************************)
LEMMA DoneInvStep ==
  ASSUME TypeOK, RemovalInv, CommandInv, DoneInv, [Next]_vars
  PROVE  DoneInv'
<1>1. CASE UNCHANGED vars
  BY <1>1 DEF vars, DoneInv, SuccessMeansDone, Installed
<1>2. CASE RemoveRefused \/ RemovalFails \/ CleanupFails \/ Crash
  BY <1>2 DEF RemoveRefused, RemovalFails, CleanupFails, Crash, Exit, DoneInv,
              SuccessMeansDone
<1>3. CASE InstallEnds
  <2>1. /\ pc = "return" /\ calls = <<>> /\ ~cleaning' /\ Installed' = Installed /\ cmd' = cmd
        /\ status' = IF ret = OK THEN "success" ELSE "failure"
    BY <1>3 DEF InstallEnds, Exit, sessionVars, Installed
  <2>2. QED
    BY <2>1 DEF CommandInv, DoneInv, SuccessMeansDone
<1>4. CASE CleanupEnds
  <2>1. cmd.action = "remove" /\ cmd.name \notin Installed
    BY <1>4 DEF CleanupEnds, RemovalInv, DoneInv
  <2>2. ~cleaning' /\ Installed' = Installed /\ cmd' = cmd
    BY <1>4 DEF CleanupEnds, Exit, sessionVars, Installed
  <2>3. QED
    BY <2>1, <2>2 DEF DoneInv, SuccessMeansDone
<1>5. CASE Register
  BY <1>5 DEF Register, CommandInv, DoneInv, SuccessMeansDone, removeVars
<1>6. CASE Unregister
  <2>1. /\ pc = "unregister" /\ pc' = "cleanup" /\ cmd' = cmd
        /\ Installed' = Installed \ {victim}
    BY <1>6 DEF Unregister, sessionVars, Installed
  <2>2. cmd.action = "remove" /\ cmd.name \notin Installed'
    BY <2>1 DEF RemovalInv, DoneInv
  <2>3. QED
    BY <2>1, <2>2 DEF DoneInv, SuccessMeansDone
<1>7. CASE Begin
  <2>1. ~cleaning /\ cleaning' = cleaning /\ pc' = "start"
    BY <1>7 DEF Begin, Install, Remove, removeVars, CommandInv
  <2>2. QED
    BY <2>1 DEF DoneInv, SuccessMeansDone
<1>8. CASE \/ FetchRequested \/ Download \/ DownloadFails \/ InstallDependency
           \/ DependenciesUnreadable \/ DependenciesDone \/ Unpack \/ UnpackFails
           \/ RegisterFails \/ PopFromStack \/ ReturnToCaller
  <2>1. pc' # "idle" /\ UNCHANGED <<packages, cmd, cleaning>>
    BY <1>8 DEF FetchRequested, Download, DownloadFails, InstallDependency,
                DependenciesUnreadable, DependenciesDone, Unpack, UnpackFails,
                RegisterFails, PopFromStack, ReturnToCaller, Fetch, SkipFetch,
                RejectFetch, EnterFetch, sessionVars, removeVars
  <2>2. QED
    BY <2>1 DEF DoneInv, SuccessMeansDone, Installed
<1>9. CASE \/ RemoveRequested \/ RemoveSpins \/ Erase \/ NextPass
           \/ \E p \in pending : KeepRow(p) \/ RemoveRow(p) \/ SpinOnRow(p)
  <2>1. pc' # "idle" /\ UNCHANGED <<packages, cmd>>
    BY <1>9 DEF RemoveRequested, RemoveSpins, Erase, NextPass, KeepRow, RemoveRow,
                SpinOnRow, Spin, sessionVars
  <2>2. cleaning' => cleaning
    BY <1>9 DEF RemoveRequested, RemoveSpins, Erase, NextPass, KeepRow, RemoveRow,
                SpinOnRow, Spin, removeVars
  <2>3. QED
    BY <2>1, <2>2 DEF DoneInv, SuccessMeansDone, Installed
<1>10. QED
  BY <1>1, <1>2, <1>3, <1>4, <1>5, <1>6, <1>7, <1>8, <1>9 DEF Next, FetchStep, RemoveStep

(***************************************************************************)
(* A command that reports success did what it was asked for: after         *)
(* packdude -i the package is installed, after packdude -r it is not.      *)
(***************************************************************************)
THEOREM SuccessIsTrue ==
  ASSUME Acyclic, "memory" \notin Faults
  PROVE  Spec => []SuccessMeansDone
<1>1. Init => CommandInv /\ DoneInv
  <2> SUFFICES ASSUME Init PROVE CommandInv /\ DoneInv
    OBVIOUS
  <2>1. Len(calls) = 0 /\ pc = "idle" /\ ~cleaning /\ status = "none"
    BY EmptySeq DEF Init
  <2>2. QED
    BY <2>1 DEF CommandInv, DoneInv, SuccessMeansDone
<1>2. StackInv /\ ClosureInv /\ CommandInv /\ [Next]_vars => CommandInv'
  BY CommandInvStep
<1>3. StackInv /\ RemovalInv /\ CommandInv /\ DoneInv /\ [Next]_vars => DoneInv'
  BY DoneInvStep DEF StackInv
<1>4. DoneInv => SuccessMeansDone
  BY DEF DoneInv
<1>5. Spec => []StackInv /\ []RemovalInv /\ []ClosureInv
  BY StackInvariant, RemovalInvariant, ClosureInvariant
<1>6. QED
  BY <1>1, <1>2, <1>3, <1>4, <1>5, PTL DEF Spec
-----------------------------------------------------------------------------
(* What a removal leaves *)

(***************************************************************************)
(* Every step keeps OrderedInv: a package is installed when nobody depends *)
(* on it yet.                                                              *)
(***************************************************************************)
LEMMA OrderedInvStep ==
  ASSUME ClosureInv, OrderedInv, [Next]_vars, ClosureInv', TypeOK'
  PROVE  OrderedInv'
<1> SUFFICES ASSUME NEW T \in SUBSET Installed', T # {}
             PROVE  \E p \in T : \A q \in T : \A k \in DOMAIN packages'[q].deps :
                      packages'[q].deps[k] # p
  BY DEF OrderedInv
<1>1. ASSUME T \subseteq Installed, \A q \in T : packages'[q] = packages[q]
      PROVE  \E p \in T : \A q \in T : \A k \in DOMAIN packages'[q].deps :
               packages'[q].deps[k] # p
  <2>1. PICK p \in T : \A q \in T : \A k \in DOMAIN packages[q].deps :
                         packages[q].deps[k] # p
    BY <1>1 DEF OrderedInv
  <2>2. QED
    BY <1>1, <2>1
<1>2. CASE packages' = packages
  BY <1>1, <1>2 DEF Installed
<1>3. CASE Unregister
  BY <1>1, <1>3 DEF Unregister, Installed
<1>4. CASE Register
  <2>1. /\ Installed' = Installed \cup {Top.name} /\ Top.name \notin Installed
        /\ \A q \in Installed : packages'[q] = packages[q]
    BY <1>4 DEF Register, Installed
  <2>2. CASE Top.name \in T
    <3> SUFFICES ASSUME NEW q \in T, NEW k \in DOMAIN packages'[q].deps
                 PROVE  packages'[q].deps[k] # Top.name
      BY <2>2
    <3>1. CASE q \in Installed
      BY <2>1, <3>1 DEF ClosureInv, DependencyClosed
    <3>2. CASE q = Top.name
      <4>1. packages'[q].deps \in Seq(Package) /\ q \in Installed'
        BY DEF TypeOK
      <4>2. k \in 1 .. Len(packages'[q].deps)
        BY <4>1, LenProperties
      <4>3. QED
        BY <3>2, <4>1, <4>2 DEF ClosureInv, NoSelfDependency
    <3>3. QED
      BY <2>1, <3>1, <3>2
  <2>3. CASE Top.name \notin T
    BY <1>1, <2>1, <2>3
  <2>4. QED
    BY <2>2, <2>3
<1>5. QED
  BY <1>2, <1>3, <1>4, TableChanges

(***************************************************************************)
(* Every step keeps LeftInv: the cleanup ends after a pass that found      *)
(* nothing to remove.                                                      *)
(***************************************************************************)
LEMMA LeftInvStep ==
  ASSUME PassInv, CommandInv, LeftInv, [Next]_vars
  PROVE  LeftInv'
<1> SUFFICES ASSUME pc' = "idle", status' = "success", cmd'.action = "remove"
             PROVE  \A p \in Installed' :
                      packages'[p].reason = Dependency => Needed(p)'
  BY DEF LeftInv, RemoveSucceeded
<1>1. CASE UNCHANGED vars
  BY <1>1 DEF vars, LeftInv, RemoveSucceeded, Needed, Others, Installed
<1>2. CASE CleanupEnds
  <2>1. \A p \in Installed : packages[p].reason = Dependency => Needed(p)
    BY <1>2 DEF CleanupEnds, PassInv
  <2>2. packages' = packages
    BY <1>2 DEF CleanupEnds
  <2>3. QED
    BY <2>1, <2>2 DEF Needed, Others, Installed
<1>3. CASE InstallEnds
  BY <1>3 DEF InstallEnds, Exit, sessionVars, CommandInv
<1>4. CASE RemoveRefused \/ RemovalFails \/ CleanupFails \/ Crash
  BY <1>4 DEF RemoveRefused, RemovalFails, CleanupFails, Crash, Exit
<1>5. CASE Begin
  BY <1>5 DEF Begin, Install, Remove
<1>6. CASE \/ FetchRequested \/ Download \/ DownloadFails \/ InstallDependency
           \/ DependenciesUnreadable \/ DependenciesDone \/ Unpack \/ UnpackFails
           \/ Register \/ RegisterFails \/ PopFromStack \/ ReturnToCaller
  BY <1>6 DEF FetchRequested, Download, DownloadFails, InstallDependency,
              DependenciesUnreadable, DependenciesDone, Unpack, UnpackFails, Register,
              RegisterFails, PopFromStack, ReturnToCaller, Fetch, SkipFetch,
              RejectFetch, EnterFetch
<1>7. CASE \/ RemoveRequested \/ RemoveSpins \/ Erase \/ Unregister \/ NextPass
           \/ \E p \in pending : KeepRow(p) \/ RemoveRow(p) \/ SpinOnRow(p)
  BY <1>7 DEF RemoveRequested, RemoveSpins, Erase, Unregister, NextPass, KeepRow,
              RemoveRow, SpinOnRow, Spin
<1>8. QED
  BY <1>1, <1>2, <1>3, <1>4, <1>5, <1>6, <1>7 DEF Next, FetchStep, RemoveStep

(***************************************************************************)
(* A set that has what was asked for, and what its members need, has       *)
(* everything: outside of it some package would be needed by none of the   *)
(* others there, and so by one inside.                                     *)
(***************************************************************************)
LEMMA LeftAreNeeded ==
  ASSUME OrderedInv, LeftInv
  PROVE  NothingUnneeded
<1> SUFFICES ASSUME RemoveSucceeded, NEW S \in SUBSET Installed,
                    {p \in Installed : packages[p].reason # Dependency} \subseteq S,
                    ClosedUnderDeps(S), S # Installed
             PROVE  FALSE
  BY DEF NothingUnneeded
<1> DEFINE T == Installed \ S
<1>1. PICK p \in T : \A q \in T : \A k \in DOMAIN packages[q].deps :
                       packages[q].deps[k] # p
  BY DEF OrderedInv
<1>2. p \in Installed /\ packages[p].reason = Dependency
  OBVIOUS
<1>3. PICK q \in Installed : \E k \in DOMAIN packages[q].deps : packages[q].deps[k] = p
  BY <1>2 DEF LeftInv, Needed, Others
<1>4. q \in S
  BY <1>1, <1>3
<1>5. p \in S
  BY <1>2, <1>3, <1>4 DEF ClosedUnderDeps
<1>6. QED
  BY <1>5

(***************************************************************************)
(* When packdude -r succeeds nothing is installed but what somebody asked  *)
(* for and what that needs, directly or not (manager_cleanup).             *)
(***************************************************************************)
THEOREM NothingIsLeftOver ==
  ASSUME Acyclic, Faults \cap {"select", "memory"} = {}
  PROVE  Spec => []NothingUnneeded
<1>1. "memory" \notin Faults
  OBVIOUS
<1>2. Init => CommandInv /\ PassInv /\ OrderedInv /\ LeftInv
  <2> SUFFICES ASSUME Init PROVE CommandInv /\ PassInv /\ OrderedInv /\ LeftInv
    OBVIOUS
  <2>1. Len(calls) = 0 /\ pc = "idle" /\ ~cleaning /\ status = "none" /\ Installed = {}
    BY EmptySeq DEF Init, Installed
  <2>2. QED
    BY <2>1 DEF CommandInv, PassInv, OrderedInv, LeftInv, RemoveSucceeded
<1>3. StackInv /\ ClosureInv /\ CommandInv /\ [Next]_vars => CommandInv'
  BY CommandInvStep
<1>4. RemovalInv /\ PassInv /\ [Next]_vars => PassInv'
  BY PassInvStep
<1>5. ClosureInv /\ OrderedInv /\ [Next]_vars /\ ClosureInv' /\ StackInv' => OrderedInv'
  BY OrderedInvStep DEF StackInv
<1>6. PassInv /\ CommandInv /\ LeftInv /\ [Next]_vars => LeftInv'
  BY LeftInvStep
<1>7. OrderedInv /\ LeftInv => NothingUnneeded
  BY LeftAreNeeded
<1>8. Spec => []StackInv /\ []RemovalInv /\ []ClosureInv
  BY <1>1, StackInvariant, RemovalInvariant, ClosureInvariant
<1>9. QED
  BY <1>2, <1>3, <1>4, <1>5, <1>6, <1>7, <1>8, PTL DEF Spec
=============================================================================
