----------------------------- MODULE MemoryProofs -----------------------------
(***************************************************************************)
(* Proofs about Memory: the blocks of manager_fetch and the linked list,   *)
(* for every repository, heap and allocator.                               *)
(***************************************************************************)
EXTENDS Memory, ManagerProofs, FiniteSetTheorems, Induction

-----------------------------------------------------------------------------
(* The inductive invariant *)

Labels == {"none", "free_contents", "pop_from_stack", "free_info"}

Pointer == [block : Block \cup {Null}, token : Nat]

Locals == [name : Pointer, info : Block,
           contents : Block \cup {Null}, deps : Block \cup {Null}]

(***************************************************************************)
(* A frame has its locals until free_info, when it is off the list already *)
(* and what it returns is known.  The loop over its dependencies owns what *)
(* it reads them from while a callee runs; there is nothing to discard     *)
(* where the architecture is refused.                                      *)
(***************************************************************************)
LocalsInv ==
  /\ label \in Labels
  /\ locals \in Seq(Locals)
  /\ Len(locals) = Len(calls) + (IF label = "free_info" THEN 1 ELSE 0)
  /\ label \in {"free_contents", "pop_from_stack"} <=> pc = "pop"
  /\ label = "free_info" => pc = "return"
  /\ \A i \in 1 .. Len(locals) - 1 : locals[i].deps # Null
  /\ locals # <<>> /\ Mine.deps # Null => label = "none" /\ pc \in {"deps", "return"}
  /\ pc = "download" /\ Mine.contents # Null => Compatible(Top.name)

(***************************************************************************)
(* The list, given its nodes in order, is that of the frames' names.  Each *)
(* name is a token of the caller's "deps" block, or argv.                  *)
(***************************************************************************)
ListInv(node) ==
  /\ DOMAIN heap = Block
  /\ head = IF calls = <<>> THEN Null ELSE node[1]
  /\ \A i, j \in 1 .. Len(calls) : node[i] = node[j] => i = j
  /\ \A i \in 1 .. Len(calls) :
       /\ heap[node[i]] =
            Node(locals[i].name, IF i = Len(calls) THEN Null ELSE node[i + 1])
       /\ locals[i].deps # Null => heap[locals[i].deps] = DepsOf(calls[i].name)
       /\ IF i = 1 THEN locals[i].name = Argv /\ calls[i].name = cmd.name
                   ELSE /\ locals[i].name.block = locals[i - 1].deps
                        /\ Deps(calls[i - 1])[locals[i].name.token] = calls[i].name

(***************************************************************************)
(* The books: who holds which block.  What a frame holds of each kind is   *)
(* one slot, the recursion being no deeper than there are packages.        *)
(***************************************************************************)
Slot == (1 .. Cardinality(Package) + 1) \X {"info", "deps", "data", "node"}

Held(node) ==
  [s \in Slot |->
     CASE s[2] = "node" /\ s[1] <= Len(calls)  -> node[s[1]]
       [] s[2] = "info" /\ s[1] <= Len(locals) -> locals[s[1]].info
       [] s[2] = "deps" /\ s[1] <= Len(locals) -> locals[s[1]].deps
       [] s[2] = "data" /\ s[1] <= Len(locals) /\ ~Discarded(s[1]) ->
            locals[s[1]].contents
       [] OTHER -> Null]

Balanced(h, held) ==
  /\ \A s \in Slot : held[s] # Null => held[s] \in Block /\ h[held[s]].kind = s[2]
  /\ \A s, t \in Slot : held[s] = held[t] /\ held[s] # Null => s = t
  /\ \A b \in Block : h[b] # Unused => \E s \in Slot : held[s] = b

MemoryInv ==
  /\ LocalsInv
  /\ OnlyAppendFreesTwice
  /\ \E node \in [1 .. Len(calls) -> Block] :
       /\ ListInv(node)
       /\ fault = "none" => Balanced(heap, Held(node))

-----------------------------------------------------------------------------
(* Pigeonholes. *)

LEMMA NoMoreThan ==
  ASSUME NEW S, IsFiniteSet(S), NEW n \in Nat, NEW f \in [1 .. n -> S],
         \A i, j \in 1 .. n : f[i] = f[j] => i = j
  PROVE  n <= Cardinality(S)
<1>1. f \in Injection(1 .. n, S)
  BY DEF Injection, IsInjective
<1>2. Cardinality(1 .. n) = n
  BY FS_Interval
<1> QED
  BY <1>1, <1>2, FS_Injection

-----------------------------------------------------------------------------
(* The linked list of stack.c. *)

IsListFrom(start, node, n) ==
  /\ start = IF n = 0 THEN Null ELSE node[1]
  /\ \A i \in 1 .. n :
       /\ IsLive(node[i]) /\ heap[node[i]].kind = "node"
       /\ heap[node[i]].next = IF i = n THEN Null ELSE node[i + 1]

(***************************************************************************)
(* A walk meets the nodes of a list in order, and then NULL.               *)
(***************************************************************************)
LEMMA WalkIsList ==
  ASSUME NEW n \in 0 .. MaxBlocks, NEW node \in [1 .. n -> Block],
         NEW start, IsListFrom(start, node, n)
  PROVE  \A k \in 0 .. MaxBlocks :
           Walk(start)[k] = IF k < n THEN node[k + 1] ELSE Null
<1> DEFINE D == 0 .. MaxBlocks
           g == [k \in D |-> IF k < n THEN node[k + 1] ELSE Null]
           Step(f) == [k \in D |-> IF k = 0 THEN start ELSE NextNode(f[k - 1])]
           w == Walk(start)
<1>1. MaxBlocks \in Nat
  BY MemoryAssumption
<1>2. g = Step(g)
  <2>1. ASSUME NEW k \in D
        PROVE  g[k] = Step(g)[k]
    <3>1. CASE k = 0
      BY <1>1, <3>1 DEF IsListFrom
    <3>2. CASE k # 0 /\ k - 1 < n
      <4>1. k - 1 \in D /\ k \in 1 .. n /\ g[k - 1] = node[k]
        BY <1>1, <3>2
      <4>2. NextNode(node[k]) = IF k = n THEN Null ELSE node[k + 1]
        BY <4>1 DEF NextNode, IsListFrom
      <4> QED
        BY <1>1, <3>2, <4>1, <4>2
    <3>3. CASE k # 0 /\ ~(k - 1 < n)
      <4>1. k - 1 \in D /\ g[k - 1] = Null /\ ~(k < n)
        BY <1>1, <3>3
      <4>2. NextNode(Null) = Null
        BY <1>1 DEF NextNode, IsLive, Block, Null
      <4> QED
        BY <1>1, <3>3, <4>1, <4>2
    <3> QED
      BY <3>1, <3>2, <3>3
  <2> HIDE DEF g
  <2>2. g = [k \in D |-> g[k]]
    BY DEF g
  <2> QED
    BY <2>1, <2>2
<1>3. w = Step(w)
  <2> HIDE DEF g
  <2>1. w = CHOOSE f : f = Step(f)
    BY DEF Walk
  <2> QED
    BY <1>2, <2>1
<1> HIDE DEF w, g
<1>4. ASSUME NEW k \in D, w[k] # g[k]
      PROVE  FALSE
  <2> DEFINE T == {j \in D : w[j] # g[j]}
  <2>0. T \subseteq Nat /\ k \in T
    BY <1>1, <1>4
  <2> HIDE DEF T
  <2>1. PICK m \in T : \A j \in T : m <= j
    BY <2>0, Smallest
  <2> USE DEF T
  <2>2. m # 0
    BY <1>1, <1>2, <1>3, <2>1
  <2>3. m - 1 \in D /\ m - 1 \notin T
    BY <1>1, <2>1, <2>2
  <2>4. w[m - 1] = g[m - 1]
    BY <2>3
  <2>5. w[m] = NextNode(w[m - 1]) /\ g[m] = NextNode(g[m - 1])
    BY <1>2, <1>3, <2>1, <2>2
  <2> QED
    BY <2>1, <2>4, <2>5
<1> QED
  BY <1>4 DEF w, g

(***************************************************************************)
(* _get_last and _get_before_last find what their names say.               *)
(***************************************************************************)
LEMMA LastNodes ==
  ASSUME NEW n \in 1 .. MaxBlocks, NEW node \in [1 .. n -> Block],
         \A i, j \in 1 .. n : node[i] = node[j] => i = j,
         NEW start, IsListFrom(start, node, n)
  PROVE  /\ GetLast(start) = node[n]
         /\ n > 1 => GetBeforeLast(start) = node[n - 1]
<1> DEFINE w == Walk(start)
<1>1. MaxBlocks \in Nat /\ n \in 0 .. MaxBlocks /\ Null \notin Block
  BY MemoryAssumption DEF Null, Block
<1>2. \A k \in 0 .. MaxBlocks : w[k] = IF k < n THEN node[k + 1] ELSE Null
  BY <1>1, WalkIsList
<1>3. \A i \in 1 .. n : NextNode(node[i]) = IF i = n THEN Null ELSE node[i + 1]
  BY DEF NextNode, IsListFrom
<1> HIDE DEF w
<1>4. ASSUME NEW m \in 1 .. n, NEW end, end = IF m = n THEN Null ELSE node[m + 1]
      PROVE  GetPrevious(start, end) = node[m]
  <2> DEFINE At(k) == w[k] # Null /\ NextNode(w[k]) = end
  <2>1. ASSUME NEW k \in 0 .. MaxBlocks
        PROVE  At(k) <=> k = m - 1
    <3>1. CASE k < n
      <4>1. w[k] = node[k + 1] /\ k + 1 \in 1 .. n /\ w[k] # Null
        BY <1>1, <1>2, <3>1
      <4>2. NextNode(w[k]) = IF k + 1 = n THEN Null ELSE node[k + 1 + 1]
        BY <1>3, <4>1
      <4>3. k + 1 # n => k + 1 + 1 \in 1 .. n /\ node[k + 1 + 1] # Null
        BY <1>1, <3>1
      <4>4. m # n => m + 1 \in 1 .. n /\ node[m + 1] # Null
        BY <1>1
      <4> QED
        BY <1>1, <1>4, <3>1, <4>1, <4>2, <4>3, <4>4
    <3>2. CASE ~(k < n)
      BY <1>1, <1>2, <3>2
    <3> QED
      BY <3>1, <3>2
  <2> HIDE DEF At
  <2>2. (CHOOSE k \in 0 .. MaxBlocks : At(k) /\ \A j \in 0 .. k - 1 : ~At(j)) = m - 1
    BY <1>1, <2>1
  <2>3. GetPrevious(start, end) = w[m - 1]
    BY <2>2 DEF GetPrevious, At, w
  <2> QED
    BY <1>1, <1>2, <2>3
<1>5. GetLast(start) = node[n]
  BY <1>4 DEF GetLast
<1>6. n > 1 => GetPrevious(start, node[n]) = node[n - 1]
  BY <1>1, <1>4
<1> QED
  BY <1>5, <1>6 DEF GetLast, GetBeforeLast

-----------------------------------------------------------------------------
(* The books. *)

(***************************************************************************)
(* The recursion is no deeper than there are packages, so that there is a  *)
(* slot for whatever a frame holds, and no deeper than there are blocks.   *)
(***************************************************************************)
LEMMA Depth ==
  ASSUME StackInv, LocalsInv
  PROVE  /\ Cardinality(Package) \in Nat
         /\ Len(calls) \in 0 .. Cardinality(Package)
         /\ Len(locals) \in Len(calls) .. Cardinality(Package) + 1
         /\ \A i \in 1 .. Len(calls) : calls[i].name \in Package
         /\ \A i \in 1 .. Len(locals) : locals[i] \in Locals
         /\ \A i, j \in 1 .. Len(calls) : calls[i].name = calls[j].name => i = j
<1>1. /\ calls \in Seq(Frame) /\ Len(calls) \in Nat /\ DOMAIN calls = 1 .. Len(calls)
      /\ IsFiniteSet(Package) /\ Cardinality(Package) \in Nat
  BY LenProperties, ConstantsAssumption, FS_CardinalityType DEF StackInv, TypeOK
<1>2. \A i \in 1 .. Len(calls) : calls[i].name \in Package
  <2>1. \A i \in 1 .. Len(calls) : calls[i] \in Frame
    BY <1>1, ElementOfSeq
  <2> QED
    BY <2>1 DEF Frame
<1>3. \A i, j \in 1 .. Len(calls) : calls[i].name = calls[j].name => i = j
  BY <1>1 DEF StackInv, StackMatchesCalls
<1>4. Len(calls) <= Cardinality(Package)
  <2> DEFINE f == [i \in 1 .. Len(calls) |-> calls[i].name]
  <2>1. f \in [1 .. Len(calls) -> Package] /\ \A i, j \in 1 .. Len(calls) : f[i] = f[j] => i = j
    BY <1>2, <1>3
  <2> HIDE DEF f
  <2> QED
    BY <1>1, <2>1, NoMoreThan
<1>5. \A i \in 1 .. Len(locals) : locals[i] \in Locals
  BY ElementOfSeq DEF LocalsInv
<1> QED
  BY <1>1, <1>2, <1>3, <1>4, <1>5 DEF LocalsInv

NodeAt(node, i) == IF i <= Len(calls) THEN node[i] ELSE Null
InfoAt(i) == IF i <= Len(locals) THEN locals[i].info ELSE Null
DepsAt(i) == IF i <= Len(locals) THEN locals[i].deps ELSE Null
DataAt(i) == IF i <= Len(locals) /\ ~Discarded(i) THEN locals[i].contents ELSE Null

LEMMA HeldAt ==
  ASSUME NEW node, NEW i \in 1 .. Cardinality(Package) + 1
  PROVE  /\ Held(node)[<<i, "node">>] = NodeAt(node, i)
         /\ Held(node)[<<i, "info">>] = InfoAt(i)
         /\ Held(node)[<<i, "deps">>] = DepsAt(i)
         /\ Held(node)[<<i, "data">>] = DataAt(i)
BY DEF Held, Slot, NodeAt, InfoAt, DepsAt, DataAt

Slots(i) == {<<i, "node">>, <<i, "info">>, <<i, "deps">>, <<i, "data">>}

LEMMA SlotOf ==
  ASSUME NEW s \in Slot
  PROVE  \E i \in 1 .. Cardinality(Package) + 1 : s \in Slots(i)
BY DEF Slot, Slots

(***************************************************************************)
(* A step that changes what is in one slot, or in none.                    *)
(***************************************************************************)
SlotBecomes(node, next, s, b) ==
  \A i \in 1 .. Cardinality(Package) + 1 :
    /\ NodeAt(next, i)' = IF s = <<i, "node">> THEN b ELSE NodeAt(node, i)
    /\ InfoAt(i)' = IF s = <<i, "info">> THEN b ELSE InfoAt(i)
    /\ DepsAt(i)' = IF s = <<i, "deps">> THEN b ELSE DepsAt(i)
    /\ DataAt(i)' = IF s = <<i, "data">> THEN b ELSE DataAt(i)

LEMMA HeldChange ==
  ASSUME NEW node, NEW next, NEW s, NEW b, SlotBecomes(node, next, s, b),
         NEW t \in Slot
  PROVE  Held(next)'[t] = IF t = s THEN b ELSE Held(node)[t]
<1>1. PICK i \in 1 .. Cardinality(Package) + 1 : t \in Slots(i)
  BY SlotOf
<1>2. /\ Held(node)[<<i, "node">>] = NodeAt(node, i)
      /\ Held(node)[<<i, "info">>] = InfoAt(i)
      /\ Held(node)[<<i, "deps">>] = DepsAt(i)
      /\ Held(node)[<<i, "data">>] = DataAt(i)
  BY HeldAt
<1>3. /\ Held(next)'[<<i, "node">>] = NodeAt(next, i)'
      /\ Held(next)'[<<i, "info">>] = InfoAt(i)'
      /\ Held(next)'[<<i, "deps">>] = DepsAt(i)'
      /\ Held(next)'[<<i, "data">>] = DataAt(i)'
  BY DEF Held, Slot, NodeAt, InfoAt, DepsAt, DataAt
<1> QED
  BY <1>1, <1>2, <1>3 DEF Slots, SlotBecomes

(***************************************************************************)
(* Between these two heaps no block but b was taken or given back.         *)
(***************************************************************************)
SameBut(h, k, b) ==
  \A c \in Block \ {b} : (k[c] = Unused <=> h[c] = Unused) /\ k[c].kind = h[c].kind

LEMMA BooksStay ==
  ASSUME NEW h, NEW held, NEW k, NEW kept,
         Balanced(h, held), SameBut(h, k, Null),
         \A t \in Slot : kept[t] = held[t]
  PROVE  Balanced(k, kept)
<1>1. Null \notin Block
  BY MemoryAssumption DEF Null, Block
<1> QED
  BY <1>1 DEF Balanced, SameBut

LEMMA BooksAllocate ==
  ASSUME NEW h, NEW held, NEW k, NEW kept,
         Balanced(h, held),
         NEW s \in Slot, held[s] = Null, NEW b \in Block, h[b] = Unused,
         SameBut(h, k, b), k[b].kind = s[2],
         \A t \in Slot : kept[t] = IF t = s THEN b ELSE held[t]
  PROVE  Balanced(k, kept)
<1>1. Null \notin Block /\ Unused.kind = "unused" /\ s[2] # "unused"
  BY MemoryAssumption DEF Null, Block, Unused, Slot
<1>2. \A t \in Slot : held[t] # b
  BY <1>1 DEF Balanced, Slot
<1>3. ASSUME NEW t \in Slot, kept[t] # Null
      PROVE  kept[t] \in Block /\ k[kept[t]].kind = t[2]
  BY <1>2, <1>3 DEF Balanced, SameBut
<1>4. ASSUME NEW t \in Slot, NEW u \in Slot, kept[t] = kept[u], kept[t] # Null
      PROVE  t = u
  BY <1>2, <1>4 DEF Balanced
<1>5. ASSUME NEW c \in Block, k[c] # Unused
      PROVE  \E t \in Slot : kept[t] = c
  <2>1. CASE c = b
    BY <2>1
  <2>2. CASE c # b
    <3>1. PICK t \in Slot : held[t] = c
      BY <1>5, <2>2 DEF Balanced, SameBut
    <3> QED
      BY <1>1, <3>1
  <2> QED
    BY <2>1, <2>2
<1> QED
  BY <1>3, <1>4, <1>5 DEF Balanced

LEMMA BooksRelease ==
  ASSUME NEW h, NEW held, NEW k, NEW kept,
         Balanced(h, held),
         NEW s \in Slot, held[s] # Null => k[held[s]] = Unused,
         SameBut(h, k, held[s]),
         \A t \in Slot : kept[t] = IF t = s THEN Null ELSE held[t]
  PROVE  Balanced(k, kept)
<1>1. Null \notin Block
  BY MemoryAssumption DEF Null, Block
<1>2. ASSUME NEW t \in Slot, kept[t] # Null
      PROVE  /\ kept[t] = held[t] /\ held[t] # held[s] /\ kept[t] \in Block
             /\ k[kept[t]].kind = t[2]
  BY <1>2 DEF Balanced, SameBut
<1>3. ASSUME NEW c \in Block, k[c] # Unused
      PROVE  \E t \in Slot : kept[t] = c
  <2>1. c # held[s]
    BY <1>1, <1>3
  <2>2. PICK t \in Slot : held[t] = c
    BY <1>3, <2>1 DEF Balanced, SameBut
  <2> QED
    BY <2>1, <2>2
<1>4. \A t, u \in Slot : kept[t] = kept[u] /\ kept[t] # Null => t = u
  BY <1>2 DEF Balanced
<1> QED
  BY <1>2, <1>3, <1>4 DEF Balanced

-----------------------------------------------------------------------------
(* What the inductive invariant says of the list and of the blocks. *)

LEMMA NodeFields ==
  ASSUME NEW data, NEW next
  PROVE  /\ Node(data, next).kind = "node" /\ Node(data, next) # Unused
         /\ Node(data, next).data = data /\ Node(data, next).next = next
BY DEF Node, Unused

LEMMA InvFacts ==
  ASSUME StackInv, LocalsInv, NEW node \in [1 .. Len(calls) -> Block], ListInv(node)
  PROVE  /\ Len(calls) \in 0 .. MaxBlocks
         /\ IsListFrom(head, node, Len(calls))
         /\ \A i \in 1 .. Len(calls) : heap[node[i]].kind = "node" /\ node[i] # Null
<1>1. MaxBlocks \in Nat /\ Null \notin Block
  BY MemoryAssumption DEF Null, Block
<1>2. Len(calls) \in Nat /\ (calls = <<>> <=> Len(calls) = 0)
  BY EmptySeq DEF StackInv, TypeOK
<1>3. Len(calls) <= MaxBlocks
  <2>1. IsFiniteSet(Block) /\ Cardinality(Block) = MaxBlocks
    BY <1>1, FS_Interval DEF Block
  <2>2. PICK n : n = Len(calls)
    OBVIOUS
  <2>3. /\ n \in Nat /\ node \in [1 .. n -> Block]
        /\ \A i, j \in 1 .. n : node[i] = node[j] => i = j
    BY <1>2, <2>2 DEF ListInv
  <2>4. n <= Cardinality(Block)
    BY ONLY <2>1, <2>3, NoMoreThan
  <2> QED
    BY <2>1, <2>2, <2>4
<1>4. ASSUME NEW i \in 1 .. Len(calls)
      PROVE  /\ heap[node[i]].kind = "node" /\ IsLive(node[i])
             /\ heap[node[i]].next = IF i = Len(calls) THEN Null ELSE node[i + 1]
  <2>1. heap[node[i]] = Node(locals[i].name, IF i = Len(calls) THEN Null ELSE node[i + 1])
    BY DEF ListInv
  <2>2. node[i] \in Block
    OBVIOUS
  <2> QED
    BY <2>1, <2>2, NodeFields DEF IsLive
<1>5. head = IF Len(calls) = 0 THEN Null ELSE node[1]
  BY <1>2 DEF ListInv
<1> QED
  BY <1>1, <1>2, <1>3, <1>4, <1>5 DEF IsListFrom

LEMMA ListFollows ==
  ASSUME StackInv, MemoryInv
  PROVE  ListIsStack
<1>1. PICK node \in [1 .. Len(calls) -> Block] : ListInv(node)
  BY DEF MemoryInv
<1>2. /\ Len(calls) \in 0 .. MaxBlocks /\ MaxBlocks \in Nat /\ Len(inst_stack) = Len(calls)
      /\ IsListFrom(head, node, Len(calls))
  BY <1>1, InvFacts, MemoryAssumption DEF MemoryInv, StackInv, StackMatchesCalls
<1>3. \A k \in 0 .. MaxBlocks :
        Walk(head)[k] = IF k < Len(calls) THEN node[k + 1] ELSE Null
  BY <1>2, WalkIsList
<1>4. DOMAIN inst_stack = 1 .. Len(calls) /\ DOMAIN calls = 1 .. Len(calls)
  BY <1>2, LenProperties DEF StackInv, TypeOK
<1>5. ASSUME NEW k \in 1 .. Len(calls)
      PROVE  /\ Walk(head)[k - 1] = node[k]
             /\ node[k] # Null /\ IsLive(node[k]) /\ heap[node[k]].kind = "node"
             /\ StringAt(heap[node[k]].data) = inst_stack[k]
  <2>1. Walk(head)[k - 1] = node[k]
    BY <1>2, <1>3
  <2>2. /\ IsLive(node[k]) /\ heap[node[k]].kind = "node" /\ node[k] # Null
        /\ heap[node[k]].data = locals[k].name
    <3>1. heap[node[k]].data = locals[k].name
      BY <1>1, NodeFields DEF ListInv
    <3> QED
      BY <1>1, <1>2, <3>1, InvFacts DEF IsListFrom, MemoryInv
  <2>3. inst_stack[k] = calls[k].name
    BY <1>4 DEF StackInv, StackMatchesCalls
  <2>4. CASE k = 1
    <3>1. locals[k].name = Argv /\ calls[k].name = cmd.name
      BY <1>1, <2>4 DEF ListInv
    <3> QED
      BY <2>1, <2>2, <2>3, <3>1, MemoryAssumption DEF StringAt, Argv, IsLive, Block, Null
  <2>5. CASE k # 1
    <3> DEFINE b == locals[k - 1].deps
    <3>1. k - 1 \in 1 .. Len(calls) /\ k - 1 \in 1 .. Len(locals) - 1
      BY <1>2, <2>5, Depth DEF MemoryInv
    <3>2. b # Null /\ b \in Block
      BY <3>1, Depth DEF MemoryInv, LocalsInv, Locals
    <3>3. heap[b] = DepsOf(calls[k - 1].name)
      BY <1>1, <3>1, <3>2 DEF ListInv
    <3>4. /\ IsLive(b) /\ heap[b].kind = "deps" /\ heap[b].of = calls[k - 1].name
      BY <3>2, <3>3 DEF IsLive, DepsOf, Unused
    <3>5. /\ locals[k].name.block = b
          /\ Deps(calls[k - 1])[locals[k].name.token] = calls[k].name
      BY <1>1, <2>5 DEF ListInv
    <3>6. locals[k].name # Argv
      BY <3>2, <3>5 DEF Argv
    <3>7. StringAt(locals[k].name) = calls[k].name
      BY <3>4, <3>5, <3>6 DEF StringAt, Deps
    <3> QED
      BY <2>1, <2>2, <2>3, <3>7
  <2> QED
    BY <2>4, <2>5
<1>6. Walk(head)[Len(calls)] = Null
  BY <1>2, <1>3
<1> QED
  BY <1>2, <1>4, <1>5, <1>6 DEF ListIsStack

LEMMA OwnersFollow ==
  ASSUME StackInv, MemoryInv
  PROVE  OneOwnerEach
<1> SUFFICES ASSUME fault = "none"
             PROVE  /\ \A o \in Owners : o[1] # Null => IsLive(o[1]) /\ heap[o[1]].kind = o[2]
                    /\ \A b \in Block : IsLive(b) => <<b, heap[b].kind>> \in Owners
                    /\ \A i, j \in DOMAIN locals :
                         i # j => \A o \in Owns(i) \cap Owns(j) : o[1] = Null
  BY DEF OneOwnerEach
<1>1. PICK node \in [1 .. Len(calls) -> Block] : ListInv(node) /\ Balanced(heap, Held(node))
  BY DEF MemoryInv
<1> DEFINE held == Held(node)
           Position == 1 .. Cardinality(Package) + 1
<1>2. /\ Len(calls) \in 0 .. MaxBlocks /\ MaxBlocks \in Nat
      /\ IsListFrom(head, node, Len(calls))
      /\ Null \notin Block
  BY <1>1, InvFacts, MemoryAssumption DEF MemoryInv, Null, Block
<1>3. /\ Len(calls) \in 0 .. Cardinality(Package) /\ Cardinality(Package) \in Nat
      /\ Len(locals) \in 0 .. Cardinality(Package) + 1 /\ DOMAIN locals = 1 .. Len(locals)
  BY Depth, LenProperties DEF MemoryInv, LocalsInv
<1>4. ListNodes = {node[i] : i \in 1 .. Len(calls)}
  <2>1. \A k \in 0 .. MaxBlocks :
          Walk(head)[k] = IF k < Len(calls) THEN node[k + 1] ELSE Null
    BY <1>2, WalkIsList
  <2>2. ASSUME NEW b \in ListNodes
        PROVE  \E i \in 1 .. Len(calls) : b = node[i]
    <3>1. PICK k \in 0 .. MaxBlocks : b = Walk(head)[k] /\ b # Null
      BY DEF ListNodes
    <3>2. k + 1 \in 1 .. Len(calls) /\ b = node[k + 1]
      BY <1>2, <2>1, <3>1
    <3> QED
      BY <3>2
  <2>3. ASSUME NEW i \in 1 .. Len(calls)
        PROVE  node[i] \in ListNodes
    <3>1. i - 1 \in 0 .. MaxBlocks /\ Walk(head)[i - 1] = node[i] /\ node[i] # Null
      BY <1>2, <2>1
    <3> QED
      BY <3>1 DEF ListNodes
  <2> QED
    BY <2>2, <2>3
<1>5. \A i \in Position :
        /\ held[<<i, "node">>] = IF i <= Len(calls) THEN node[i] ELSE Null
        /\ held[<<i, "info">>] = IF i <= Len(locals) THEN locals[i].info ELSE Null
        /\ held[<<i, "deps">>] = IF i <= Len(locals) THEN locals[i].deps ELSE Null
        /\ held[<<i, "data">>] = IF i <= Len(locals) /\ ~Discarded(i)
                                   THEN locals[i].contents ELSE Null
  BY HeldAt DEF NodeAt, InfoAt, DepsAt, DataAt
<1>6. \A i \in Position : Slots(i) \subseteq Slot
  BY DEF Slot, Slots
<1> HIDE DEF held, Position
<1>7. 1 .. Len(locals) \subseteq Position /\ 1 .. Len(calls) \subseteq Position
  BY <1>3 DEF Position
<1>8. Balanced(heap, held)
  BY <1>1 DEF held
<1>9. ASSUME NEW i \in DOMAIN locals, NEW o \in Owns(i), o[1] # Null
      PROVE  <<i, o[2]>> \in Slots(i) /\ held[<<i, o[2]>>] = o[1]
  <2>1. /\ held[<<i, "info">>] = locals[i].info /\ held[<<i, "deps">>] = locals[i].deps
        /\ ~Discarded(i) => held[<<i, "data">>] = locals[i].contents
    <3>1. i \in Position /\ i <= Len(locals)
      BY <1>3, <1>7
    <3> QED
      BY <1>5, <3>1
  <2>2. \/ o = <<locals[i].info, "info">> \/ o = <<locals[i].deps, "deps">>
        \/ ~Discarded(i) /\ o = <<locals[i].contents, "data">>
    BY DEF Owns
  <2> QED
    BY <2>1, <2>2 DEF Slots
<1>10. ASSUME NEW i \in 1 .. Len(calls)
       PROVE  <<i, "node">> \in Slots(i) /\ held[<<i, "node">>] = node[i]
  <2>1. i \in Position /\ i <= Len(calls)
    BY <1>3, <1>7
  <2> QED
    BY <1>5, <2>1 DEF Slots
<1>11. ASSUME NEW o \in Owners, o[1] # Null
       PROVE  IsLive(o[1]) /\ heap[o[1]].kind = o[2]
  <2>1. \E s \in Slot : held[s] = o[1] /\ s[2] = o[2] /\ s[2] # "unused"
    <3>1. CASE \E i \in 1 .. Len(calls) : o = <<node[i], "node">>
      <4>1. PICK i \in 1 .. Len(calls) : o = <<node[i], "node">>
        BY <3>1
      <4>2. <<i, "node">> \in Slot /\ held[<<i, "node">>] = node[i]
        BY <1>6, <1>7, <1>10
      <4> QED
        BY <4>1, <4>2
    <3>2. CASE \E i \in DOMAIN locals : o \in Owns(i)
      <4>1. PICK i \in DOMAIN locals : o \in Owns(i)
        BY <3>2
      <4>2. <<i, o[2]>> \in Slot /\ o[2] # "unused"
        BY <1>3, <1>6, <1>7, <1>9, <1>11, <4>1 DEF Owns
      <4> QED
        BY <1>9, <1>11, <4>1, <4>2
    <3> QED
      BY <1>4, <3>1, <3>2 DEF Owners
  <2> QED
    BY <1>8, <1>11, <2>1 DEF Balanced, IsLive, Unused
<1>12. ASSUME NEW b \in Block, IsLive(b)
       PROVE  <<b, heap[b].kind>> \in Owners
  <2>1. PICK s \in Slot : held[s] = b
    BY <1>8, <1>12 DEF Balanced, IsLive
  <2>2. heap[b].kind = s[2] /\ b # Null
    BY <1>2, <1>8, <2>1 DEF Balanced
  <2>3. PICK i \in Position : s \in Slots(i)
    BY SlotOf DEF Position
  <2>4. CASE s = <<i, "node">>
    <3>1. i \in 1 .. Len(calls) /\ b = node[i]
      <4>1. held[<<i, "node">>] = IF i <= Len(calls) THEN node[i] ELSE Null
        BY <1>5
      <4>2. i <= Len(calls) /\ b = node[i]
        BY <2>1, <2>2, <2>4, <4>1
      <4> QED
        BY <1>3, <4>2 DEF Position
    <3>2. b \in ListNodes /\ heap[b].kind = "node"
      BY <1>4, <2>2, <2>4, <3>1
    <3> QED
      BY <3>2 DEF Owners
  <2>5. CASE s # <<i, "node">>
    <3>1. i \in DOMAIN locals /\ <<b, s[2]>> \in Owns(i)
      <4>1. s \in {<<i, "info">>, <<i, "deps">>, <<i, "data">>}
        BY <2>3, <2>5 DEF Slots
      <4>2. i <= Len(locals) /\ (s[2] = "data" => ~Discarded(i))
        <5>1. /\ held[<<i, "info">>] = IF i <= Len(locals) THEN locals[i].info ELSE Null
              /\ held[<<i, "deps">>] = IF i <= Len(locals) THEN locals[i].deps ELSE Null
              /\ held[<<i, "data">>] = IF i <= Len(locals) /\ ~Discarded(i)
                                         THEN locals[i].contents ELSE Null
          BY <1>5
        <5>2. CASE s = <<i, "info">>
          BY <2>1, <2>2, <5>1, <5>2
        <5>3. CASE s = <<i, "deps">>
          BY <2>1, <2>2, <5>1, <5>3
        <5>4. CASE s = <<i, "data">>
          BY <2>1, <2>2, <5>1, <5>4
        <5> QED
          BY <4>1, <5>2, <5>3, <5>4
      <4>3. i \in DOMAIN locals
        BY <1>3, <4>2 DEF Position
      <4>4. CASE s = <<i, "info">>
        BY <1>5, <2>1, <4>2, <4>3, <4>4 DEF Owns
      <4>5. CASE s = <<i, "deps">>
        BY <1>5, <2>1, <4>2, <4>3, <4>5 DEF Owns
      <4>6. CASE s = <<i, "data">>
        BY <1>5, <2>1, <4>2, <4>3, <4>6 DEF Owns
      <4> QED
        BY <4>1, <4>4, <4>5, <4>6
    <3> QED
      BY <2>2, <3>1 DEF Owners
  <2> QED
    BY <2>4, <2>5
<1>13. ASSUME NEW i \in DOMAIN locals, NEW j \in DOMAIN locals, i # j,
              NEW o \in Owns(i) \cap Owns(j)
       PROVE  o[1] = Null
  <2> SUFFICES ASSUME o[1] # Null
               PROVE  FALSE
    OBVIOUS
  <2>1. held[<<i, o[2]>>] = o[1] /\ held[<<j, o[2]>>] = o[1]
    BY <1>9
  <2>2. <<i, o[2]>> \in Slot /\ <<j, o[2]>> \in Slot
    BY <1>3, <1>6, <1>7, <1>9
  <2>3. <<i, o[2]>> = <<j, o[2]>>
    BY <1>8, <2>1, <2>2 DEF Balanced
  <2> QED
    BY <1>13, <2>3
<1> QED
  BY <1>11, <1>12, <1>13

-----------------------------------------------------------------------------
(* Steps. *)

(***************************************************************************)
(* Memory adds blocks to the manager, and no behaviour.                    *)
(***************************************************************************)
LEMMA ManagerAllows ==
  ASSUME [MemoryNext]_memoryVars
  PROVE  [Next]_vars
<1>1. CASE InstallBegins \/ FetchBegins \/ DependencyBegins
  BY <1>1 DEF InstallBegins, FetchBegins, DependencyBegins, Next, FetchStep
<1>2. CASE Append_to_buffer \/ AppendFails \/ TransferFails \/ WrongArchitecture
           \/ PackageRejected \/ PackageAccepted
  BY <1>2 DEF Append_to_buffer, AppendFails, TransferFails, WrongArchitecture,
              PackageRejected, PackageAccepted, Next, FetchStep
<1>3. CASE DependenciesRead \/ DependenciesMissing \/ LoopEnds \/ DependencyReturns
           \/ FilesUnpacked \/ BodyEnds
  BY <1>3 DEF DependenciesRead, DependenciesMissing, LoopEnds, DependencyReturns,
              FilesUnpacked, BodyEnds, Next, FetchStep
<1>4. CASE FreeContents \/ PopNode \/ FreeInfo \/ ProcessEnds
  BY <1>4 DEF FreeContents, PopNode, FreeInfo, ProcessEnds, Next, FetchStep
<1> QED
  BY <1>1, <1>2, <1>3, <1>4 DEF MemoryNext, memoryVars

(***************************************************************************)
(* A step that changes neither the nodes nor the frames' names, and of the *)
(* frames' dependencies only the innermost, keeps the list.                *)
(***************************************************************************)
LEMMA ListStays ==
  ASSUME StackInv, StackInv', NEW node \in [1 .. Len(calls) -> Block], ListInv(node),
         DOMAIN heap' = Block, head' = head, Len(calls') = Len(calls),
         calls # <<>> => avail' = avail /\ cmd' = cmd,
         \A i \in 1 .. Len(calls) :
           /\ calls'[i].name = calls[i].name
           /\ heap'[node[i]] = heap[node[i]]
           /\ locals'[i].name = locals[i].name
           /\ i < Len(calls) => locals'[i].deps = locals[i].deps
           /\ locals'[i].deps # Null => heap'[locals'[i].deps] = DepsOf(calls[i].name)
  PROVE  ListInv(node)'
<1>1. /\ Len(calls) \in Nat /\ (calls = <<>> <=> Len(calls) = 0)
      /\ (calls' = <<>> <=> Len(calls') = 0)
  BY EmptySeq DEF StackInv, TypeOK
<1>2. head' = IF calls' = <<>> THEN Null ELSE node[1]
  BY <1>1 DEF ListInv
<1>3. \A i, j \in 1 .. Len(calls') : node[i] = node[j] => i = j
  BY DEF ListInv
<1>4. ASSUME NEW i \in 1 .. Len(calls)
      PROVE  /\ heap'[node[i]] =
                  Node(locals'[i].name, IF i = Len(calls') THEN Null ELSE node[i + 1])
             /\ locals'[i].deps # Null => heap'[locals'[i].deps] = DepsOf(calls'[i].name)
  BY DEF ListInv
<1>5. ASSUME NEW i \in 1 .. Len(calls), i = 1
      PROVE  locals'[i].name = Argv /\ calls'[i].name = cmd'.name
  BY <1>1, <1>5 DEF ListInv
<1>6. ASSUME NEW i \in 1 .. Len(calls), i # 1
      PROVE  /\ locals'[i].name.block = locals'[i - 1].deps
             /\ avail'[calls'[i - 1].name].deps[locals'[i].name.token] = calls'[i].name
  <2>1. i - 1 \in 1 .. Len(calls) /\ i - 1 < Len(calls)
    BY <1>1, <1>6
  <2>2. /\ locals[i].name.block = locals[i - 1].deps
        /\ avail[calls[i - 1].name].deps[locals[i].name.token] = calls[i].name
    BY <1>6 DEF ListInv, Deps
  <2> QED
    BY <1>1, <2>1, <2>2
<1> QED
  BY <1>2, <1>3, <1>4, <1>5, <1>6 DEF ListInv, Deps

(***************************************************************************)
(* A step that moves the process on, but leaves the heap alone and gives   *)
(* up no block.                                                            *)
(***************************************************************************)
LEMMA QuietStep ==
  ASSUME StackInv, StackInv', MemoryInv, LocalsInv',
         UNCHANGED <<heap, head, locals, fault>>, Len(calls') = Len(calls),
         calls # <<>> => avail' = avail /\ cmd' = cmd,
         \A i \in 1 .. Len(calls) : calls'[i].name = calls[i].name,
         \A i \in 1 .. Len(locals) :
           Discarded(i)' = Discarded(i) \/ (fault = "none" => locals[i].contents = Null)
  PROVE  MemoryInv'
<1>1. PICK node \in [1 .. Len(calls) -> Block] :
        ListInv(node) /\ (fault = "none" => Balanced(heap, Held(node)))
  BY DEF MemoryInv
<1>2. ListInv(node)'
  <2>1. DOMAIN heap = Block /\ \A i \in 1 .. Len(calls) :
          locals[i].deps # Null => heap[locals[i].deps] = DepsOf(calls[i].name)
    BY <1>1 DEF ListInv
  <2> QED
    BY <1>1, <2>1, ListStays
<1>3. ASSUME fault = "none"
      PROVE  Balanced(heap, Held(node))'
  <2>1. ASSUME NEW i \in 1 .. Cardinality(Package) + 1
        PROVE  /\ NodeAt(node, i)' = NodeAt(node, i) /\ InfoAt(i)' = InfoAt(i)
               /\ DepsAt(i)' = DepsAt(i) /\ DataAt(i)' = DataAt(i)
    <3>1. i <= Len(locals) => i \in 1 .. Len(locals)
      BY Depth DEF MemoryInv
    <3> QED
      BY <1>3, <3>1 DEF NodeAt, InfoAt, DepsAt, DataAt
  <2>2. \A t \in Slot : Held(node)'[t] = Held(node)[t]
    <3> DEFINE none == <<0, "none">>
    <3>1. \A i \in 1 .. Cardinality(Package) + 1 : none \notin Slots(i)
      BY DEF Slots
    <3>2. \A t \in Slot : t # none
      BY DEF Slot
    <3> HIDE DEF none
    <3>3. SlotBecomes(node, node, none, Null)
      BY <2>1, <3>1 DEF Slots, SlotBecomes
    <3>4. \A t \in Slot : Held(node)'[t] = IF t = none THEN Null ELSE Held(node)[t]
      BY <3>3, HeldChange
    <3> QED
      BY <3>2, <3>4
  <2>3. SameBut(heap, heap', Null)
    BY DEF SameBut
  <2>4. Balanced(heap', Held(node)')
    BY <1>1, <1>3, <2>2, <2>3, BooksStay
  <2> QED
    BY <2>4 DEF Balanced, Slot
<1> QED
  BY <1>1, <1>2, <1>3 DEF MemoryInv, OnlyAppendFreesTwice

LEMMA LocalsStay ==
  ASSUME LocalsInv, locals' = locals, Len(calls') = Len(calls), calls # <<>>,
         label \notin {"free_info"}, label' \in Labels \ {"free_info"},
         label' \in {"free_contents", "pop_from_stack"} <=> pc' = "pop",
         Mine.deps # Null => label' = "none" /\ pc' \in {"deps", "return"},
         pc' # "download"
  PROVE  LocalsInv'
BY DEF LocalsInv, Mine

(***************************************************************************)
(* The process goes on, or leaves for the labels.                          *)
(***************************************************************************)
LEMMA StepsThatKeepBlocks ==
  ASSUME StackInv, StackInv', MemoryInv,
         \/ InstallBegins \/ PackageRejected \/ PackageAccepted \/ WrongArchitecture
         \/ DependenciesMissing \/ FilesUnpacked \/ BodyEnds
         \/ DependencyReturns /\ ret = OK
  PROVE  MemoryInv'
<1> USE DEF MemoryInv
<1>0. Len(calls) \in Nat /\ (calls = <<>> <=> Len(calls) = 0) /\ Len(locals) \in Nat
  BY EmptySeq, Depth DEF StackInv, TypeOK
<1>1. CASE InstallBegins
  <2>1. /\ pc = "idle" /\ pc' = "start" /\ calls' = calls
        /\ UNCHANGED <<heap, head, locals, label, fault>>
    BY <1>1 DEF InstallBegins, Begin, Install, Remove, fetchVars, memVars
  <2>2. calls = <<>>
    BY <2>1 DEF StackInv, FramesOK, Control
  <2>3. LocalsInv'
    BY <1>0, <2>1, <2>2 DEF LocalsInv, Mine
  <2>4. \A i \in 1 .. Len(locals) : Discarded(i)' = Discarded(i)
    BY <2>1 DEF Discarded
  <2> QED
    BY <2>1, <2>2, <2>3, <2>4, QuietStep
<1>2. CASE PackageAccepted \/ FilesUnpacked \/ (DependencyReturns /\ ret = OK)
  <2>1. /\ UNCHANGED <<calls, avail, cmd>>
        /\ UNCHANGED <<heap, head, locals, label, fault>>
        /\ \/ pc = "download" /\ pc' = "deps"
           \/ pc = "unpack" /\ pc' = "register"
           \/ pc = "return" /\ pc' = "deps" /\ calls # <<>> /\ label = "none"
    BY <1>2 DEF PackageAccepted, Download, FilesUnpacked, Unpack, DependencyReturns,
                ReturnToCaller, fetchVars, sessionVars, memVars
  <2>2. calls # <<>>
    BY <2>1 DEF StackInv, FramesOK
  <2>3. label = "none"
    BY <2>1 DEF LocalsInv, Labels
  <2>4. LocalsInv'
    BY <1>0, <2>1, <2>2, <2>3, LocalsStay DEF LocalsInv, Labels
  <2>5. \A i \in 1 .. Len(locals) : Discarded(i)' = Discarded(i)
    BY <2>1 DEF Discarded
  <2> QED
    BY <2>1, <2>4, <2>5, QuietStep
<1>3. CASE PackageRejected \/ DependenciesMissing \/ BodyEnds
  <2>1. /\ UNCHANGED <<calls, avail, cmd>>
        /\ UNCHANGED <<heap, head, locals, fault>> /\ label' = "free_contents"
        /\ pc \in {"download", "deps", "unpack", "register"} /\ pc' = "pop"
        /\ pc = "deps" => Mine.deps = Null
    BY <1>3 DEF PackageRejected, DownloadFails, DependenciesMissing,
                DependenciesUnreadable, BodyEnds, UnpackFails, Register, RegisterFails,
                sessionVars
  <2>2. calls # <<>>
    BY <2>1 DEF StackInv, FramesOK
  <2>3. label = "none" /\ Mine.deps = Null
    BY <1>0, <2>1, <2>2 DEF LocalsInv, Labels
  <2>4. LocalsInv'
    BY <1>0, <2>1, <2>2, <2>3, LocalsStay DEF Labels
  <2>5. \A i \in 1 .. Len(locals) : Discarded(i)' = Discarded(i)
    BY <2>1, <2>3 DEF Discarded
  <2> QED
    BY <2>1, <2>4, <2>5, QuietStep
<1>4. CASE WrongArchitecture
  <2>1. /\ UNCHANGED <<calls, avail, cmd>>
        /\ UNCHANGED <<heap, head, locals, fault>> /\ label' = "pop_from_stack"
        /\ pc = "download" /\ pc' = "pop" /\ ~Compatible(Top.name)
    BY <1>4 DEF WrongArchitecture, DownloadFails, sessionVars
  <2>2. calls # <<>>
    BY <2>1 DEF StackInv, FramesOK
  <2>3. label = "none" /\ Mine.deps = Null /\ Mine.contents = Null
    BY <1>0, <2>1, <2>2 DEF LocalsInv, Labels
  <2>4. LocalsInv'
    BY <1>0, <2>1, <2>2, <2>3, LocalsStay DEF Labels
  <2>5. \A i \in 1 .. Len(locals) :
          Discarded(i)' = Discarded(i) \/ locals[i].contents = Null
    BY <2>1, <2>3 DEF Discarded, Mine
  <2> QED
    BY <2>1, <2>4, <2>5, QuietStep
<1> QED
  BY <1>1, <1>2, <1>3, <1>4

(***************************************************************************)
(* What the books say, slot by slot.                                       *)
(***************************************************************************)
Position == 1 .. Cardinality(Package) + 1

LEMMA HeldOfKind ==
  ASSUME NEW node, NEW i \in Position, NEW kind \in {"deps", "data"}
  PROVE  Held(node)[<<i, kind>>] = IF kind = "deps" THEN DepsAt(i) ELSE DataAt(i)
<1>1. /\ Held(node)[<<i, "deps">>] = DepsAt(i)
      /\ Held(node)[<<i, "data">>] = DataAt(i)
  BY HeldAt DEF Position
<1> QED
  BY <1>1

LEMMA SlotFacts ==
  ASSUME NEW node, Balanced(heap, Held(node)), NEW i \in Position
  PROVE  /\ NodeAt(node, i) # Null => NodeAt(node, i) \in Block /\ heap[NodeAt(node, i)].kind = "node"
         /\ InfoAt(i) # Null => InfoAt(i) \in Block /\ heap[InfoAt(i)].kind = "info"
         /\ DepsAt(i) # Null => DepsAt(i) \in Block /\ heap[DepsAt(i)].kind = "deps"
         /\ DataAt(i) # Null => DataAt(i) \in Block /\ heap[DataAt(i)].kind = "data"
         /\ \A j \in Position \ {i} :
              /\ InfoAt(j) = InfoAt(i) => InfoAt(i) = Null
              /\ DepsAt(j) = DepsAt(i) => DepsAt(i) = Null
              /\ DataAt(j) = DataAt(i) => DataAt(i) = Null
<1> DEFINE held == Held(node)
<1>1. \A j \in Position : Slots(j) \subseteq Slot
  BY DEF Slot, Slots, Position
<1>2. \A j \in Position :
        /\ held[<<j, "node">>] = NodeAt(node, j) /\ held[<<j, "info">>] = InfoAt(j)
        /\ held[<<j, "deps">>] = DepsAt(j) /\ held[<<j, "data">>] = DataAt(j)
  BY HeldAt DEF Position
<1>3. Balanced(heap, held)
  OBVIOUS
<1> HIDE DEF held
<1>4. /\ <<i, "node">> \in Slot /\ <<i, "info">> \in Slot
      /\ <<i, "deps">> \in Slot /\ <<i, "data">> \in Slot
  BY <1>1 DEF Slots
<1>5. ASSUME NEW j \in Position \ {i}
      PROVE  /\ <<j, "info">> \in Slot /\ <<j, "deps">> \in Slot /\ <<j, "data">> \in Slot
             /\ <<j, "info">> # <<i, "info">> /\ <<j, "deps">> # <<i, "deps">>
             /\ <<j, "data">> # <<i, "data">>
  BY <1>1 DEF Slots
<1>6. /\ held[<<i, "node">>] # Null => heap[held[<<i, "node">>]].kind = "node"
      /\ held[<<i, "info">>] # Null => heap[held[<<i, "info">>]].kind = "info"
      /\ held[<<i, "deps">>] # Null => heap[held[<<i, "deps">>]].kind = "deps"
      /\ held[<<i, "data">>] # Null => heap[held[<<i, "data">>]].kind = "data"
  BY <1>3, <1>4 DEF Balanced
<1>7. \A s \in {<<i, "node">>, <<i, "info">>, <<i, "deps">>, <<i, "data">>} :
        held[s] # Null => held[s] \in Block
  BY <1>3, <1>4 DEF Balanced
<1>8. ASSUME NEW j \in Position \ {i}
      PROVE  /\ InfoAt(j) = InfoAt(i) => InfoAt(i) = Null
             /\ DepsAt(j) = DepsAt(i) => DepsAt(i) = Null
             /\ DataAt(j) = DataAt(i) => DataAt(i) = Null
  <2>1. /\ held[<<j, "info">>] = held[<<i, "info">>] => held[<<i, "info">>] = Null
        /\ held[<<j, "deps">>] = held[<<i, "deps">>] => held[<<i, "deps">>] = Null
        /\ held[<<j, "data">>] = held[<<i, "data">>] => held[<<i, "data">>] = Null
    BY <1>3, <1>4, <1>5 DEF Balanced
  <2> QED
    BY <1>2, <2>1
<1> QED
  BY <1>2, <1>6, <1>7, <1>8

(***************************************************************************)
(* A step in which the innermost frame frees what it holds of one kind.    *)
(***************************************************************************)
LEMMA FreeStep ==
  ASSUME StackInv, StackInv', MemoryInv, LocalsInv', fault = "none", calls # <<>>,
         NEW kind \in {"deps", "data"}, NEW b,
         b = IF kind = "deps" THEN DepsAt(Len(calls)) ELSE DataAt(Len(calls)),
         heap' = Freed(heap, b), UNCHANGED <<head, avail, cmd>>,
         fault' \in {FreeFault(b), "append"}, Len(calls') = Len(calls),
         Len(locals) = Len(calls), Len(locals') = Len(locals),
         \A i \in 1 .. Len(calls) :
           /\ calls'[i].name = calls[i].name
           /\ locals'[i].name = locals[i].name /\ locals'[i].info = locals[i].info
           /\ locals'[i].deps = IF i = Len(calls) /\ kind = "deps" THEN Null
                                                                   ELSE locals[i].deps
           /\ fault' = "none" =>
                DataAt(i)' = IF i = Len(calls) /\ kind = "data" THEN Null ELSE DataAt(i)
  PROVE  MemoryInv'
<1> DEFINE top == Len(calls)
           slot == <<top, kind>>
<1>1. PICK node \in [1 .. Len(calls) -> Block] :
        ListInv(node) /\ Balanced(heap, Held(node))
  BY DEF MemoryInv
<1>2. /\ top \in Position /\ top \in 1 .. Len(calls) /\ Null \notin Block
      /\ 1 .. Len(calls) \subseteq Position /\ Len(calls) \in Nat
      /\ 1 .. Len(locals) = 1 .. Len(calls)
  <2>1. Len(calls) \in Nat /\ Len(calls) # 0
    BY EmptySeq DEF StackInv, TypeOK
  <2> QED
    BY <2>1, Depth, MemoryAssumption DEF MemoryInv, Position, Null, Block
<1>3. b # Null => b \in Block /\ heap[b].kind = kind
  BY <1>1, <1>2, SlotFacts
<1>4. ListInv(node)'
  <2>1. DOMAIN heap' = Block
    BY <1>1 DEF ListInv, Freed
  <2>2. ASSUME NEW i \in 1 .. Len(calls)
        PROVE  heap'[node[i]] = heap[node[i]]
    <3>1. heap[node[i]].kind = "node"
      BY <1>1, InvFacts DEF MemoryInv
    <3> QED
      BY <1>3, <3>1 DEF Freed
  <2>3. ASSUME NEW i \in 1 .. Len(calls), locals'[i].deps # Null
        PROVE  heap'[locals'[i].deps] = DepsOf(calls[i].name)
    <3>1. locals'[i].deps = locals[i].deps /\ locals[i].deps = DepsAt(i)
      BY <1>2, <2>3 DEF DepsAt
    <3>2. heap[locals[i].deps] = DepsOf(calls[i].name)
      BY <1>1, <2>3, <3>1 DEF ListInv
    <3>3. locals[i].deps # b
      <4>1. CASE kind = "data"
        BY <1>3, <3>2, <4>1, <2>3, <3>1 DEF DepsOf
      <4>2. CASE kind = "deps"
        <5>1. i # top /\ i \in Position
          BY <1>2, <2>3, <4>2
        <5> QED
          BY <1>1, <1>2, <2>3, <3>1, <4>2, <5>1, SlotFacts
      <4> QED
        BY <4>1, <4>2
    <3> QED
      BY <3>1, <3>2, <3>3 DEF Freed
  <2>4. \A i \in 1 .. Len(calls) : i < Len(calls) => locals'[i].deps = locals[i].deps
    BY <1>2
  <2> QED
    BY <1>1, <2>1, <2>2, <2>3, <2>4, ListStays
<1>5. fault' \in {"none", "append"}
  <2>1. IsLive(b) \/ b = Null
    BY <1>1, <1>3 DEF IsLive, Unused
  <2> QED
    BY <2>1 DEF FreeFault
<1>6. ASSUME fault' = "none"
      PROVE  Balanced(heap, Held(node))'
  <2>1. SlotBecomes(node, node, slot, Null)
    <3>1. ASSUME NEW i \in Position
          PROVE  /\ NodeAt(node, i)' = NodeAt(node, i) /\ InfoAt(i)' = InfoAt(i)
                 /\ DepsAt(i)' = IF i = top /\ kind = "deps" THEN Null ELSE DepsAt(i)
                 /\ DataAt(i)' = IF i = top /\ kind = "data" THEN Null ELSE DataAt(i)
      <4>1. CASE i \in 1 .. Len(calls)
        BY <1>2, <1>6, <4>1 DEF NodeAt, InfoAt, DepsAt
      <4>2. CASE ~(i <= Len(calls))
        BY <1>2, <4>2 DEF NodeAt, InfoAt, DepsAt, DataAt
      <4> QED
        BY <1>2, <4>1, <4>2 DEF Position
    <3> QED
      BY <3>1 DEF SlotBecomes, Position
  <2>2. slot \in Slot
    BY <1>2 DEF Slot, Position
  <2>3. \A t \in Slot : Held(node)'[t] = IF t = slot THEN Null ELSE Held(node)[t]
    BY <2>1, HeldChange
  <2>4. Held(node)[slot] = b
    BY <1>2, HeldOfKind
  <2>5. SameBut(heap, heap', b) /\ (b # Null => heap'[b] = Unused)
    BY <1>1, <1>3 DEF SameBut, Freed, ListInv
  <2>6. Balanced(heap', Held(node)')
    <3> DEFINE held == Held(node)
               kept == Held(node)'
    <3>1. /\ Balanced(heap, held) /\ held[slot] = b
          /\ \A t \in Slot : kept[t] = IF t = slot THEN Null ELSE held[t]
      BY <1>1, <2>3, <2>4
    <3> HIDE DEF held, kept, slot
    <3>2. Balanced(heap', kept)
      BY <2>2, <2>5, <3>1, BooksRelease
    <3> QED
      BY <3>2 DEF kept
  <2> QED
    BY <2>6 DEF Balanced, Slot
<1>7. node \in [1 .. Len(calls') -> Block]
  OBVIOUS
<1> QED
  BY <1>4, <1>5, <1>6, <1>7 DEF MemoryInv, OnlyAppendFreesTwice

LEMMA LocalsUpdate ==
  ASSUME locals \in Seq(Locals), locals # <<>>, NEW b \in Block \cup {Null},
         NEW deps, deps = [locals EXCEPT ![Len(locals)].deps = b],
         NEW contents, contents = [locals EXCEPT ![Len(locals)].contents = b]
  PROVE  /\ deps \in Seq(Locals) /\ contents \in Seq(Locals)
         /\ Len(deps) = Len(locals) /\ Len(contents) = Len(locals)
         /\ \A i \in 1 .. Len(locals) :
              /\ deps[i] = IF i = Len(locals) THEN [locals[i] EXCEPT !.deps = b]
                                              ELSE locals[i]
              /\ contents[i] = IF i = Len(locals) THEN [locals[i] EXCEPT !.contents = b]
                                                  ELSE locals[i]
<1>1. Len(locals) \in 1 .. Len(locals) /\ DOMAIN locals = 1 .. Len(locals)
  BY EmptySeq, LenProperties
<1>2. \A i \in 1 .. Len(locals) : locals[i] \in Locals
  BY ElementOfSeq
<1>3. /\ deps = [locals EXCEPT ![Len(locals)] = [locals[Len(locals)] EXCEPT !.deps = b]]
      /\ contents = [locals EXCEPT ![Len(locals)] = [locals[Len(locals)] EXCEPT !.contents = b]]
  OBVIOUS
<1>4. /\ [locals[Len(locals)] EXCEPT !.deps = b] \in Locals
      /\ [locals[Len(locals)] EXCEPT !.contents = b] \in Locals
  BY <1>1, <1>2 DEF Locals
<1>5. /\ deps \in Seq(Locals) /\ Len(deps) = Len(locals)
      /\ contents \in Seq(Locals) /\ Len(contents) = Len(locals)
  BY <1>1, <1>3, <1>4, ExceptSeq
<1> QED
  BY <1>1, <1>3, <1>5

(***************************************************************************)
(* What an owner frees is what it holds: the contents, by                  *)
(* fetcher_fetch_to_memory or at free_contents, and the dependencies when  *)
(* the loop over them ends, or breaks.                                     *)
(***************************************************************************)
LEMMA StepsThatFree ==
  ASSUME StackInv, StackInv', MemoryInv, fault = "none",
         \/ AppendFails \/ TransferFails \/ FreeContents \/ LoopEnds
         \/ DependencyReturns /\ ret # OK
  PROVE  MemoryInv'
<1> USE DEF MemoryInv
<1>0. Len(calls) \in Nat /\ (calls = <<>> <=> Len(calls) = 0) /\ Len(locals) \in Nat
  BY EmptySeq, Depth DEF StackInv, TypeOK
<1>1. CASE AppendFails \/ TransferFails \/ FreeContents
  <2>1. /\ UNCHANGED <<calls, avail, cmd, head, locals>>
        /\ heap' = Freed(heap, Mine.contents)
        /\ \/ fault' = "append" /\ label' = label /\ pc' = pc /\ pc = "download"
           \/ /\ fault' = FreeFault(Mine.contents) /\ label' = "pop_from_stack"
              /\ pc' = "pop"
              /\ \/ pc = "download"
                 \/ pc = "pop" /\ label = "free_contents"
    <3>1. label = "free_contents" => pc = "pop"
      BY DEF LocalsInv
    <3> QED
      BY <1>1, <3>1 DEF AppendFails, TransferFails, FreeContents, DownloadFails, FreeFault,
                        sessionVars, vars
  <2>2. calls # <<>> /\ Len(locals) = Len(calls) /\ Mine.deps = Null
    <3>1. calls # <<>> /\ label # "free_info"
      BY <2>1 DEF StackInv, FramesOK, LocalsInv, Labels
    <3> QED
      BY <1>0, <2>1, <3>1 DEF LocalsInv
  <2>3. LocalsInv'
    <3>1. CASE label' = "pop_from_stack"
      <4>1. label # "free_info" /\ Mine.deps = Null
        BY <1>0, <2>2 DEF LocalsInv
      <4> QED
        BY <2>1, <2>2, <3>1, <4>1, LocalsStay DEF Labels, LocalsInv
    <3>2. CASE label' # "pop_from_stack"
      BY <2>1, <3>2 DEF LocalsInv, Mine, Compatible, Top
    <3> QED
      BY <3>1, <3>2
  <2>4. Mine.contents = DataAt(Len(calls))
    <3>1. ~Discarded(Len(locals))
      BY <2>1 DEF Discarded, LocalsInv, Labels
    <3> QED
      BY <1>0, <2>2, <3>1 DEF DataAt, Mine
  <2>5. ASSUME NEW i \in 1 .. Len(calls)
        PROVE  /\ locals'[i].deps = locals[i].deps
               /\ fault' = "none" =>
                    DataAt(i)' = IF i = Len(calls) THEN Null ELSE DataAt(i)
    BY <1>0, <2>1, <2>2 DEF DataAt, Discarded
  <2> DEFINE kind == "data"
             b == Mine.contents
  <2>6. fault' \in {FreeFault(b), "append"}
    BY <2>1
  <2>7. \A i \in 1 .. Len(calls) :
          /\ calls'[i].name = calls[i].name
          /\ locals'[i].name = locals[i].name /\ locals'[i].info = locals[i].info
          /\ locals'[i].deps = IF i = Len(calls) /\ kind = "deps" THEN Null
                                                                  ELSE locals[i].deps
          /\ fault' = "none" =>
               DataAt(i)' = IF i = Len(calls) /\ kind = "data" THEN Null ELSE DataAt(i)
    BY <2>1, <2>5
  <2>8. b = IF kind = "deps" THEN DepsAt(Len(calls)) ELSE DataAt(Len(calls))
    BY <2>4
  <2>9. /\ heap' = Freed(heap, b) /\ UNCHANGED <<head, avail, cmd>>
        /\ Len(calls') = Len(calls) /\ Len(locals') = Len(locals)
        /\ kind \in {"deps", "data"}
    BY <2>1
  <2> HIDE DEF kind, b
  <2> QED
    BY <2>2, <2>3, <2>6, <2>7, <2>8, <2>9, FreeStep
<1>2. CASE LoopEnds \/ (DependencyReturns /\ ret # OK)
  <2>1. /\ UNCHANGED <<calls, avail, cmd, head>>
        /\ heap' = Freed(heap, Mine.deps) /\ fault' = FreeFault(Mine.deps)
        /\ locals' = [locals EXCEPT ![Len(locals)].deps = Null]
        /\ \/ pc = "deps" /\ pc' = "unpack" /\ label' = label
           \/ /\ pc = "return" /\ label = "none" /\ calls # <<>>
              /\ pc' = "pop" /\ label' = "free_contents"
    BY <1>2 DEF LoopEnds, DependenciesDone, DependencyReturns, ReturnToCaller,
                FreeDependencies, sessionVars, fetchVars
  <2>2. calls # <<>> /\ label = "none" /\ Len(locals) = Len(calls) /\ locals # <<>>
    <3>1. calls # <<>> /\ label = "none"
      BY <2>1 DEF StackInv, FramesOK, LocalsInv, Labels
    <3> QED
      BY <1>0, <3>1, EmptySeq DEF LocalsInv
  <2>3. /\ locals' \in Seq(Locals) /\ Len(locals') = Len(locals)
        /\ \A i \in 1 .. Len(locals) :
             locals'[i] = IF i = Len(locals) THEN [locals[i] EXCEPT !.deps = Null]
                                             ELSE locals[i]
    <3> DEFINE contents == [locals EXCEPT ![Len(locals)].contents = Null]
    <3>1. locals' \in Seq(Locals) /\ Len(locals') = Len(locals)
      BY <2>1, <2>2, contents = contents, Null \in Block \cup {Null}, LocalsUpdate
         DEF LocalsInv
    <3>2. \A i \in 1 .. Len(locals) :
            locals'[i] = IF i = Len(locals) THEN [locals[i] EXCEPT !.deps = Null]
                                            ELSE locals[i]
      BY <2>1, <2>2, contents = contents, Null \in Block \cup {Null}, LocalsUpdate
         DEF LocalsInv
    <3> QED
      BY <3>1, <3>2
  <2>4. ASSUME NEW i \in 1 .. Len(calls)
        PROVE  /\ locals'[i].name = locals[i].name /\ locals'[i].info = locals[i].info
               /\ locals'[i].contents = locals[i].contents
               /\ locals'[i].deps = IF i = Len(calls) THEN Null ELSE locals[i].deps
    <3>1. locals[i] \in Locals
      BY <1>0, <2>2, ElementOfSeq DEF LocalsInv
    <3> QED
      BY <2>2, <2>3, <3>1 DEF Locals
  <2>5. LocalsInv'
    <3>1. label' \in Labels /\ Len(locals') = Len(calls') + (IF label' = "free_info" THEN 1 ELSE 0)
      BY <1>0, <2>1, <2>2, <2>3 DEF Labels, LocalsInv
    <3>2. \A i \in 1 .. Len(locals') - 1 : locals'[i].deps # Null
      BY <1>0, <2>2, <2>3, <2>4 DEF LocalsInv
    <3>3. Mine'.deps = Null
      BY <1>0, <2>2, <2>3, <2>4 DEF Mine
    <3> QED
      BY <2>1, <2>2, <2>3, <3>1, <3>2, <3>3 DEF LocalsInv
  <2>6. Mine.deps = DepsAt(Len(calls))
    BY <1>0, <2>2 DEF DepsAt, Mine
  <2>7. ASSUME NEW i \in 1 .. Len(calls)
        PROVE  DataAt(i)' = DataAt(i)
    BY <2>1, <2>2, <2>3, <2>4 DEF DataAt, Discarded
  <2> DEFINE kind == "deps"
             b == Mine.deps
  <2>8. \A i \in 1 .. Len(calls) :
          /\ calls'[i].name = calls[i].name
          /\ locals'[i].name = locals[i].name /\ locals'[i].info = locals[i].info
          /\ locals'[i].deps = IF i = Len(calls) /\ kind = "deps" THEN Null
                                                                  ELSE locals[i].deps
          /\ fault' = "none" =>
               DataAt(i)' = IF i = Len(calls) /\ kind = "data" THEN Null ELSE DataAt(i)
    BY <2>1, <2>4, <2>7
  <2>9. b = IF kind = "deps" THEN DepsAt(Len(calls)) ELSE DataAt(Len(calls))
    BY <2>6
  <2>10. /\ heap' = Freed(heap, b) /\ UNCHANGED <<head, avail, cmd>>
         /\ Len(calls') = Len(calls) /\ Len(locals') = Len(locals)
         /\ kind \in {"deps", "data"} /\ fault' \in {FreeFault(b), "append"}
    BY <2>1, <2>3
  <2> HIDE DEF kind, b
  <2> QED
    BY <2>2, <2>5, <2>8, <2>9, <2>10, FreeStep
<1> QED
  BY <1>1, <1>2

(***************************************************************************)
(* A step in which the innermost frame takes a block, and gives back the   *)
(* one it had of that kind, which may be the same one.                     *)
(***************************************************************************)
Takes(kind, old, new, content) ==
  /\ old = IF kind = "deps" THEN DepsAt(Len(calls)) ELSE DataAt(Len(calls))
  /\ new \in ({old} \ {Null}) \cup NewBlock(heap)
  /\ \/ kind = "deps" /\ content = DepsOf(Top.name)
     \/ kind = "data" /\ content.kind = "data"
  /\ heap' = [Freed(heap, old) EXCEPT ![new] = content]
  /\ \A i \in 1 .. Len(calls) :
       /\ calls'[i].name = calls[i].name
       /\ locals'[i].name = locals[i].name /\ locals'[i].info = locals[i].info
       /\ locals'[i].deps = IF i = Len(calls) /\ kind = "deps" THEN new
                                                               ELSE locals[i].deps
       /\ DataAt(i)' = IF i = Len(calls) /\ kind = "data" THEN new ELSE DataAt(i)

LEMMA TakeStep ==
  ASSUME StackInv, StackInv', MemoryInv, LocalsInv', fault = "none", calls # <<>>,
         UNCHANGED <<head, avail, cmd, fault>>, Len(calls') = Len(calls),
         Len(locals) = Len(calls), Len(locals') = Len(locals),
         NEW kind, NEW old, NEW new, NEW content, Takes(kind, old, new, content)
  PROVE  MemoryInv'
<1> DEFINE top == Len(calls)
           slot == <<top, kind>>
           freed == Freed(heap, old)
<1> USE DEF Takes
<1>1. PICK node \in [1 .. Len(calls) -> Block] :
        ListInv(node) /\ Balanced(heap, Held(node))
  BY DEF MemoryInv
<1>2. /\ top \in Position /\ top \in 1 .. Len(calls) /\ Null \notin Block
      /\ 1 .. Len(calls) \subseteq Position /\ Len(calls) \in Nat
      /\ 1 .. Len(locals) = 1 .. Len(calls)
  <2>1. Len(calls) \in Nat /\ Len(calls) # 0
    BY EmptySeq DEF StackInv, TypeOK
  <2> QED
    BY <2>1, Depth, MemoryAssumption DEF MemoryInv, Position, Null, Block
<1>3. old # Null => old \in Block /\ heap[old].kind = kind
  BY <1>1, <1>2, SlotFacts
<1>4. /\ new \in Block /\ new # Null /\ freed[new] = Unused
      /\ heap[new].kind \in {"unused", kind}
  <2>1. CASE new \in NewBlock(heap)
    <3>1. new \in Block /\ heap[new] = Unused
      <4>1. {c \in Block : heap[c] = Unused} \in SUBSET Block
        OBVIOUS
      <4> QED
        BY <2>1, <4>1, MemoryAssumption DEF NewBlock
    <3> QED
      BY <1>1, <1>2, <3>1 DEF Freed, ListInv, Unused
  <2>2. CASE new = old /\ old # Null
    BY <1>1, <1>3, <2>2 DEF Freed, ListInv
  <2> QED
    BY <2>1, <2>2
<1>5. /\ DOMAIN heap' = Block /\ heap'[new] = content /\ content.kind = kind
      /\ \A c \in Block \ {new, old} : heap'[c] = heap[c]
  BY <1>1, <1>4 DEF Freed, ListInv, DepsOf
<1>6. ListInv(node)'
  <2>2. ASSUME NEW i \in 1 .. Len(calls)
        PROVE  heap'[node[i]] = heap[node[i]]
    <3>1. heap[node[i]].kind = "node" /\ node[i] \in Block /\ node[i] # Null
      BY <1>1, InvFacts DEF MemoryInv
    <3>2. node[i] # old /\ node[i] # new
      BY <1>3, <1>4, <3>1
    <3> QED
      BY <1>5, <3>1, <3>2
  <2>3. ASSUME NEW i \in 1 .. Len(calls), locals'[i].deps # Null
        PROVE  heap'[locals'[i].deps] = DepsOf(calls[i].name)
    <3>1. CASE i = top /\ kind = "deps"
      BY <1>2, <1>5, <3>1 DEF Top
    <3>2. CASE ~(i = top /\ kind = "deps")
      <4>1. locals'[i].deps = locals[i].deps /\ locals[i].deps = DepsAt(i) /\ i \in Position
        BY <1>2, <2>3, <3>2 DEF DepsAt
      <4>2. heap[locals[i].deps] = DepsOf(calls[i].name)
        BY <1>1, <2>3, <4>1 DEF ListInv
      <4>3. locals[i].deps # old
        <5>1. CASE kind = "data"
          BY <1>3, <2>3, <4>1, <4>2, <5>1 DEF DepsOf
        <5>2. CASE kind = "deps"
          <6>1. i # top
            BY <3>2, <5>2
          <6> QED
            BY <1>1, <1>2, <2>3, <4>1, <5>2, <6>1, SlotFacts
        <5> QED
          BY <5>1, <5>2
      <4>4. locals[i].deps \in Block /\ heap[locals[i].deps].kind = "deps"
        BY <1>1, <2>3, <4>1, SlotFacts
      <4>5. locals[i].deps # new
        <5>1. CASE kind = "data"
          BY <1>4, <4>4, <5>1
        <5>2. CASE kind = "deps"
          <6>1. new = old \/ heap[new] = Unused
            <7>1. {c \in Block : heap[c] = Unused} \in SUBSET Block
              OBVIOUS
            <7> QED
              BY <7>1, MemoryAssumption DEF NewBlock
          <6> QED
            BY <4>3, <4>4, <6>1 DEF Unused
        <5> QED
          BY <5>1, <5>2
      <4> QED
        BY <1>5, <4>1, <4>2, <4>3, <4>4, <4>5
    <3> QED
      BY <3>1, <3>2
  <2>4. \A i \in 1 .. Len(calls) : i < Len(calls) => locals'[i].deps = locals[i].deps
    BY <1>2
  <2> QED
    BY <1>1, <1>5, <2>2, <2>3, <2>4, ListStays
<1>7. Balanced(heap, Held(node))'
  <2>1. SlotBecomes(node, node, slot, new)
    <3>1. ASSUME NEW i \in Position
          PROVE  /\ NodeAt(node, i)' = NodeAt(node, i) /\ InfoAt(i)' = InfoAt(i)
                 /\ DepsAt(i)' = IF i = top /\ kind = "deps" THEN new ELSE DepsAt(i)
                 /\ DataAt(i)' = IF i = top /\ kind = "data" THEN new ELSE DataAt(i)
      <4>1. CASE i \in 1 .. Len(calls)
        BY <1>2, <4>1 DEF NodeAt, InfoAt, DepsAt
      <4>2. CASE ~(i <= Len(calls))
        BY <1>2, <4>2 DEF NodeAt, InfoAt, DepsAt, DataAt
      <4> QED
        BY <1>2, <4>1, <4>2 DEF Position
    <3> QED
      BY <3>1 DEF SlotBecomes, Position
  <2>2. slot \in Slot /\ slot[2] = kind
    BY <1>2 DEF Slot, Position
  <2>3. \A t \in Slot : Held(node)'[t] = IF t = slot THEN new ELSE Held(node)[t]
    BY <2>1, HeldChange
  <2>4. Held(node)[slot] = old
    <3>1. /\ kind \in {"deps", "data"}
          /\ old = IF kind = "deps" THEN DepsAt(top) ELSE DataAt(top)
      OBVIOUS
    <3>2. Held(node)[<<top, kind>>] = IF kind = "deps" THEN DepsAt(top) ELSE DataAt(top)
      BY ONLY <1>2, <3>1, HeldOfKind
    <3> QED
      BY ONLY <3>1, <3>2
  <2>5. SameBut(heap, freed, old) /\ (old # Null => freed[old] = Unused)
    BY <1>1, <1>3 DEF SameBut, Freed, ListInv
  <2>6. SameBut(freed, heap', new) /\ heap'[new].kind = kind
    BY <1>1, <1>4, <1>5 DEF SameBut, Freed, ListInv
  <2>7. Balanced(heap', Held(node)')
    <3> DEFINE held == Held(node)
               kept == Held(node)'
               rest == [t \in Slot |-> IF t = slot THEN Null ELSE held[t]]
    <3>1. /\ Balanced(heap, held) /\ held[slot] = old
          /\ \A t \in Slot : kept[t] = IF t = slot THEN new ELSE held[t]
      BY <1>1, <2>3, <2>4
    <3> HIDE DEF held, kept, slot, freed
    <3>2. Balanced(freed, rest)
      BY <2>2, <2>5, <3>1, BooksRelease
    <3>3. rest[slot] = Null /\ \A t \in Slot : kept[t] = IF t = slot THEN new ELSE rest[t]
      BY <2>2, <3>1
    <3> HIDE DEF rest
    <3>4. /\ slot \in Slot /\ new \in Block /\ freed[new] = Unused
          /\ SameBut(freed, heap', new) /\ heap'[new].kind = slot[2]
      BY <1>4, <2>2, <2>6
    <3>5. Balanced(heap', kept)
      BY ONLY <3>2, <3>3, <3>4, BooksAllocate
    <3> QED
      BY <3>5 DEF kept
  <2> QED
    BY <2>7 DEF Balanced, Slot
<1>8. node \in [1 .. Len(calls') -> Block]
  OBVIOUS
<1> QED
  BY <1>6, <1>7, <1>8 DEF MemoryInv, OnlyAppendFreesTwice

(***************************************************************************)
(* The buffer that grows, and the second copy of the metadata.             *)
(***************************************************************************)
LEMMA StepsThatTake ==
  ASSUME StackInv, StackInv', MemoryInv, fault = "none",
         Append_to_buffer \/ DependenciesRead
  PROVE  MemoryInv'
<1> USE DEF MemoryInv
<1> DEFINE kind == IF pc = "deps" THEN "deps" ELSE "data"
           old  == IF pc = "deps" THEN Null ELSE Mine.contents
           content == IF pc = "deps" THEN DepsOf(Top.name)
                                     ELSE Data(SizeOf(Mine.contents) + 1)
<1>0. Len(calls) \in Nat /\ (calls = <<>> <=> Len(calls) = 0) /\ Len(locals) \in Nat
  BY EmptySeq, Depth DEF StackInv, TypeOK
<1>1. /\ UNCHANGED <<vars, head, label, fault>>
      /\ pc \in {"deps", "download"} /\ (pc = "deps" => Mine.deps = Null)
      /\ pc = "download" => Compatible(Top.name)
  BY DEF Append_to_buffer, DependenciesRead
<1>2. UNCHANGED <<calls, avail, cmd, pc>>
  BY <1>1 DEF vars
<1>3. /\ calls # <<>> /\ label = "none" /\ Len(locals) = Len(calls) /\ locals # <<>>
      /\ Mine.deps = Null
  <2>1. calls # <<>> /\ label = "none"
    BY <1>1 DEF StackInv, FramesOK, LocalsInv, Labels
  <2>2. Len(locals) = Len(calls) /\ locals # <<>>
    BY <1>0, <2>1, EmptySeq DEF LocalsInv
  <2> QED
    BY <1>1, <2>1, <2>2 DEF LocalsInv
<1>4. PICK new \in ({old} \ {Null}) \cup NewBlock(heap) :
        /\ heap' = [Freed(heap, old) EXCEPT ![new] = content]
        /\ locals' = IF pc = "deps" THEN [locals EXCEPT ![Len(locals)].deps = new]
                                    ELSE [locals EXCEPT ![Len(locals)].contents = new]
  <2>1. CASE Append_to_buffer
    <3>1. /\ pc = "download" /\ old = Mine.contents
          /\ content = Data(SizeOf(Mine.contents) + 1)
      BY <2>1 DEF Append_to_buffer
    <3> HIDE DEF old, content
    <3> QED
      BY <2>1, <3>1 DEF Append_to_buffer
  <2>2. CASE DependenciesRead
    <3>1. /\ pc = "deps" /\ old = Null /\ Freed(heap, old) = heap
          /\ content = DepsOf(Top.name)
      BY <2>2 DEF DependenciesRead, Freed
    <3> HIDE DEF old, content
    <3> QED
      BY <2>2, <3>1 DEF DependenciesRead
  <2> QED
    BY <2>1, <2>2
<1>5. new \in Block /\ new # Null
  <2>1. old \in Block \cup {Null}
    <3>1. Mine \in Locals
      BY <1>0, <1>3, ElementOfSeq DEF LocalsInv, Mine
    <3> QED
      BY <3>1 DEF Locals
  <2>2. {c \in Block : heap[c] = Unused} \in SUBSET Block /\ Null \notin Block
    BY MemoryAssumption DEF Block, Null
  <2> HIDE DEF old
  <2> QED
    BY <2>1, <2>2, MemoryAssumption DEF NewBlock
<1>6. /\ locals' \in Seq(Locals) /\ Len(locals') = Len(locals)
      /\ \A i \in 1 .. Len(locals) :
           locals'[i] = IF i # Len(locals) THEN locals[i]
                        ELSE IF pc = "deps" THEN [locals[i] EXCEPT !.deps = new]
                                            ELSE [locals[i] EXCEPT !.contents = new]
  <2> DEFINE deps == [locals EXCEPT ![Len(locals)].deps = new]
             contents == [locals EXCEPT ![Len(locals)].contents = new]
  <2>1. locals \in Seq(Locals) /\ locals # <<>> /\ new \in Block \cup {Null}
    BY <1>3, <1>5 DEF LocalsInv
  <2>2. /\ deps \in Seq(Locals) /\ contents \in Seq(Locals)
        /\ Len(deps) = Len(locals) /\ Len(contents) = Len(locals)
    BY <2>1, LocalsUpdate
  <2>3. \A i \in 1 .. Len(locals) :
          /\ deps[i] = IF i = Len(locals) THEN [locals[i] EXCEPT !.deps = new] ELSE locals[i]
          /\ contents[i] = IF i = Len(locals) THEN [locals[i] EXCEPT !.contents = new]
                                              ELSE locals[i]
    BY <2>1, LocalsUpdate
  <2>4. locals' = IF pc = "deps" THEN deps ELSE contents
    BY <1>4
  <2> HIDE DEF deps, contents
  <2> QED
    BY <2>2, <2>3, <2>4
<1>7. ASSUME NEW i \in 1 .. Len(calls)
      PROVE  /\ locals'[i].name = locals[i].name /\ locals'[i].info = locals[i].info
             /\ locals'[i].deps = IF i = Len(calls) /\ kind = "deps" THEN new
                                                                     ELSE locals[i].deps
             /\ locals'[i].contents = IF i = Len(calls) /\ kind = "data" THEN new
                                                               ELSE locals[i].contents
  <2>1. locals[i] \in Locals
    BY <1>0, <1>3, ElementOfSeq DEF LocalsInv
  <2>2. /\ i # Len(locals) => locals'[i] = locals[i]
        /\ i = Len(locals) => locals'[i] = IF pc = "deps"
                                            THEN [locals[i] EXCEPT !.deps = new]
                                            ELSE [locals[i] EXCEPT !.contents = new]
    BY <1>3, <1>6
  <2>3. CASE i # Len(locals)
    BY <1>3, <2>2, <2>3
  <2>4. CASE i = Len(locals) /\ pc = "deps"
    BY <1>3, <2>1, <2>2, <2>4 DEF Locals
  <2>5. CASE i = Len(locals) /\ pc # "deps"
    BY <1>3, <2>1, <2>2, <2>5 DEF Locals
  <2> QED
    BY <2>3, <2>4, <2>5
<1>8. LocalsInv'
  <2>1. \A i \in 1 .. Len(locals') - 1 : locals'[i].deps # Null
    <3> SUFFICES ASSUME NEW i \in 1 .. Len(locals') - 1
                 PROVE  locals'[i].deps # Null
      OBVIOUS
    <3>1. i \in 1 .. Len(locals) - 1 /\ i \in 1 .. Len(calls) /\ i # Len(calls)
      BY <1>0, <1>3, <1>6
    <3>2. locals[i].deps # Null
      BY <3>1 DEF LocalsInv
    <3> QED
      BY <1>7, <3>1, <3>2
  <2>2. Mine'.deps # Null => pc = "deps"
    BY <1>0, <1>3, <1>6, <1>7 DEF Mine
  <2>3. pc' = "download" => Compatible(Top.name)'
    BY <1>1, <1>2 DEF Compatible, Top
  <2> QED
    BY <1>1, <1>2, <1>3, <1>6, <2>1, <2>2, <2>3 DEF LocalsInv
<1>9. ASSUME NEW i \in 1 .. Len(calls)
      PROVE  DataAt(i)' = IF i = Len(calls) /\ kind = "data" THEN new ELSE DataAt(i)
  BY <1>0, <1>1, <1>3, <1>6, <1>7 DEF DataAt, Discarded
<1>10. old = IF kind = "deps" THEN DepsAt(Len(calls)) ELSE DataAt(Len(calls))
  BY <1>0, <1>1, <1>3 DEF DataAt, DepsAt, Discarded, Mine
<1>11. \A i \in 1 .. Len(calls) :
         /\ calls'[i].name = calls[i].name
         /\ locals'[i].name = locals[i].name /\ locals'[i].info = locals[i].info
         /\ locals'[i].deps = IF i = Len(calls) /\ kind = "deps" THEN new
                                                                 ELSE locals[i].deps
         /\ DataAt(i)' = IF i = Len(calls) /\ kind = "data" THEN new ELSE DataAt(i)
  BY <1>2, <1>7, <1>9
<1>12. /\ UNCHANGED <<head, avail, cmd, fault>> /\ Len(calls') = Len(calls)
       /\ Len(locals') = Len(locals) /\ kind \in {"deps", "data"}
  BY <1>1, <1>2, <1>6
<1>13. \/ kind = "deps" /\ content = DepsOf(Top.name)
       \/ kind = "data" /\ content.kind = "data"
  BY DEF Data
<1> HIDE DEF kind, old, content
<1>14. Takes(kind, old, new, content)
  BY <1>4, <1>10, <1>11, <1>13 DEF Takes
<1> QED
  BY <1>3, <1>8, <1>12, <1>14, TakeStep

(***************************************************************************)
(* What malloc returns is nobody's.                                        *)
(***************************************************************************)
LEMMA MallocIsFresh ==
  ASSUME NEW h, NEW b \in NewBlock(h)
  PROVE  b \in Block /\ b # Null /\ h[b] = Unused
<1>1. {c \in Block : h[c] = Unused} \in SUBSET Block /\ Null \notin Block
  BY MemoryAssumption DEF Block, Null
<1> QED
  BY <1>1, MemoryAssumption DEF NewBlock

(***************************************************************************)
(* What stack_push does to the list, after manager_fetch took the block    *)
(* of the package information.                                             *)
(***************************************************************************)
Pushed(node, info, new, pointer) ==
  /\ info \in Block /\ new \in Block /\ info # new
  /\ heap[info] = Unused /\ heap[new] = Unused
  /\ DOMAIN heap' = Block
  /\ heap'[new] = Node(pointer, Null) /\ heap'[info] = Info
  /\ calls = <<>> => head' = new
  /\ calls # <<>> =>
       /\ head' = head
       /\ heap'[node[Len(calls)]] = Node(locals[Len(calls)].name, new)
  /\ \A c \in Block \ {info, new} :
       (calls # <<>> => c # node[Len(calls)]) => heap'[c] = heap[c]

LEMMA PushFacts ==
  ASSUME StackInv, LocalsInv, NEW node \in [1 .. Len(calls) -> Block], ListInv(node),
         NEW info \in NewBlock(heap), NEW h, h = [heap EXCEPT ![info] = Info],
         NEW new \in NewBlock(h), NEW pointer, StackPush(h, new, pointer)
  PROVE  Pushed(node, info, new, pointer)
<1> USE DEF Pushed
<1>1. /\ info \in Block /\ new \in Block /\ heap[info] = Unused /\ h[new] = Unused
      /\ Null \notin Block /\ DOMAIN heap = Block
  <2>1. info \in Block /\ heap[info] = Unused
    BY MallocIsFresh
  <2>2. new \in Block /\ h[new] = Unused
    BY MallocIsFresh
  <2> QED
    BY <2>1, <2>2, MemoryAssumption DEF Null, Block, ListInv
<1>2. info # new /\ heap[new] = Unused
  BY <1>1 DEF Info, Unused
<1>3. CASE calls = <<>>
  <2>1. head = Null
    BY <1>3 DEF ListInv
  <2>2. head' = new /\ heap' = [h EXCEPT ![new] = Node(pointer, Null)]
    BY <2>1 DEF StackPush
  <2> QED
    BY <1>1, <1>2, <1>3, <2>2
<1>4. CASE calls # <<>>
  <2> DEFINE n == Len(calls)
  <2>1. n \in 1 .. MaxBlocks /\ n \in 1 .. n /\ n \in Nat
    BY <1>4, InvFacts, EmptySeq DEF StackInv, TypeOK
  <2>2. head = node[1] /\ head # Null
    BY <1>1, <1>4, <2>1 DEF ListInv
  <2>3. GetLast(head) = node[n]
    <3>1. IsListFrom(head, node, n) /\ \A i, j \in 1 .. n : node[i] = node[j] => i = j
      BY InvFacts DEF ListInv
    <3> QED
      BY <2>1, <3>1, LastNodes
  <2>4. heap[node[n]] = Node(locals[n].name, Null) /\ node[n] \in Block
    BY <2>1 DEF ListInv
  <2>5. node[n] # info /\ node[n] # new
    BY <1>1, <1>2, <2>4, NodeFields
  <2>6. /\ head' = head
        /\ heap' = [h EXCEPT ![new] = Node(pointer, Null), ![node[n]].next = new]
    BY <2>2, <2>3 DEF StackPush
  <2> HIDE DEF n
  <2>7. heap'[node[n]] = Node(locals[n].name, new)
    <3>1. heap'[node[n]] = [heap[node[n]] EXCEPT !.next = new]
      BY <1>1, <2>4, <2>5, <2>6
    <3> QED
      BY <2>4, <3>1 DEF Node
  <2>8. /\ DOMAIN heap' = Block
        /\ heap'[new] = Node(pointer, Null) /\ heap'[info] = Info
    BY <1>1, <1>2, <2>4, <2>5, <2>6
  <2>9. \A c \in Block \ {info, new} : c # node[n] => heap'[c] = heap[c]
    BY <1>1, <1>2, <2>4, <2>5, <2>6
  <2> QED
    BY <1>1, <1>2, <1>4, <2>6, <2>7, <2>8, <2>9 DEF n
<1> QED
  BY <1>3, <1>4

LEMMA HeldAtNext ==
  ASSUME NEW node, NEW i \in Position
  PROVE  /\ Held(node)'[<<i, "node">>] = NodeAt(node, i)'
         /\ Held(node)'[<<i, "info">>] = InfoAt(i)'
         /\ Held(node)'[<<i, "deps">>] = DepsAt(i)'
         /\ Held(node)'[<<i, "data">>] = DataAt(i)'
BY DEF Held, Slot, NodeAt, InfoAt, DepsAt, DataAt, Position

(***************************************************************************)
(* The innermost manager_fetch goes past its guards.                       *)
(***************************************************************************)
LEMMA EnterStep ==
  ASSUME StackInv, StackInv', MemoryInv, fault = "none", label = "none",
         Len(calls') = Len(calls) + 1,
         \A i \in 1 .. Len(calls) : calls'[i].name = calls[i].name,
         UNCHANGED <<avail, cmd>>, pc' = "download",
         NEW pointer \in Pointer,
         calls = <<>> => pointer = Argv /\ calls'[1].name = cmd.name,
         calls # <<>> => /\ Mine.deps # Null /\ pointer.block = Mine.deps
                         /\ Deps(Top)[pointer.token] = calls'[Len(calls) + 1].name,
         Enter(pointer)
  PROVE  MemoryInv'
<1> DEFINE n == Len(calls)
<1>1. PICK node \in [1 .. n -> Block] : ListInv(node) /\ Balanced(heap, Held(node))
  BY DEF MemoryInv
<1>2. /\ LocalsInv /\ n \in Nat /\ (calls = <<>> <=> n = 0) /\ Len(locals) = n
      /\ n + 1 \in Position /\ 1 .. n \subseteq Position /\ Null \notin Block
      /\ locals \in Seq(Locals) /\ calls' # <<>>
  <2>1. n \in Nat /\ (calls = <<>> <=> n = 0) /\ LocalsInv /\ Len(locals) = n
    BY EmptySeq DEF StackInv, TypeOK, MemoryInv, LocalsInv
  <2>2. n + 1 \in Position /\ 1 .. n \subseteq Position
    BY <2>1, Depth DEF Position
  <2>3. calls' # <<>>
    BY <2>1, EmptySeq DEF StackInv, TypeOK
  <2> QED
    BY <2>1, <2>2, <2>3, MemoryAssumption DEF Null, Block, LocalsInv
<1>3. Len(calls') # Len(calls)
  BY <1>2
<1>4. PICK info \in NewBlock(heap) :
        /\ \E new \in NewBlock([heap EXCEPT ![info] = Info]) :
             StackPush([heap EXCEPT ![info] = Info], new, pointer)
        /\ locals' = Append(locals, [name |-> pointer, info |-> info,
                                     contents |-> Null, deps |-> Null])
        /\ UNCHANGED <<label, fault>>
  BY <1>3 DEF Enter
<1>5. PICK new \in NewBlock([heap EXCEPT ![info] = Info]) :
        StackPush([heap EXCEPT ![info] = Info], new, pointer)
  BY <1>4
<1> DEFINE h == [heap EXCEPT ![info] = Info]
           frame == [name |-> pointer, info |-> info, contents |-> Null, deps |-> Null]
<1>6. /\ info \in Block /\ new \in Block /\ info # new
      /\ heap[info] = Unused /\ heap[new] = Unused /\ h[new] = Unused
      /\ DOMAIN heap' = Block
      /\ heap'[new] = Node(pointer, Null) /\ heap'[info] = Info
      /\ n = 0 => head' = new
      /\ n # 0 => head' = head /\ heap'[node[n]] = Node(locals[n].name, new)
      /\ \A c \in Block \ {info, new} : (n # 0 => c # node[n]) => heap'[c] = heap[c]
  <2>1. new \in NewBlock(h) /\ StackPush(h, new, pointer)
    BY <1>5
  <2>2. Pushed(node, info, new, pointer)
    BY <1>1, <1>2, <2>1, PushFacts
  <2>3. h[new] = Unused
    BY <2>1, MallocIsFresh
  <2> QED
    BY <1>2, <2>2, <2>3 DEF Pushed
<1>7. PICK next \in [1 .. n + 1 -> Block] :
        \A i \in 1 .. n + 1 : next[i] = IF i = n + 1 THEN new ELSE node[i]
  <2> DEFINE f == [i \in 1 .. n + 1 |-> IF i = n + 1 THEN new ELSE node[i]]
  <2>1. f \in [1 .. n + 1 -> Block]
    BY <1>2, <1>6
  <2> QED
    BY <2>1
<1>8. /\ frame \in Locals /\ frame.name = pointer /\ frame.info = info
      /\ frame.deps = Null /\ frame.contents = Null
  BY <1>6 DEF Locals
<1>9. /\ locals' \in Seq(Locals) /\ Len(locals') = n + 1
      /\ \A i \in 1 .. n : locals'[i] = locals[i]
      /\ locals'[n + 1] = frame
  <2> HIDE DEF frame
  <2>1. locals' = Append(locals, frame)
    BY <1>4 DEF frame
  <2> QED
    BY <1>2, <1>8, <2>1, AppendProperties
<1> HIDE DEF frame, n
<1>10. LocalsInv'
  <2>1. \A i \in 1 .. n : locals'[i].deps # Null
    <3> SUFFICES ASSUME NEW i \in 1 .. n
                 PROVE  locals[i].deps # Null
      BY <1>9
    <3>1. CASE i = n
      BY <1>2, <3>1 DEF Mine, n
    <3>2. CASE i # n
      BY <1>2, <3>2 DEF LocalsInv
    <3> QED
      BY <3>1, <3>2
  <2>2. \A i \in 1 .. Len(locals') - 1 : locals'[i].deps # Null
    BY <1>2, <1>9, <2>1
  <2>3. Mine'.deps = Null /\ Mine'.contents = Null
    BY <1>2, <1>8, <1>9 DEF Mine
  <2>4. label' = "none" /\ Len(calls') = n + 1
    BY <1>4 DEF n
  <2> QED
    BY <1>2, <1>9, <2>2, <2>3, <2>4 DEF LocalsInv, Labels
<1>11. ListInv(next)'
  <2>1. ASSUME NEW i \in 1 .. n
        PROVE  /\ next[i] = node[i] /\ node[i] \in Block
               /\ heap[node[i]] = Node(locals[i].name, IF i = n THEN Null ELSE node[i + 1])
               /\ node[i] # info /\ node[i] # new
    <3>1. heap[node[i]] = Node(locals[i].name, IF i = n THEN Null ELSE node[i + 1])
      BY <1>1 DEF ListInv, n
    <3> QED
      BY <1>2, <1>6, <1>7, <3>1, NodeFields
  <2>2. next[n + 1] = new /\ next \in [1 .. n + 1 -> Block]
    BY <1>2, <1>7
  <2>3. \A i \in 1 .. n + 1 : i \in 1 .. n \/ i = n + 1
    BY <1>2
  <2>4. head' = next[1]
    <3>1. n # 0 => 1 \in 1 .. n /\ head = node[1]
      BY <1>1, <1>2 DEF ListInv
    <3> QED
      BY <1>2, <1>6, <2>1, <2>2, <3>1
  <2>5. \A i, j \in 1 .. n + 1 : next[i] = next[j] => i = j
    <3>1. \A i, j \in 1 .. n : node[i] = node[j] => i = j
      BY <1>1 DEF ListInv, n
    <3> QED
      BY <2>1, <2>2, <2>3, <3>1
  <2>6. ASSUME NEW i \in 1 .. n + 1
        PROVE  heap'[next[i]] =
                 Node(locals'[i].name, IF i = n + 1 THEN Null ELSE next[i + 1])
    <3>1. CASE i = n + 1
      BY <1>6, <1>8, <1>9, <2>2, <3>1
    <3>2. CASE i = n /\ i \in 1 .. n
      BY <1>2, <1>6, <1>9, <2>1, <2>2, <3>2
    <3>3. CASE i # n /\ i \in 1 .. n
      <4>1. i + 1 \in 1 .. n /\ n \in 1 .. n /\ i + 1 # n + 1 /\ i # n + 1
        BY <1>2, <3>3
      <4>2. node[i] # node[n]
        BY <1>1, <3>3, <4>1 DEF ListInv, n
      <4>3. heap'[node[i]] = heap[node[i]]
        BY <1>6, <2>1, <3>3, <4>2
      <4> QED
        BY <1>9, <2>1, <3>3, <4>1, <4>3
    <3> QED
      BY <2>3, <3>1, <3>2, <3>3
  <2>7. ASSUME NEW i \in 1 .. n + 1, locals'[i].deps # Null
        PROVE  heap'[locals'[i].deps] = DepsOf(calls'[i].name)
    <3>1. i \in 1 .. n /\ locals'[i] = locals[i]
      BY <1>8, <1>9, <2>3, <2>7
    <3>2. heap[locals[i].deps] = DepsOf(calls[i].name)
      BY <1>1, <2>7, <3>1 DEF ListInv, n
    <3>3. locals[i].deps \in Block
      <4>1. locals[i] \in Locals
        BY <1>2, <3>1, ElementOfSeq
      <4> QED
        BY <2>7, <3>1, <4>1 DEF Locals
    <3>4. locals[i].deps # info /\ locals[i].deps # new
      BY <1>6, <3>2 DEF DepsOf, Unused
    <3>5. n # 0 => locals[i].deps # node[n]
      <4>1. n # 0 => n \in 1 .. n
        BY <1>2
      <4> QED
        BY <2>1, <3>2, <4>1, NodeFields DEF DepsOf
    <3>6. calls'[i].name = calls[i].name
      BY <3>1 DEF n
    <3> QED
      BY <1>6, <3>1, <3>2, <3>3, <3>4, <3>5, <3>6
  <2>8. ASSUME NEW i \in 1 .. n + 1, i = 1
        PROVE  locals'[i].name = Argv /\ calls'[i].name = cmd'.name
    <3>1. CASE n = 0
      BY <1>2, <1>8, <1>9, <2>8, <3>1
    <3>2. CASE n # 0
      <4>1. 1 \in 1 .. n
        BY <1>2, <3>2
      <4> QED
        BY <1>1, <1>9, <2>8, <4>1 DEF ListInv, n
    <3> QED
      BY <3>1, <3>2
  <2>9. ASSUME NEW i \in 1 .. n + 1, i # 1
        PROVE  /\ locals'[i].name.block = locals'[i - 1].deps
               /\ avail'[calls'[i - 1].name].deps[locals'[i].name.token] = calls'[i].name
    <3>1. i - 1 \in 1 .. n /\ locals'[i - 1] = locals[i - 1]
      BY <1>2, <1>9, <2>9
    <3>2. calls'[i - 1].name = calls[i - 1].name
      BY <3>1 DEF n
    <3>3. CASE i = n + 1
      <4>1. calls # <<>> /\ i - 1 = n
        BY <1>2, <3>1, <3>3
      <4>2. /\ locals'[i].name = pointer /\ pointer.block = locals[n].deps
            /\ avail[calls[n].name].deps[pointer.token] = calls'[n + 1].name
        BY <1>2, <1>8, <1>9, <3>3, <4>1 DEF Mine, Top, Deps, n
      <4> QED
        BY <3>1, <3>2, <3>3, <4>1, <4>2
    <3>4. CASE i \in 1 .. n
      <4>1. locals'[i] = locals[i] /\ calls'[i].name = calls[i].name
        BY <1>9, <3>4 DEF n
      <4>2. /\ locals[i].name.block = locals[i - 1].deps
            /\ avail[calls[i - 1].name].deps[locals[i].name.token] = calls[i].name
        BY <1>1, <2>9, <3>4 DEF ListInv, Deps, n
      <4> QED
        BY <3>1, <3>2, <4>1, <4>2
    <3> QED
      BY <2>3, <3>3, <3>4
  <2>10. Len(calls') = n + 1
    BY DEF n
  <2>11. ASSUME NEW i \in 1 .. n + 1
         PROVE  IF i = 1 THEN locals'[i].name = Argv /\ calls'[i].name = cmd'.name
                         ELSE /\ locals'[i].name.block = locals'[i - 1].deps
                              /\ Deps(calls[i - 1])'[locals'[i].name.token] = calls'[i].name
    BY <2>8, <2>9 DEF Deps
  <2> QED
    BY <1>2, <1>6, <2>4, <2>5, <2>6, <2>7, <2>10, <2>11 DEF ListInv
<1>12. Balanced(heap', Held(next)')
  <2> DEFINE held == Held(node)
             kept == Held(next)'
             infoSlot == <<n + 1, "info">>
             nodeSlot == <<n + 1, "node">>
             rest == [t \in Slot |-> IF t = infoSlot THEN info ELSE held[t]]
  <2>1. /\ infoSlot \in Slot /\ nodeSlot \in Slot /\ infoSlot # nodeSlot
        /\ infoSlot[2] = "info" /\ nodeSlot[2] = "node"
    BY <1>2 DEF Slot, Position
  <2>2. ASSUME NEW i \in Position
        PROVE  /\ NodeAt(next, i)' = IF i = n + 1 THEN new ELSE NodeAt(node, i)
               /\ InfoAt(i)' = IF i = n + 1 THEN info ELSE InfoAt(i)
               /\ DepsAt(i)' = DepsAt(i) /\ DataAt(i)' = DataAt(i)
    <3>1. i \in Nat /\ label' = "none" /\ Len(calls') = n + 1 /\ Len(calls) = n
      BY <1>4 DEF Position, n
    <3>2. CASE i <= n
      <4>1. i \in 1 .. n /\ i <= n + 1 /\ i # n + 1 /\ i \in 1 .. n + 1
        BY <1>2, <3>1, <3>2 DEF Position
      <4>2. locals'[i] = locals[i] /\ next[i] = node[i]
        BY <1>9, <1>7, <4>1
      <4>3. ~Discarded(i)' /\ ~Discarded(i) /\ i <= Len(locals) /\ i <= Len(locals')
        BY <1>2, <1>9, <3>1, <3>2, <4>1 DEF Discarded
      <4> QED
        BY <3>1, <3>2, <4>1, <4>2, <4>3 DEF NodeAt, InfoAt, DepsAt, DataAt
    <3>3. CASE i = n + 1
      <4>1. next[i] = new /\ locals'[i] = frame /\ ~(i <= n) /\ i <= n + 1
        BY <1>2, <1>9, <1>7, <3>3
      <4>2. ~(i <= Len(locals)) /\ i <= Len(locals')
        BY <1>2, <1>9, <4>1
      <4> QED
        BY <1>8, <3>1, <3>3, <4>1, <4>2 DEF NodeAt, InfoAt, DepsAt, DataAt
    <3>4. CASE i > n + 1
      <4>1. ~(i <= n) /\ ~(i <= n + 1) /\ i # n + 1
        BY <1>2, <3>1, <3>4
      <4> QED
        BY <1>2, <1>9, <3>1, <4>1 DEF NodeAt, InfoAt, DepsAt, DataAt
    <3> QED
      BY <1>2, <3>1, <3>2, <3>3, <3>4
  <2>3. held[infoSlot] = Null /\ held[nodeSlot] = Null
    <3>1. NodeAt(node, n + 1) = Null /\ InfoAt(n + 1) = Null
      BY <1>2 DEF NodeAt, InfoAt, n
    <3> QED
      BY <1>2, <3>1, HeldAt DEF Position
  <2>4. ASSUME NEW t \in Slot
        PROVE  kept[t] = IF t = nodeSlot THEN new ELSE IF t = infoSlot THEN info ELSE held[t]
    <3>1. PICK i \in Position : t \in Slots(i)
      BY SlotOf DEF Position
    <3>2. /\ held[<<i, "node">>] = NodeAt(node, i) /\ held[<<i, "info">>] = InfoAt(i)
          /\ held[<<i, "deps">>] = DepsAt(i) /\ held[<<i, "data">>] = DataAt(i)
      BY HeldAt DEF Position
    <3>3. /\ kept[<<i, "node">>] = NodeAt(next, i)' /\ kept[<<i, "info">>] = InfoAt(i)'
          /\ kept[<<i, "deps">>] = DepsAt(i)' /\ kept[<<i, "data">>] = DataAt(i)'
      BY HeldAtNext
    <3> HIDE DEF held, kept
    <3> QED
      BY <2>2, <3>1, <3>2, <3>3 DEF Slots
  <2>5. SameBut(heap, h, info) /\ h[info].kind = "info"
    BY <1>1, <1>6 DEF SameBut, ListInv, Info
  <2>6. SameBut(h, heap', new) /\ heap'[new].kind = "node"
    <3>1. ASSUME NEW c \in Block \ {new}
          PROVE  (heap'[c] = Unused <=> h[c] = Unused) /\ heap'[c].kind = h[c].kind
      <4>1. CASE c = info
        BY <1>1, <1>6, <4>1 DEF ListInv
      <4>2. CASE c # info /\ n # 0 /\ c = node[n]
        <5>1. heap'[c] = Node(locals[n].name, new) /\ heap[c] = Node(locals[n].name, Null)
          BY <1>1, <1>2, <1>6, <4>2 DEF ListInv, n
        <5>2. h[c] = heap[c]
          BY <1>1, <1>6, <4>2 DEF ListInv
        <5> QED
          BY <5>1, <5>2, NodeFields
      <4>3. CASE c # info /\ (n # 0 => c # node[n])
        BY <1>1, <1>6, <4>3 DEF ListInv
      <4> QED
        BY <4>1, <4>2, <4>3
    <3> QED
      BY <1>6, <3>1, NodeFields DEF SameBut
  <2>7. Balanced(heap, held)
    BY <1>1
  <2> HIDE DEF held, kept, infoSlot, nodeSlot, h
  <2>8. Balanced(h, rest)
    <3>1. \A t \in Slot : rest[t] = IF t = infoSlot THEN info ELSE held[t]
      OBVIOUS
    <3>2. h[info].kind = infoSlot[2] /\ info \in Block /\ heap[info] = Unused
      BY <1>6, <2>1, <2>5
    <3> HIDE DEF rest
    <3> QED
      BY <2>1, <2>3, <2>5, <2>7, <3>1, <3>2, BooksAllocate
  <2>9. Balanced(heap', kept)
    <3>1. \A t \in Slot : kept[t] = IF t = nodeSlot THEN new ELSE rest[t]
      BY <2>4
    <3>2. heap'[new].kind = nodeSlot[2] /\ new \in Block /\ h[new] = Unused
      BY <1>6, <2>1, <2>6
    <3>3. rest[nodeSlot] = Null
      BY <2>1, <2>3
    <3> HIDE DEF rest
    <3> QED
      BY ONLY <2>1, <2>6, <2>8, <3>1, <3>2, <3>3, BooksAllocate
  <2> QED
    BY <2>9 DEF kept
<1>13. Balanced(heap, Held(next))'
  BY <1>12 DEF Balanced, Slot
<1>14. next \in [1 .. Len(calls') -> Block]
  BY <1>7 DEF n
<1>15. fault' = "none"
  BY <1>4
<1> QED
  BY <1>10, <1>11, <1>13, <1>14, <1>15 DEF MemoryInv, OnlyAppendFreesTwice

(***************************************************************************)
(* A call of manager_fetch, by main or by the loop over the dependencies,  *)
(* that goes past the guards or returns at once.                           *)
(***************************************************************************)
LEMMA CallStep ==
  ASSUME StackInv, StackInv', MemoryInv, fault = "none", pc \in {"start", "deps"},
         NEW name \in Package, NEW reason \in Reasons, NEW callers \in Seq(Frame),
         Len(callers) = Len(calls),
         \A i \in 1 .. Len(calls) : callers[i].name = calls[i].name,
         Fetch(name, reason, callers), UNCHANGED <<avail, cmd>>,
         NEW pointer \in Pointer,
         calls = <<>> => pointer = Argv /\ name = cmd.name,
         calls # <<>> => /\ Mine.deps # Null /\ pointer.block = Mine.deps
                         /\ Deps(Top)[pointer.token] = name,
         Enter(pointer)
  PROVE  MemoryInv'
<1>1. Len(calls) \in Nat /\ (calls = <<>> <=> Len(calls) = 0) /\ LocalsInv
  BY EmptySeq DEF StackInv, TypeOK, MemoryInv
<1>2. label = "none" /\ Len(locals) = Len(calls)
  BY <1>1 DEF LocalsInv, Labels
<1>3. CASE EnterFetch(name, reason, callers)
  <2> DEFINE frame == [name |-> name, reason |-> reason, next |-> 1]
  <2>1. frame \in Frame /\ frame.name = name
    BY DEF Frame
  <2> HIDE DEF frame
  <2>2. calls' = Append(callers, frame) /\ pc' = "download"
    BY <1>3 DEF EnterFetch, frame
  <2>3. /\ Len(calls') = Len(calls) + 1
        /\ \A i \in 1 .. Len(calls) : calls'[i] = callers[i]
        /\ calls'[Len(calls) + 1] = frame
    BY <2>1, <2>2, AppendProperties
  <2>4. calls = <<>> => pointer = Argv /\ calls'[1].name = cmd.name
    BY <1>1, <2>1, <2>3
  <2>5. calls # <<>> => /\ Mine.deps # Null /\ pointer.block = Mine.deps
                        /\ Deps(Top)[pointer.token] = calls'[Len(calls) + 1].name
    BY <2>1, <2>3
  <2> QED
    BY <1>2, <2>2, <2>3, <2>4, <2>5, EnterStep
<1>4. CASE SkipFetch(name, callers) \/ RejectFetch(name, callers)
  <2>1. calls' = callers /\ pc' = "return" /\ UNCHANGED memVars
    BY <1>4 DEF SkipFetch, RejectFetch, Enter
  <2>2. UNCHANGED <<heap, head, locals, label, fault>>
    BY <2>1 DEF memVars
  <2>3. LocalsInv'
    BY <1>1, <1>2, <2>1, <2>2 DEF LocalsInv, Mine, Labels
  <2>4. \A i \in 1 .. Len(locals) : Discarded(i)' = Discarded(i)
    BY <2>2 DEF Discarded
  <2> QED
    BY <2>1, <2>2, <2>3, <2>4, QuietStep
<1> QED
  BY <1>3, <1>4 DEF Fetch

LEMMA StepsThatCall ==
  ASSUME StackInv, StackInv', MemoryInv, fault = "none", FetchBegins \/ DependencyBegins
  PROVE  MemoryInv'
<1>0. /\ calls \in Seq(Frame) /\ Len(calls) \in Nat /\ (calls = <<>> <=> Len(calls) = 0)
      /\ LocalsInv
  BY EmptySeq DEF StackInv, TypeOK, MemoryInv
<1>1. CASE FetchBegins
  <2>1. /\ pc = "start" /\ cmd.action = "install" /\ Fetch(cmd.name, cmd.reason, calls)
        /\ UNCHANGED <<avail, cmd>> /\ Enter(Argv)
    BY <1>1 DEF FetchBegins, FetchRequested, sessionVars
  <2>2. calls = <<>> /\ cmd.name \in Package /\ cmd.reason \in Reasons
    BY <2>1 DEF StackInv, FramesOK, Control, TypeOK
  <2>3. Argv \in Pointer
    BY DEF Argv, Pointer
  <2>4. Len(calls) = 0
    BY <1>0, <2>2
  <2> HIDE DEF Argv
  <2> QED
    BY <1>0, <2>1, <2>2, <2>3, <2>4, CallStep
<1>2. CASE DependencyBegins
  <2> DEFINE name == Deps(Top)[Top.next]
             callers == [calls EXCEPT ![Len(calls)].next = @ + 1]
             pointer == [block |-> Mine.deps, token |-> Top.next]
  <2>1. /\ pc = "deps" /\ Mine.deps # Null /\ Top.next <= Len(Deps(Top))
        /\ Fetch(name, Dependency, callers) /\ UNCHANGED <<avail, cmd>>
        /\ Enter(pointer)
    BY <1>2 DEF DependencyBegins, InstallDependency, sessionVars
  <2>2. calls # <<>> /\ Len(calls) \in 1 .. Len(calls) /\ label = "none"
    BY <1>0, <2>1 DEF StackInv, FramesOK, LocalsInv, Labels
  <2>3. Top \in Frame /\ Top.next \in Nat \ {0}
    <3>1. calls[Len(calls)] \in Frame
      BY <1>0, <2>2, ElementOfSeq
    <3> QED
      BY <3>1 DEF Top, Frame
  <2>4. name \in Package
    <3>1. Top.name \in DOMAIN avail /\ avail \in Catalogs
      BY <2>2 DEF Top, StackInv, FramesOK, TypeOK
    <3>2. avail[Top.name] \in Metadata
      BY <3>1, ConstantsAssumption
    <3>3. Deps(Top) \in Seq(Package)
      BY <3>2 DEF Metadata, Deps
    <3>4. Top.next \in 1 .. Len(Deps(Top))
      BY <2>1, <2>3, <3>3, LenProperties
    <3> QED
      BY <3>3, <3>4, ElementOfSeq
  <2>5. /\ callers \in Seq(Frame) /\ Len(callers) = Len(calls)
        /\ \A i \in 1 .. Len(calls) : callers[i].name = calls[i].name
    BY <1>0, <2>2, BumpProperties
  <2>6. pointer \in Pointer
    <3>1. Len(locals) \in 1 .. Len(locals)
      BY <1>0, <2>2 DEF LocalsInv
    <3>2. Mine \in Locals
      BY <3>1, ElementOfSeq DEF LocalsInv, Mine, MemoryInv
    <3> QED
      BY <2>3, <3>2 DEF Locals, Pointer
  <2>7. pointer.block = Mine.deps /\ Deps(Top)[pointer.token] = name
    OBVIOUS
  <2>8. Dependency \in Reasons
    BY DEF Reasons
  <2> HIDE DEF name, callers, pointer
  <2> QED
    BY <2>1, <2>2, <2>4, <2>5, <2>6, <2>7, <2>8, CallStep
<1> QED
  BY <1>1, <1>2

(***************************************************************************)
(* stack_pop takes the last node off the list, and that of the innermost   *)
(* frame is the last.                                                      *)
(***************************************************************************)
Popped(node) ==
  LET n == Len(calls) IN
  /\ node[n] \in Block /\ heap[node[n]].kind = "node"
  /\ fault' = fault /\ DOMAIN heap' = Block /\ heap'[node[n]] = Unused
  /\ n = 1 => head' = Null
  /\ n > 1 => head' = head /\ heap'[node[n - 1]] = Node(locals[n - 1].name, Null)
  /\ \A c \in Block \ {node[n]} : (n > 1 => c # node[n - 1]) => heap'[c] = heap[c]

LEMMA PopFacts ==
  ASSUME StackInv, LocalsInv, NEW node \in [1 .. Len(calls) -> Block], ListInv(node),
         calls # <<>>, StackPop
  PROVE  Popped(node)
<1> DEFINE n == Len(calls)
<1>1. n \in 1 .. MaxBlocks /\ n \in 1 .. n /\ n \in Nat /\ 1 \in 1 .. n /\ Null \notin Block
  BY InvFacts, EmptySeq, MemoryAssumption DEF StackInv, TypeOK, Null, Block
<1>2. DOMAIN heap = Block /\ head = node[1]
  BY DEF ListInv
<1>3. \A i \in 1 .. n :
        /\ node[i] \in Block
        /\ heap[node[i]] = Node(locals[i].name, IF i = n THEN Null ELSE node[i + 1])
  BY DEF ListInv
<1>4. \A i \in 1 .. n : IsLive(node[i]) /\ node[i] # Null /\ heap[node[i]].kind = "node"
  BY <1>1, <1>3, NodeFields DEF IsLive
<1>5. \A i, j \in 1 .. n : node[i] = node[j] => i = j
  BY DEF ListInv
<1>6. FreeFault(node[n]) = fault
  BY <1>1, <1>4 DEF FreeFault
<1> HIDE DEF n
<1>7. CASE n = 1
  <2>1. heap[head].next = Null
    BY <1>1, <1>2, <1>3, <1>7, NodeFields
  <2>2. head' = Null /\ heap' = Freed(heap, node[n]) /\ fault' = fault
    BY <1>2, <1>6, <1>7, <2>1 DEF StackPop
  <2> QED
    BY <1>1, <1>2, <1>3, <1>4, <1>7, <2>2 DEF Popped, Freed, n
<1>8. CASE n > 1
  <2>1. n - 1 \in 1 .. n /\ n - 1 # n /\ 2 \in 1 .. n
    BY <1>1, <1>8
  <2>2. heap[head].next # Null
    <3>1. heap[head].next = node[2]
      BY <1>1, <1>2, <1>3, <1>8, NodeFields
    <3> QED
      BY <1>4, <2>1, <3>1
  <2>3. GetBeforeLast(head) = node[n - 1]
    <3>1. IsListFrom(head, node, n)
      BY InvFacts DEF n
    <3>2. node \in [1 .. n -> Block]
      BY DEF n
    <3> QED
      BY <1>1, <1>5, <1>8, <3>1, <3>2, LastNodes
  <2>4. heap[node[n - 1]] = Node(locals[n - 1].name, node[n])
    BY <1>1, <1>3, <2>1
  <2>5. heap[node[n - 1]].next = node[n]
    BY <2>4, NodeFields
  <2>6. /\ head' = head /\ fault' = fault
        /\ heap' = [Freed(heap, node[n]) EXCEPT ![node[n - 1]].next = Null]
    BY <1>6, <2>2, <2>3, <2>5 DEF StackPop
  <2>7. node[n - 1] # node[n] /\ node[n - 1] \in Block /\ node[n] \in Block
    BY <1>1, <1>3, <1>5, <2>1
  <2>8. Freed(heap, node[n]) = [heap EXCEPT ![node[n]] = Unused]
    BY <1>1, <1>4 DEF Freed
  <2>9. /\ DOMAIN heap' = Block /\ heap'[node[n]] = Unused
        /\ heap'[node[n - 1]] = [heap[node[n - 1]] EXCEPT !.next = Null]
        /\ \A c \in Block \ {node[n]} : c # node[n - 1] => heap'[c] = heap[c]
    BY <1>2, <2>6, <2>7, <2>8
  <2>10. heap'[node[n - 1]] = Node(locals[n - 1].name, Null)
    BY <2>4, <2>9 DEF Node
  <2>11. heap[node[n]].kind = "node" /\ n # 1
    BY <1>1, <1>4, <1>8
  <2> QED
    BY <1>8, <2>6, <2>7, <2>9, <2>10, <2>11 DEF Popped, n
<1> QED
  BY <1>1, <1>7, <1>8

LEMMA PopStep ==
  ASSUME StackInv, StackInv', MemoryInv, fault = "none", PopNode
  PROVE  MemoryInv'
<1> DEFINE n == Len(calls)
<1>1. PICK node \in [1 .. n -> Block] : ListInv(node) /\ Balanced(heap, Held(node))
  BY DEF MemoryInv
<1>2. /\ pc = "pop" /\ pc' = "return" /\ calls' = Pop(calls) /\ UNCHANGED <<avail, cmd>>
      /\ label = "pop_from_stack" /\ label' = "free_info" /\ locals' = locals
      /\ StackPop
  BY DEF PopNode, PopFromStack, sessionVars
<1>3. /\ LocalsInv /\ calls # <<>> /\ n \in Nat /\ n # 0 /\ Len(locals) = n
      /\ n \in Position /\ 1 .. n \subseteq Position /\ n \in 1 .. n
      /\ locals \in Seq(Locals) /\ calls \in Seq(Frame)
  <2>1. calls # <<>> /\ LocalsInv /\ calls \in Seq(Frame) /\ n \in Nat /\ n # 0
    BY <1>2, EmptySeq DEF StackInv, FramesOK, TypeOK, MemoryInv
  <2>2. Len(locals) = n
    BY <1>2, <2>1 DEF LocalsInv
  <2>3. n \in Position /\ 1 .. n \subseteq Position
    BY <2>1, Depth DEF Position
  <2> QED
    BY <2>1, <2>2, <2>3 DEF LocalsInv
<1>4. Len(calls') = n - 1 /\ \A i \in 1 .. n - 1 : calls'[i] = calls[i]
  BY <1>2, <1>3, PopProperties
<1>5. Popped(node)
  BY <1>1, <1>2, <1>3, PopFacts
<1>6. /\ node[n] \in Block /\ heap[node[n]].kind = "node"
      /\ fault' = fault /\ DOMAIN heap' = Block /\ heap'[node[n]] = Unused
      /\ n = 1 => head' = Null
      /\ n > 1 => head' = head /\ heap'[node[n - 1]] = Node(locals[n - 1].name, Null)
      /\ \A c \in Block \ {node[n]} : (n > 1 => c # node[n - 1]) => heap'[c] = heap[c]
  BY <1>5 DEF Popped
<1> HIDE DEF n
<1>7. PICK next \in [1 .. n - 1 -> Block] : \A i \in 1 .. n - 1 : next[i] = node[i]
  <2> DEFINE f == [i \in 1 .. n - 1 |-> node[i]]
  <2>1. f \in [1 .. n - 1 -> Block]
    BY <1>3
  <2> QED
    BY <2>1
<1>8. LocalsInv'
  <2>1. Mine.deps = Null /\ locals # <<>>
    BY <1>2, <1>3, EmptySeq DEF LocalsInv
  <2>2. Mine' = Mine
    BY <1>2 DEF Mine
  <2>3. Len(locals') = Len(calls') + 1
    BY <1>2, <1>3, <1>4
  <2> QED
    BY <1>2, <1>3, <2>1, <2>2, <2>3 DEF LocalsInv, Labels
<1>9. /\ calls' = <<>> <=> n = 1
      /\ \A i \in 1 .. n - 1 : i \in 1 .. n /\ i # n /\ (i = n - 1 \/ i + 1 \in 1 .. n - 1)
  BY <1>3, <1>4, EmptySeq DEF StackInv, TypeOK
<1>10. ASSUME NEW i \in 1 .. n
       PROVE  heap[node[i]] = Node(locals[i].name, IF i = n THEN Null ELSE node[i + 1])
  BY <1>1 DEF ListInv, n
<1>11. \A i, j \in 1 .. n : node[i] = node[j] => i = j
  BY <1>1 DEF ListInv, n
<1>12. ListInv(next)'
  <2>1. head' = IF calls' = <<>> THEN Null ELSE next[1]
    <3>1. n # 1 => 1 \in 1 .. n - 1 /\ head = node[1] /\ n > 1
      BY <1>1, <1>3 DEF ListInv
    <3> QED
      BY <1>6, <1>7, <1>9, <3>1
  <2>2. \A i, j \in 1 .. n - 1 : next[i] = next[j] => i = j
    BY <1>7, <1>9, <1>11
  <2>3. ASSUME NEW i \in 1 .. n - 1
        PROVE  heap'[next[i]] =
                 Node(locals'[i].name, IF i = n - 1 THEN Null ELSE next[i + 1])
    <3>1. next[i] = node[i] /\ node[i] \in Block /\ node[i] # node[n] /\ n > 1
      BY <1>3, <1>7, <1>9, <1>11
    <3>2. CASE i = n - 1
      BY <1>2, <1>6, <3>1, <3>2
    <3>3. CASE i # n - 1
      <4>1. n - 1 \in 1 .. n /\ node[i] # node[n - 1] /\ next[i + 1] = node[i + 1]
        BY <1>3, <1>7, <1>9, <1>11, <3>1, <3>3
      <4>2. heap'[node[i]] = heap[node[i]]
        BY <1>6, <3>1, <4>1
      <4> QED
        BY <1>2, <1>9, <1>10, <3>1, <3>3, <4>1, <4>2
    <3> QED
      BY <3>2, <3>3
  <2>4. ASSUME NEW i \in 1 .. n - 1, locals[i].deps # Null
        PROVE  heap'[locals[i].deps] = DepsOf(calls'[i].name)
    <3>1. heap[locals[i].deps] = DepsOf(calls[i].name)
      BY <1>1, <1>9, <2>4 DEF ListInv, n
    <3>2. locals[i].deps \in Block
      <4>1. locals[i] \in Locals
        BY <1>3, <1>9, ElementOfSeq
      <4> QED
        BY <2>4, <4>1 DEF Locals
    <3>3. locals[i].deps # node[n]
      BY <1>6, <3>1 DEF DepsOf
    <3>4. n > 1 => locals[i].deps # node[n - 1]
      <4>1. n > 1 => heap[node[n - 1]].kind = "node"
        <5>1. n > 1 => n - 1 \in 1 .. n
          BY <1>3
        <5> QED
          BY <1>10, <5>1, NodeFields
      <4> QED
        BY <3>1, <4>1 DEF DepsOf
    <3> QED
      BY <1>4, <1>6, <3>1, <3>2, <3>3, <3>4
  <2>5. ASSUME NEW i \in 1 .. n - 1
        PROVE  IF i = 1 THEN locals[i].name = Argv /\ calls'[i].name = cmd.name
                        ELSE /\ locals[i].name.block = locals[i - 1].deps
                             /\ Deps(calls'[i - 1])[locals[i].name.token] = calls'[i].name
    <3>1. calls'[i] = calls[i] /\ (i # 1 => i - 1 \in 1 .. n - 1 /\ calls'[i - 1] = calls[i - 1])
      BY <1>3, <1>4
    <3> QED
      BY <1>1, <1>9, <3>1 DEF ListInv, n
  <2> QED
    BY <1>2, <1>4, <1>6, <2>1, <2>2, <2>3, <2>4, <2>5 DEF ListInv, Deps
<1>13. Balanced(heap', Held(next)')
  <2> DEFINE held == Held(node)
             kept == Held(next)'
             slot == <<n, "node">>
  <2>1. slot \in Slot
    BY <1>3 DEF Slot, Position
  <2>2. ASSUME NEW i \in Position
        PROVE  /\ NodeAt(next, i)' = IF i = n THEN Null ELSE NodeAt(node, i)
               /\ InfoAt(i)' = InfoAt(i) /\ DepsAt(i)' = DepsAt(i) /\ DataAt(i)' = DataAt(i)
    <3>1. InfoAt(i)' = InfoAt(i) /\ DepsAt(i)' = DepsAt(i) /\ DataAt(i)' = DataAt(i)
      BY <1>2 DEF InfoAt, DepsAt, DataAt, Discarded
    <3>2. i \in Nat /\ (i <= n - 1 => i \in 1 .. n - 1) /\ Len(calls) = n
      BY <1>3 DEF Position, n
    <3>3. NodeAt(next, i)' = IF i = n THEN Null ELSE NodeAt(node, i)
      BY <1>3, <1>4, <1>7, <3>2 DEF NodeAt
    <3> QED
      BY <3>1, <3>3
  <2>3. SlotBecomes(node, next, slot, Null)
    BY <2>2 DEF SlotBecomes, Position
  <2>4. \A t \in Slot : kept[t] = IF t = slot THEN Null ELSE held[t]
    BY <2>3, HeldChange
  <2>5. held[slot] = node[n]
    <3>1. NodeAt(node, n) = node[n]
      BY <1>3 DEF NodeAt, n
    <3> QED
      BY <1>3, <3>1, HeldAt DEF Position
  <2>6. SameBut(heap, heap', node[n])
    <3>1. ASSUME NEW c \in Block \ {node[n]}
          PROVE  (heap'[c] = Unused <=> heap[c] = Unused) /\ heap'[c].kind = heap[c].kind
      <4>1. CASE n > 1 /\ c = node[n - 1]
        <5>1. /\ heap'[c] = Node(locals[n - 1].name, Null)
              /\ heap[c] = Node(locals[n - 1].name, node[n])
          <6>1. n - 1 \in 1 .. n /\ n - 1 # n
            BY <1>3, <4>1
          <6> QED
            BY <1>3, <1>6, <1>10, <4>1, <6>1
        <5> QED
          BY <5>1, NodeFields
      <4>2. CASE n > 1 => c # node[n - 1]
        BY <1>6, <4>2
      <4> QED
        BY <4>1, <4>2
    <3> QED
      BY <3>1 DEF SameBut
  <2>7. Balanced(heap, held)
    BY <1>1
  <2> HIDE DEF held, kept, slot
  <2>8. held[slot] # Null => heap'[held[slot]] = Unused
    BY <1>6, <2>5
  <2>9. SameBut(heap, heap', held[slot])
    BY <2>5, <2>6
  <2>10. Balanced(heap', kept)
    BY ONLY <2>1, <2>4, <2>7, <2>8, <2>9, BooksRelease
  <2> QED
    BY <2>10 DEF kept
<1>14. Balanced(heap, Held(next))'
  BY <1>13 DEF Balanced, Slot
<1>15. next \in [1 .. Len(calls') -> Block]
  BY <1>4
<1>16. fault' = "none"
  BY <1>6
<1> QED
  BY <1>8, <1>12, <1>14, <1>15, <1>16 DEF MemoryInv, OnlyAppendFreesTwice

(***************************************************************************)
(* free_info, the last thing a frame does.                                 *)
(***************************************************************************)
LEMMA InfoStep ==
  ASSUME StackInv, StackInv', MemoryInv, fault = "none", FreeInfo
  PROVE  MemoryInv'
<1> DEFINE n == Len(calls)
<1>1. PICK node \in [1 .. n -> Block] : ListInv(node) /\ Balanced(heap, Held(node))
  BY DEF MemoryInv
<1>2. /\ UNCHANGED <<calls, avail, cmd, pc, head>> /\ label = "free_info" /\ label' = "none"
      /\ heap' = Freed(heap, Mine.info) /\ fault' = FreeFault(Mine.info)
      /\ locals' = Pop(locals)
  BY DEF FreeInfo, Pop, vars
<1>3. /\ LocalsInv /\ pc = "return" /\ n \in Nat /\ Len(locals) = n + 1
      /\ n + 1 \in Position /\ 1 .. n \subseteq Position /\ n + 1 \in 1 .. n + 1
      /\ locals \in Seq(Locals) /\ locals # <<>> /\ Null \notin Block
  <2>1. LocalsInv /\ n \in Nat /\ Len(locals) = n + 1 /\ pc = "return"
    BY <1>2, EmptySeq DEF StackInv, TypeOK, MemoryInv, LocalsInv
  <2>2. n + 1 \in Position /\ 1 .. n \subseteq Position
    BY <2>1, Depth DEF Position
  <2>3. locals \in Seq(Locals) /\ locals # <<>>
    BY <2>1, EmptySeq DEF LocalsInv
  <2> QED
    BY <2>1, <2>2, <2>3, MemoryAssumption DEF Null, Block
<1>4. /\ locals' \in Seq(Locals) /\ Len(locals') = n
      /\ \A i \in 1 .. n : locals'[i] = locals[i]
  BY <1>2, <1>3, PopProperties
<1> DEFINE b == Mine.info
<1>5. b = InfoAt(n + 1) /\ b \in Block /\ heap[b].kind = "info" /\ Mine.deps = Null
  <2>1. b = InfoAt(n + 1)
    BY <1>3 DEF InfoAt, Mine
  <2>2. locals[n + 1] \in Locals
    BY <1>3, ElementOfSeq
  <2>3. b \in Block
    BY <1>3, <2>2 DEF Mine, Locals
  <2>4. heap[b].kind = "info"
    BY <1>1, <1>3, <2>1, <2>3, SlotFacts
  <2>5. Mine.deps = Null
    BY <1>2, <1>3 DEF LocalsInv
  <2> QED
    BY <2>1, <2>3, <2>4, <2>5
<1>6. fault' = "none" /\ DOMAIN heap' = Block /\ heap' = [heap EXCEPT ![b] = Unused]
  <2>1. b # Null /\ heap[b] # Unused /\ DOMAIN heap = Block
    BY <1>1, <1>3, <1>5 DEF Unused, ListInv
  <2>2. heap' = Freed(heap, b) /\ fault' = FreeFault(b)
    BY <1>2
  <2> HIDE DEF b
  <2> QED
    BY <1>5, <2>1, <2>2 DEF FreeFault, IsLive, Freed
<1> HIDE DEF n, b
<1>7. LocalsInv'
  <2>1. \A i \in 1 .. n : locals[i].deps # Null
    BY <1>3 DEF LocalsInv
  <2>2. \A i \in 1 .. Len(locals') - 1 : i \in 1 .. n /\ locals'[i].deps # Null
    BY <1>3, <1>4, <2>1
  <2>3. Len(calls') = n
    BY <1>2 DEF n
  <2> QED
    BY <1>2, <1>3, <1>4, <2>2, <2>3 DEF LocalsInv, Labels
<1>8. ListInv(node)'
  <2>1. ASSUME NEW i \in 1 .. n
        PROVE  heap'[node[i]] = heap[node[i]]
    <3>1. heap[node[i]].kind = "node"
      BY <1>1, <1>3, InvFacts DEF n
    <3> QED
      BY <1>5, <1>6, <3>1
  <2>2. ASSUME NEW i \in 1 .. n, locals'[i].deps # Null
        PROVE  heap'[locals'[i].deps] = DepsOf(calls[i].name)
    <3>1. heap[locals[i].deps] = DepsOf(calls[i].name) /\ locals'[i] = locals[i]
      BY <1>1, <1>4, <2>2 DEF ListInv, n
    <3> QED
      BY <1>5, <1>6, <3>1 DEF DepsOf
  <2>3. \A i \in 1 .. Len(calls) :
          /\ calls'[i].name = calls[i].name
          /\ heap'[node[i]] = heap[node[i]]
          /\ locals'[i].name = locals[i].name
          /\ i < Len(calls) => locals'[i].deps = locals[i].deps
          /\ locals'[i].deps # Null => heap'[locals'[i].deps] = DepsOf(calls[i].name)
    BY <1>2, <1>4, <2>1, <2>2 DEF n
  <2>4. node \in [1 .. Len(calls) -> Block]
    BY DEF n
  <2> QED
    BY <1>1, <1>2, <1>6, <2>3, <2>4, ListStays
<1>9. Balanced(heap', Held(node)')
  <2> DEFINE held == Held(node)
             kept == Held(node)'
             slot == <<n + 1, "info">>
  <2>1. slot \in Slot
    BY <1>3 DEF Slot, Position
  <2>2. ASSUME NEW i \in Position
        PROVE  /\ NodeAt(node, i)' = NodeAt(node, i)
               /\ InfoAt(i)' = IF i = n + 1 THEN Null ELSE InfoAt(i)
               /\ DepsAt(i)' = DepsAt(i) /\ DataAt(i)' = DataAt(i)
    <3>1. NodeAt(node, i)' = NodeAt(node, i) /\ i \in Nat
      BY <1>2 DEF NodeAt, Position
    <3>2. CASE i \in 1 .. n
      <4>1. /\ i <= Len(locals) /\ i <= Len(locals') /\ i # n + 1 /\ locals'[i] = locals[i]
            /\ ~Discarded(i) /\ ~Discarded(i)'
        BY <1>2, <1>3, <1>4, <3>2 DEF Discarded
      <4> QED
        BY <3>1, <4>1 DEF InfoAt, DepsAt, DataAt
    <3>3. CASE i = n + 1
      <4>1. /\ i <= Len(locals) /\ ~(i <= Len(locals')) /\ Discarded(i)
            /\ locals[i].deps = Null
        BY <1>2, <1>3, <1>4, <1>5, <3>3 DEF Discarded, Mine
      <4> QED
        BY <3>1, <3>3, <4>1 DEF InfoAt, DepsAt, DataAt
    <3>4. CASE i > n + 1
      <4>1. ~(i <= Len(locals)) /\ ~(i <= Len(locals')) /\ i # n + 1
        BY <1>3, <1>4, <3>1, <3>4
      <4> QED
        BY <3>1, <4>1 DEF InfoAt, DepsAt, DataAt
    <3> QED
      BY <1>3, <3>1, <3>2, <3>3, <3>4 DEF Position
  <2>3. SlotBecomes(node, node, slot, Null)
    BY <2>2 DEF SlotBecomes, Position
  <2>4. \A t \in Slot : kept[t] = IF t = slot THEN Null ELSE held[t]
    BY <2>3, HeldChange
  <2>5. held[slot] = b
    BY <1>3, <1>5, HeldAt DEF Position
  <2>6. SameBut(heap, heap', b)
    BY <1>1, <1>5, <1>6 DEF SameBut, ListInv
  <2>7. Balanced(heap, held)
    BY <1>1
  <2> HIDE DEF held, kept, slot
  <2>8. held[slot] # Null => heap'[held[slot]] = Unused
    BY <1>1, <1>5, <1>6, <2>5 DEF ListInv
  <2>9. SameBut(heap, heap', held[slot])
    BY <2>5, <2>6
  <2>10. Balanced(heap', kept)
    BY ONLY <2>1, <2>4, <2>7, <2>8, <2>9, BooksRelease
  <2> QED
    BY <2>10 DEF kept
<1>10. Balanced(heap, Held(node))'
  BY <1>9 DEF Balanced, Slot
<1>11. node \in [1 .. Len(calls') -> Block]
  BY <1>2 DEF n
<1> QED
  BY <1>6, <1>7, <1>8, <1>10, <1>11 DEF MemoryInv, OnlyAppendFreesTwice

(***************************************************************************)
(* There is nothing to own before manager_fetch is called, and when the    *)
(* process is gone.                                                        *)
(***************************************************************************)
EmptyMemory ==
  /\ heap = Clean /\ head = Null /\ locals = <<>> /\ calls = <<>>
  /\ label = "none" /\ fault = "none" /\ pc = "idle"

LEMMA EmptyHeap == EmptyMemory => MemoryInv
<1> SUFFICES ASSUME EmptyMemory
             PROVE  MemoryInv
  OBVIOUS
<1> USE DEF EmptyMemory
<1>1. Len(calls) = 0 /\ Len(locals) = 0 /\ locals \in Seq(Locals)
  BY EmptySeq
<1>2. LocalsInv
  BY <1>1 DEF LocalsInv, Labels
<1>3. PICK node \in [1 .. Len(calls) -> Block] : TRUE
  <2>1. [i \in 1 .. Len(calls) |-> Null] \in [1 .. Len(calls) -> Block]
    BY <1>1
  <2> QED
    BY <2>1
<1>4. ListInv(node)
  BY <1>1 DEF ListInv, Clean
<1>5. Balanced(heap, Held(node))
  <2>1. ASSUME NEW s \in Slot
        PROVE  Held(node)[s] = Null
    <3>1. s[1] \in Nat /\ s[1] # 0
      <4>1. s[1] \in 1 .. Cardinality(Package) + 1
        BY DEF Slot
      <4> QED
        BY <4>1, FS_CardinalityType, ConstantsAssumption
    <3>2. ~(s[1] <= Len(calls)) /\ ~(s[1] <= Len(locals))
      BY <1>1, <3>1
    <3> QED
      BY <3>2 DEF Held
  <2>2. \A b \in Block : heap[b] = Unused
    BY DEF Clean
  <2> QED
    BY <2>1, <2>2 DEF Balanced
<1> QED
  BY <1>2, <1>4, <1>5 DEF MemoryInv, OnlyAppendFreesTwice

(***************************************************************************)
(* Every step preserves MemoryInv.                                         *)
(***************************************************************************)
LEMMA MemoryInvStep ==
  ASSUME StackInv, StackInv', MemoryInv, [MemoryNext]_memoryVars
  PROVE  MemoryInv'
<1>1. CASE fault = "none" /\ (\/ InstallBegins \/ PackageRejected \/ PackageAccepted
                              \/ WrongArchitecture \/ DependenciesMissing
                              \/ FilesUnpacked \/ BodyEnds)
  BY <1>1, StepsThatKeepBlocks
<1>2. CASE fault = "none" /\ DependencyReturns
  BY <1>2, StepsThatKeepBlocks, StepsThatFree
<1>3. CASE fault = "none" /\ (AppendFails \/ TransferFails \/ FreeContents \/ LoopEnds)
  BY <1>3, StepsThatFree
<1>4. CASE fault = "none" /\ (Append_to_buffer \/ DependenciesRead)
  BY <1>4, StepsThatTake
<1>5. CASE fault = "none" /\ (FetchBegins \/ DependencyBegins)
  BY <1>5, StepsThatCall
<1>6. CASE fault = "none" /\ PopNode
  BY <1>6, PopStep
<1>7. CASE fault = "none" /\ FreeInfo
  BY <1>7, InfoStep
<1>8. CASE ProcessEnds
  <2>1. EmptyMemory'
    BY <1>8 DEF ProcessEnds, InstallEnds, Crash, Exit, EmptyMemory, Clean
  <2> QED
    BY <2>1, EmptyHeap, PTL
<1>9. CASE UNCHANGED memoryVars
  <2>1. /\ UNCHANGED <<heap, head, locals, label, fault>>
        /\ UNCHANGED <<calls, pc, avail, cmd>>
    BY <1>9 DEF memoryVars, memVars, vars
  <2> QED
    <3>1. LocalsInv' /\ \A i \in 1 .. Len(locals) : Discarded(i)' = Discarded(i)
      BY <2>1 DEF MemoryInv, LocalsInv, Discarded, Mine, Compatible, Top
    <3> QED
      BY <2>1, <3>1, QuietStep
<1> QED
  BY <1>1, <1>2, <1>3, <1>4, <1>5, <1>6, <1>7, <1>8, <1>9 DEF MemoryNext

-----------------------------------------------------------------------------
(* Theorems. *)

LEMMA MemoryInvariant == MemorySpec => [](StackInv /\ MemoryInv)
<1>1. MemoryInit => StackInv /\ MemoryInv
  <2> SUFFICES ASSUME MemoryInit
               PROVE  StackInv /\ MemoryInv
    OBVIOUS
  <2>1. EmptyMemory
    BY DEF MemoryInit, Init, EmptyMemory
  <2>2. StackInv
    BY InitialStack DEF MemoryInit
  <2> QED
    BY <2>1, <2>2, EmptyHeap
<1>2. StackInv /\ MemoryInv /\ [MemoryNext]_memoryVars => (StackInv /\ MemoryInv)'
  BY ManagerAllows, StackInvStep, MemoryInvStep
<1> QED
  BY <1>1, <1>2, PTL DEF MemorySpec

(***************************************************************************)
(* Each step of Memory is built on a step of the manager, or on none: what *)
(* is proved of the manager can be used here.                              *)
(***************************************************************************)
LEMMA MemoryIsManager == MemorySpec => Spec
<1>1. MemoryInit => Init
  BY DEF MemoryInit
<1>2. [MemoryNext]_memoryVars => [Next]_vars
  BY ManagerAllows
<1> QED
  BY <1>1, <1>2, PTL DEF MemorySpec, Spec

(***************************************************************************)
(* The linked list of stack.c is the installation stack, and the strings   *)
(* it points to are alive, at any depth and wherever malloc puts things.   *)
(***************************************************************************)
THEOREM ListHoldsTheStack == MemorySpec => []ListIsStack
<1>1. StackInv /\ MemoryInv => ListIsStack
  BY ListFollows
<1> QED
  BY <1>1, MemoryInvariant, PTL

(***************************************************************************)
(* Until a block is freed twice, every block in use has one owner that     *)
(* will free it, and every owner has the block it takes for its own.       *)
(***************************************************************************)
THEOREM BlocksHaveOneOwner == MemorySpec => []OneOwnerEach
<1>1. StackInv /\ MemoryInv => OneOwnerEach
  BY OwnersFollow
<1> QED
  BY <1>1, MemoryInvariant, PTL

(***************************************************************************)
(* The only block that is ever freed twice is the buffer of a download     *)
(* that cannot grow.                                                       *)
(***************************************************************************)
THEOREM NothingElseIsFreedTwice == MemorySpec => []OnlyAppendFreesTwice
<1>1. MemoryInv => OnlyAppendFreesTwice
  BY DEF MemoryInv
<1> QED
  BY <1>1, MemoryInvariant, PTL
=============================================================================
