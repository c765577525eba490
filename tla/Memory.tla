-------------------------------- MODULE Memory --------------------------------
(***************************************************************************)
(* The memory of one packdude -i: Manager's manager_fetch with the blocks  *)
(* it allocates and frees, the linked list of stack.c that inst_stack      *)
(* stands for, and the growing buffer of fetch.c.  The list points into    *)
(* strings that belong to other frames of the recursion.                   *)
(*                                                                         *)
(* Blocks that are allocated and freed within one step of Manager (by      *)
(* manager_is_installed, or by a query that fails) are left out.           *)
(***************************************************************************)
EXTENDS Manager

CONSTANTS
  MaxBlocks,   \* the bound on the size of the heap
  MaxChunks,   \* in how many pieces a package arrives, at most
  Malloc(_)    \* which of the free blocks malloc may return

Null  == 0
Block == 1 .. MaxBlocks

ASSUME MemoryAssumption ==
  /\ MaxBlocks \in Nat /\ MaxChunks \in Nat
  /\ \A free \in SUBSET Block : Malloc(free) \subseteq free

(***************************************************************************)
(* What a block holds.  A node's data is a pointer to a token of a "deps"  *)
(* block, the p_deps that strtok_r cuts into pieces, or to argv.           *)
(***************************************************************************)
Unused            == [kind |-> "unused"]
Info              == [kind |-> "info"]
DepsOf(p)         == [kind |-> "deps", of |-> p]
Data(size)        == [kind |-> "data", size |-> size]
Node(data, next)  == [kind |-> "node", data |-> data, next |-> next]

Argv == [block |-> Null, token |-> 0]

VARIABLES
  heap,     \* what each block holds
  head,     \* manager->inst_stack: the first node
  locals,   \* the local variables of the frames that did not return yet
  label,    \* the clean-up label the innermost frame is at, or "none"
  fault     \* the first misuse of memory, or "none"

memVars == <<heap, head, locals, label, fault>>
memoryVars == <<vars, memVars>>

Mine     == locals[Len(locals)]
Clean    == [b \in Block |-> Unused]
IsLive(b) == b \in Block /\ heap[b] # Unused

MemoryInit ==
  /\ Init
  /\ heap = Clean /\ head = Null /\ locals = <<>>
  /\ label = "none" /\ fault = "none"

(***************************************************************************)
(* malloc: any block that is not in use, so that memory may be reused at   *)
(* once and a stale pointer may point to somebody else's block.            *)
(***************************************************************************)
NewBlock(h) == Malloc({b \in Block : h[b] = Unused})

Freed(h, b) == IF b = Null THEN h ELSE [h EXCEPT ![b] = Unused]

FreeFault(b) == IF b = Null \/ IsLive(b) THEN fault ELSE "double free"

-----------------------------------------------------------------------------
(* stack.c *)

NextNode(b) == IF IsLive(b) /\ heap[b].kind = "node" THEN heap[b].next ELSE Null

Walk(start) ==
  LET node[k \in 0 .. MaxBlocks] == IF k = 0 THEN start ELSE NextNode(node[k - 1])
  IN node

(***************************************************************************)
(* _get_previous: the first node from start on that end follows.           *)
(***************************************************************************)
GetPrevious(start, end) ==
  LET node == Walk(start)
      At(k) == node[k] # Null /\ NextNode(node[k]) = end
  IN node[CHOOSE k \in 0 .. MaxBlocks : At(k) /\ \A j \in 0 .. k - 1 : ~At(j)]

GetLast(start)       == GetPrevious(start, Null)
GetBeforeLast(start) == GetPrevious(start, GetPrevious(start, Null))

(* h is the heap with the block new already taken. *)
StackPush(h, new, data) ==
  IF head = Null
    THEN head' = new /\ heap' = [h EXCEPT ![new] = Node(data, Null)]
    ELSE /\ head' = head
         /\ heap' = [h EXCEPT ![new] = Node(data, Null), ![GetLast(head)].next = new]

(* Mutant: the new last node still points to the one that went. *)
StackPopKeepsNext ==
  IF heap[head].next = Null
    THEN head' = Null /\ heap' = Freed(heap, head) /\ fault' = FreeFault(head)
    ELSE LET last == heap[GetBeforeLast(head)].next
         IN head' = head /\ heap' = Freed(heap, last) /\ fault' = FreeFault(last)

StackPop ==
  IF heap[head].next = Null
    THEN head' = Null /\ heap' = Freed(heap, head) /\ fault' = FreeFault(head)
    ELSE LET before == GetBeforeLast(head)
             last   == heap[before].next
         IN /\ head' = head
            /\ heap' = [Freed(heap, last) EXCEPT ![before].next = Null]
            /\ fault' = FreeFault(last)

(***************************************************************************)
(* The payloads of the list, in order, as the strings they point to.       *)
(***************************************************************************)
StringAt(pointer) ==
  CASE pointer = Argv -> cmd.name
    [] IsLive(pointer.block) /\ heap[pointer.block].kind = "deps" ->
         avail[heap[pointer.block].of].deps[pointer.token]
    [] OTHER -> NoPackage

ListNodes == {Walk(head)[k] : k \in 0 .. MaxBlocks} \ {Null}

-----------------------------------------------------------------------------
(* manager_fetch *)

InstallBegins ==
  /\ Begin /\ cmd'.action = "install"
  /\ UNCHANGED memVars

(***************************************************************************)
(* A call that goes past the guards holds its metadata and is on the list. *)
(***************************************************************************)
Enter(pointer) ==
  IF Len(calls') = Len(calls)
    THEN UNCHANGED memVars
    ELSE /\ \E info \in NewBlock(heap) :
              LET h == [heap EXCEPT ![info] = Info]
              IN /\ \E new \in NewBlock(h) : StackPush(h, new, pointer)
                 /\ locals' = Append(locals, [name |-> pointer, info |-> info,
                                              contents |-> Null, deps |-> Null])
         /\ UNCHANGED <<label, fault>>

FetchBegins == FetchRequested /\ Enter(Argv)

(***************************************************************************)
(* _append_to_buffer: realloc extends the block or moves it.               *)
(***************************************************************************)
SizeOf(b) == IF b = Null THEN 0 ELSE heap[b].size

Append_to_buffer ==
  /\ pc = "download" /\ Compatible(Top.name)
  /\ SizeOf(Mine.contents) < MaxChunks
  /\ LET old  == Mine.contents
         data == Data(SizeOf(old) + 1)
     IN \E new \in ({old} \ {Null}) \cup NewBlock(heap) :
          /\ heap' = [Freed(heap, old) EXCEPT ![new] = data]
          /\ locals' = [locals EXCEPT ![Len(locals)].contents = new]
  /\ UNCHANGED <<vars, head, label, fault>>

(***************************************************************************)
(* realloc fails: _append_to_buffer frees the block, buffer->buffer still  *)
(* points to it, and fetcher_fetch_to_memory frees what it points to.      *)
(***************************************************************************)
AppendFails ==
  /\ pc = "download" /\ Compatible(Top.name)
  /\ "memory" \in Faults
  /\ heap' = Freed(heap, Mine.contents)
  /\ IF Mine.contents = Null
       THEN DownloadFails /\ label' = "pop_from_stack" /\ fault' = fault
       ELSE UNCHANGED vars /\ label' = label /\ fault' = "append"
  /\ UNCHANGED <<head, locals>>

(* Mutant: manager_fetch frees what fetcher_fetch_to_memory freed. *)
TransferFailsTwice ==
  /\ DownloadFails
  /\ Compatible(Top.name)
  /\ heap' = Freed(heap, Mine.contents)
  /\ fault' = FreeFault(Mine.contents)
  /\ label' = "free_contents"
  /\ UNCHANGED <<head, locals>>

(***************************************************************************)
(* curl_easy_perform fails, after any number of pieces.  contents is left  *)
(* dangling, and not looked at again.                                      *)
(***************************************************************************)
TransferFails ==
  /\ DownloadFails
  /\ Compatible(Top.name)
  /\ heap' = Freed(heap, Mine.contents)
  /\ fault' = FreeFault(Mine.contents)
  /\ label' = "pop_from_stack"
  /\ UNCHANGED <<head, locals>>

WrongArchitecture ==
  /\ DownloadFails
  /\ ~Compatible(Top.name)
  /\ label' = "pop_from_stack"
  /\ UNCHANGED <<heap, head, locals, fault>>

(***************************************************************************)
(* package_open or package_verify refuses, also an empty download, or the  *)
(* reason cannot be copied.                                                *)
(***************************************************************************)
PackageRejected ==
  /\ DownloadFails
  /\ Compatible(Top.name)
  /\ label' = "free_contents"
  /\ UNCHANGED <<heap, head, locals, fault>>

PackageAccepted ==
  /\ Download
  /\ Mine.contents # Null
  /\ UNCHANGED memVars

(***************************************************************************)
(* manager_for_each_dependency reads the metadata again, for itself.       *)
(***************************************************************************)
DependenciesRead ==
  /\ pc = "deps" /\ Top.next = 1
  /\ Mine.deps = Null
  /\ \E new \in NewBlock(heap) :
       /\ heap' = [heap EXCEPT ![new] = DepsOf(Top.name)]
       /\ locals' = [locals EXCEPT ![Len(locals)].deps = new]
  /\ UNCHANGED <<vars, head, label, fault>>

DependenciesMissing ==
  /\ DependenciesUnreadable /\ Mine.deps = Null
  /\ label' = "free_contents"
  /\ UNCHANGED <<heap, head, locals, fault>>

DependencyBegins ==
  /\ pc = "deps" /\ Mine.deps # Null
  /\ InstallDependency
  /\ Enter([block |-> Mine.deps, token |-> Top.next])

FreeDependencies ==
  /\ heap' = Freed(heap, Mine.deps)
  /\ fault' = FreeFault(Mine.deps)
  /\ locals' = [locals EXCEPT ![Len(locals)].deps = Null]
  /\ UNCHANGED head

LoopEnds ==
  /\ DependenciesDone /\ Mine.deps # Null
  /\ FreeDependencies
  /\ UNCHANGED label

(* Mutant: a dependency that fails leaves the loop by return. *)
DependencyReturnsAtOnce ==
  /\ label = "none"
  /\ ReturnToCaller
  /\ IF ret = OK
       THEN UNCHANGED memVars
       ELSE label' = "free_contents" /\ UNCHANGED <<heap, head, locals, fault>>

DependencyReturns ==
  /\ label = "none"
  /\ ReturnToCaller
  /\ IF ret = OK
       THEN UNCHANGED memVars
       ELSE FreeDependencies /\ label' = "free_contents"

FilesUnpacked == Unpack /\ UNCHANGED memVars

BodyEnds ==
  /\ UnpackFails \/ Register \/ RegisterFails
  /\ label' = "free_contents"
  /\ UNCHANGED <<heap, head, locals, fault>>

(***************************************************************************)
(* The labels.  package_close does nothing.                                *)
(***************************************************************************)
FreeContents ==
  /\ label = "free_contents"
  /\ heap' = Freed(heap, Mine.contents)
  /\ fault' = FreeFault(Mine.contents)
  /\ label' = "pop_from_stack"
  /\ UNCHANGED <<vars, head, locals>>

PopNode ==
  /\ label = "pop_from_stack"
  /\ PopFromStack
  /\ StackPop
  /\ label' = "free_info"
  /\ UNCHANGED locals

FreeInfo ==
  /\ label = "free_info"
  /\ heap' = Freed(heap, Mine.info)
  /\ fault' = FreeFault(Mine.info)
  /\ locals' = SubSeq(locals, 1, Len(locals) - 1)
  /\ label' = "none"
  /\ UNCHANGED <<vars, head>>

(***************************************************************************)
(* The process ends, and its memory with it.                               *)
(***************************************************************************)
ProcessEnds ==
  /\ \/ label = "none" /\ fault = "none" /\ InstallEnds
     \/ Crash
  /\ heap' = Clean /\ head' = Null /\ locals' = <<>>
  /\ label' = "none" /\ fault' = "none"

MemoryNext ==
  \/ /\ fault = "none"
     /\ \/ InstallBegins \/ FetchBegins
        \/ Append_to_buffer \/ AppendFails \/ TransferFails \/ WrongArchitecture
        \/ PackageRejected \/ PackageAccepted
        \/ DependenciesRead \/ DependenciesMissing \/ DependencyBegins \/ LoopEnds
        \/ DependencyReturns \/ FilesUnpacked \/ BodyEnds
        \/ FreeContents \/ PopNode \/ FreeInfo
  \/ ProcessEnds

MemorySpec == MemoryInit /\ [][MemoryNext]_memoryVars

-----------------------------------------------------------------------------
(* Properties *)

(***************************************************************************)
(* The list holds the packages in progress in the order of the recursion,  *)
(* and every string it points to is alive: the frame that owns the string  *)
(* frees it only after the frame that pushed the pointer popped it.        *)
(***************************************************************************)
ListIsStack ==
  /\ \A k \in DOMAIN inst_stack :
       /\ Walk(head)[k - 1] # Null
       /\ IsLive(Walk(head)[k - 1]) /\ heap[Walk(head)[k - 1]].kind = "node"
       /\ StringAt(heap[Walk(head)[k - 1]].data) = inst_stack[k]
  /\ Walk(head)[Len(inst_stack)] = Null

(***************************************************************************)
(* Every block in use has exactly one owner that will free it, and every   *)
(* owner's block is in use and of the kind it takes it for: nothing leaks  *)
(* and nothing dangles, at any depth and on every path out.                *)
(***************************************************************************)
Discarded(i) == i = Len(locals) /\ label \in {"pop_from_stack", "free_info"}

Owns(i) ==
  {<<locals[i].info, "info">>, <<locals[i].deps, "deps">>}
    \cup (IF Discarded(i) THEN {} ELSE {<<locals[i].contents, "data">>})

Owners ==
  {<<b, "node">> : b \in ListNodes} \cup UNION {Owns(i) : i \in DOMAIN locals}

OneOwnerEach ==
  fault = "none" =>
    /\ \A o \in Owners : o[1] # Null => IsLive(o[1]) /\ heap[o[1]].kind = o[2]
    /\ \A b \in Block : IsLive(b) => <<b, heap[b].kind>> \in Owners
    /\ \A i, j \in DOMAIN locals : i # j => \A o \in Owns(i) \cap Owns(j) : o[1] = Null

(***************************************************************************)
(* No block is freed twice, with one exception, when a download that has   *)
(* begun cannot get more memory (_append_to_buffer).                       *)
(***************************************************************************)
OnlyAppendFreesTwice == fault \in {"none", "append"}
=============================================================================
