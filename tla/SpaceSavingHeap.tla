-------------------------- MODULE SpaceSavingHeap ---------------------------
(***************************************************************************)
(* The tracker of space_saving.go as it is kept: a binary min-heap of      *)
(* entries ordered by count, and an index from keys to places in the heap. *)
(* Places are numbered from 1, one more than in the code.                  *)
(***************************************************************************)
EXTENDS Integers, Sequences

Entry(key, count, maxError) == [key |-> key, count |-> count, maxError |-> maxError]

NewSpaceSaving == [heap |-> << >>, index |-> << >>]

Put(index, key, i) == [x \in DOMAIN index \union {key} |-> IF x = key THEN i ELSE index[x]]
Delete(index, key) == [x \in DOMAIN index \ {key} |-> index[x]]

(* Mutant: the index is forgotten.                                         *)
SwapAtHeapOnly(ss, i, j) ==
  [ss EXCEPT !.heap = [@ EXCEPT ![i] = ss.heap[j], ![j] = ss.heap[i]]]

SwapAt(ss, i, j) ==
  [heap |-> [ss.heap EXCEPT ![i] = ss.heap[j], ![j] = ss.heap[i]],
   index |-> [ss.index EXCEPT ![ss.heap[j].key] = i, ![ss.heap[i].key] = j]]

(* One round of the loop of heapifyUp, with the tracker and the place of   *)
(* the entry that moves; the last place is 0.                              *)
UpFrom(s) ==
  LET i == s.at
      p == i \div 2
  IN  IF i <= 1 \/ s.ss.heap[p].count <= s.ss.heap[i].count
      THEN s ELSE [ss |-> SwapAt(s.ss, p, i), at |-> p]

DownFrom(s) ==
  LET h == s.ss.heap
      i == s.at
      Least(a, b) == IF b <= Len(h) /\ h[b].count < h[a].count THEN b ELSE a
      smallest == Least(Least(i, 2*i), 2*i + 1)
  IN  IF smallest = i THEN s
      ELSE [ss |-> SwapAt(s.ss, i, smallest), at |-> smallest]

(* No entry moves more often than there are entries.                       *)
HeapifyUp(ss, i) ==
  LET round[n \in 0..Len(ss.heap)] ==
        IF n = 0 THEN [ss |-> ss, at |-> i] ELSE UpFrom(round[n-1])
  IN  round[Len(ss.heap)].ss

HeapifyDown(ss, i) ==
  LET round[n \in 0..Len(ss.heap)] ==
        IF n = 0 THEN [ss |-> ss, at |-> i] ELSE DownFrom(round[n-1])
  IN  round[Len(ss.heap)].ss

(* Update of a tracker of capacity k.                                      *)
SpaceSavingUpdate(ss, k, key, w) ==
  LET n == Len(ss.heap) IN
  IF w <= 0 THEN ss
  ELSE IF key \in DOMAIN ss.index
  THEN LET i == ss.index[key]
       IN  HeapifyDown([ss EXCEPT !.heap[i].count = @ + w], i)
  ELSE IF n < k
  THEN HeapifyUp([heap |-> Append(ss.heap, Entry(key, w, 0)),
                  index |-> Put(ss.index, key, n + 1)], n + 1)
  ELSE LET root == ss.heap[1]
       IN  HeapifyDown(
             [heap |-> [ss.heap EXCEPT ![1] = Entry(key, root.count + w, root.count)],
              index |-> Put(Delete(ss.index, root.key), key, 1)], 1)

(* The keys in the order of the heap.                                      *)
Candidates(ss) == [i \in 1..Len(ss.heap) |-> ss.heap[i].key]

(* The entries with a key: what SpaceSaving keeps per key.                 *)
EntriesOf(ss, key) == {i \in 1..Len(ss.heap) : ss.heap[i].key = key}
CountOf(ss, key) ==
  LET E == EntriesOf(ss, key)
  IN  IF E = {} THEN 0 ELSE ss.heap[CHOOSE i \in E : TRUE].count
ErrorOf(ss, key) ==
  LET E == EntriesOf(ss, key)
  IN  IF E = {} THEN 0 ELSE ss.heap[CHOOSE i \in E : TRUE].maxError
=============================================================================
