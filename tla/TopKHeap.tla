------------------------------ MODULE TopKHeap ------------------------------
(***************************************************************************)
(* The heap of the K largest estimates (common/heap.go): a binary min-heap *)
(* of keys and counts.  Places are numbered from 1, one more than in the   *)
(* code.                                                                   *)
(***************************************************************************)
EXTENDS Integers, Sequences

Item(key, count) == [key |-> key, count |-> count]

(* Find: the place of the first item with the key, 0 when there is none.   *)
Find(h, key) ==
  LET S == {i \in 1..Len(h) : h[i].key = key}
  IN  IF S = {} THEN 0 ELSE CHOOSE i \in S : \A j \in S : i <= j

Swap(h, i, j) == [h EXCEPT ![i] = h[j], ![j] = h[i]]

(* One round of the loops of updateOrderDown and updateOrderUp.            *)
Down(s) ==
  LET h == s.heap
      i == s.at
      Least(a, b) == IF b <= Len(h) /\ h[b].count < h[a].count THEN b ELSE a
      smallest == Least(Least(i, 2*i), 2*i + 1)
  IN  IF smallest = i THEN s ELSE [heap |-> Swap(h, i, smallest), at |-> smallest]

Up(s) ==
  LET p == s.at \div 2 IN
  IF s.at <= 1 \/ s.heap[p].count <= s.heap[s.at].count
  THEN s ELSE [heap |-> Swap(s.heap, p, s.at), at |-> p]

OrderDown(h, i) ==
  LET round[n \in 0..Len(h)] ==
        IF n = 0 THEN [heap |-> h, at |-> i] ELSE Down(round[n-1])
  IN  round[Len(h)]

OrderUp(h, i) ==
  LET round[n \in 0..Len(h)] ==
        IF n = 0 THEN [heap |-> h, at |-> i] ELSE Up(round[n-1])
  IN  round[Len(h)].heap

UpdateOrder(h, i) ==
  LET down == OrderDown(h, i)
  IN  IF down.at > i THEN down.heap ELSE OrderUp(down.heap, i)

(* Mutant: a new item stays at the end.                                    *)
InsertAtEnd(h, k, key, count) ==
  IF Len(h) < k THEN Append(h, Item(key, count))
  ELSE IF h[1].count < count THEN OrderDown([h EXCEPT ![1] = Item(key, count)], 1).heap
  ELSE h

Insert(h, k, key, count) ==
  IF Len(h) < k THEN OrderUp(Append(h, Item(key, count)), Len(h) + 1)
  ELSE IF h[1].count < count THEN OrderDown([h EXCEPT ![1] = Item(key, count)], 1).heap
  ELSE h

(* Update of a heap of capacity k.                                         *)
TopKUpdate(h, k, key, count) ==
  LET i == Find(h, key)
  IN  IF i # 0 THEN UpdateOrder([h EXCEPT ![i].count = count], i)
      ELSE Insert(h, k, key, count)

HeapOrdered(h) == \A i \in 2..Len(h) : h[i \div 2].count <= h[i].count
=============================================================================
