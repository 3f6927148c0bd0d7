----------------------------- MODULE MerkleTree -----------------------------
(***************************************************************************)
(* The whitelist tree of an Alpha Vault                                    *)
(* (studio/src/lib/alpha_vault/merkle_tree): balance_tree.ts hashes an     *)
(* entry to a leaf, merkle_tree.ts builds the layers and the proofs.       *)
(*                                                                         *)
(* An entry, a wallet with its cap, is a number; the numbers are in the    *)
(* order of the leaves' hashes.  A hash is the tree of what was hashed:    *)
(* equal only for equal arguments, as sha256 is taken to be.               *)
(***************************************************************************)
EXTENDS ListPlaces

CONSTANT MaxLeaves      \* the largest whitelist that is tried

ASSUME LeavesAssumption == MaxLeaves \in Nat

\* The prefix 0 of a leaf and the prefix 1 of a node keep them apart.
toNode(entry) == [leaf |-> entry]

\* sortAndConcat makes the hash one of an unordered pair.
combinedHash(first, second) == [pair |-> {first, second}]

\* Sorted, and each once (bufDedup).
Sorted(entries) ==
    LET order == Ascending(entries) IN [i \in DOMAIN order |-> toNode(order[i])]

\* An odd last element moves up as it is.
getNextLayer(layer) ==
    [i \in 1..((Len(layer) + 1) \div 2) |->
        IF 2 * i <= Len(layer) THEN combinedHash(layer[2 * i - 1], layer[2 * i])
        ELSE layer[2 * i - 1]]

\* Layer after layer until one has a single element.
Layers(elements) ==
    LET layer[d \in 1..Len(elements)] ==
            IF d = 1 THEN elements ELSE getNextLayer(layer[d - 1])
    IN layer
getLayers(elements) ==
    LET layer == Layers(elements)
        last == CHOOSE d \in 1..Len(elements) :
                    Len(layer[d]) = 1 /\ \A e \in 1..(d - 1) : Len(layer[e]) > 1
    IN [d \in 1..last |-> layer[d]]

getRoot(entries) == LET layers == getLayers(Sorted(entries)) IN layers[Len(layers)][1]

\* The neighbour at idx (counted from 0), none for an odd last element.
getPairElement(idx, layer) ==
    LET pairIdx == IF idx % 2 = 0 THEN idx + 1 ELSE idx - 1
    IN IF pairIdx < Len(layer) THEN <<layer[pairIdx + 1]>> ELSE <<>>

\* From the place of the entry up through all layers, one with each turn.
Climbed(w, layer) == [idx |-> w.idx \div 2, proof |-> w.proof \o getPairElement(w.idx, layer)]
Walk(layers, start) ==
    LET walk[d \in 0..Len(layers)] ==
            IF d = 0 THEN [idx |-> start, proof |-> <<>>] ELSE Climbed(walk[d - 1], layers[d])
    IN walk
getProof(entries, entry) ==
    LET elements == Sorted(entries)
        layers == getLayers(elements)
        place == CHOOSE i \in DOMAIN elements : elements[i] = toNode(entry)
    IN Walk(layers, place - 1)[Len(layers)].proof

\* The program hashes upwards from the leaf.
Hashed(leaf, proof) ==
    LET node[i \in 0..Len(proof)] ==
            IF i = 0 THEN leaf ELSE combinedHash(node[i - 1], proof[i])
    IN node
verifyProof(entry, proof, root) == Hashed(toNode(entry), proof)[Len(proof)] = root

-----------------------------------------------------------------------------
\* For every number of entries, odd ones included, the proof written for an
\* entry verifies against the root that is put on chain, and no entry outside
\* the list passes with the proof of another.
WholeListVerifies ==
    \A n \in 1..MaxLeaves : \A entry \in 1..n :
        LET proof == getProof(1..n, entry)
            root == getRoot(1..n)
        IN /\ verifyProof(entry, proof, root)
           /\ ~verifyProof(n + 1, proof, root)
=============================================================================
