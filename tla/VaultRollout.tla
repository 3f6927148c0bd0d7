---------------------------- MODULE VaultRollout ----------------------------
(***************************************************************************)
(* The Alpha Vault commands of the studio (studio/src/lib/alpha_vault and  *)
(* actions/alpha_vault/create_alpha_vault.ts): create the vault of a pool, *)
(* then let the wallets of a CSV file in, by escrow accounts made for them *)
(* or by merkle roots whose proofs are written to files and uploaded.      *)
(*                                                                         *)
(* job[k].vault is the whitelist mode, job[k].list the CSV file (entries   *)
(* of MerkleTree, in file order), job[k].upload cloudflareKvProofUpload.   *)
(***************************************************************************)
EXTENDS Calls, MerkleTree

CONSTANTS
    ChunkSize,          \* chunkSize, or DEFAULT_NODES_PER_TREE (10 000)
    EscrowsPerTx        \* MAX_INSTRUCTIONS_PER_STAKE_ESCROW_ACCOUNTS_CREATED (8)

ASSUME ChunkAssumption == ChunkSize \in Nat \ {0} /\ EscrowsPerTx \in Nat \ {0}

VaultPlaces == {"vault", "lookForVault", "openVault", "writeProofs", "lookForRoot",
                "metadata", "readProofs", "putProofs"}

\* Everything is derived from the pool: that of the configured mint (0), or of
\* the mint this call has just created.
PoolOf(k) == IF job[k].newMint THEN k ELSE 0
\* The two kinds of DAMM v2 pool have the same address.
Program(k) == IF job[k].pool \in {"oneSided", "balanced"} THEN "dammV2" ELSE job[k].pool
thePool(k)  == <<"pool", PoolOf(k), Program(k)>>
theVault(k) == <<"vault", PoolOf(k)>>
theRoot(k, i) == <<"root", PoolOf(k), i>>
Metadata(k) == <<"metadata", PoolOf(k)>>

\* The i-th part, from 0, of a list cut into parts of `size`; the number of parts.
Part(list, size, i) ==
    {list[j] : j \in {n \in DOMAIN list : i * size < n /\ n <= (i + 1) * size}}
Parts(list, size) == (Len(list) + size - 1) \div size

InitVault(k, kind) == Creates(k, kind, {thePool(k)}, {theVault(k)})
createFcfsAlphaVault(k) == InitVault(k, "fcfs")
createProrataAlphaVault(k) == InitVault(k, "prorata")
\* alphaVaultType
NewVault(k) == IF job[k].fcfs THEN createFcfsAlphaVault(k) ELSE createProrataAlphaVault(k)

\* handleSendTxs: so many instructions per transaction, one after the other.
Slip_LastChunkShort(k, entries, size) ==
    [i \in 1..(Len(entries) \div size) |->
        {Creates(k, "escrow", {theVault(k)}, {<<"escrow", PoolOf(k), e>> : e \in Part(entries, size, i - 1)})}]
handleSendTxs(k, entries, size) ==
    [i \in 1..Parts(entries, size) |->
        {Creates(k, "escrow", {theVault(k)}, {<<"escrow", PoolOf(k), e>> : e \in Part(entries, size, i - 1)})}]

\* createMerkleRootConfig: a root says which list it was made from.
RootTx(k, i, part) ==
    [Creates(k, "root", {theVault(k)}, {theRoot(k, i)})
        EXCEPT !.makes = @ \cup {<<"rootOf", PoolOf(k), i, part>>}]

-----------------------------------------------------------------------------
\* createAlphaVault: a permissionless vault is created without looking.
EnterVault(k) ==
    /\ At(k, "vault") /\ Nothing
    /\ IF job[k].vault = "permissionless"
       THEN Send(k, <<{NewVault(k)}>>, "returned")
       ELSE Goto(k, "lookForVault")

\* createPermissionedAlphaVaultWith...: getAccountInfo of the vault.
LookForVault(k) ==
    /\ At(k, "lookForVault") /\ Read(k, {theVault(k)})
    /\ Send(k, IF theVault(k) \in facts THEN <<>> ELSE <<{NewVault(k)}>>, "openVault")

\* AlphaVault.create throws when there is no vault, which is what a dry run
\* of a new one meets.
NoVault(k) ==
    /\ At(k, "openVault") /\ Nothing
    /\ theVault(k) \notin facts
    /\ Goto(k, "stopped")

OpenForEscrows(k) ==
    /\ At(k, "openVault") /\ job[k].vault = "authority" /\ Nothing
    /\ theVault(k) \in facts
    /\ Send(k, handleSendTxs(k, job[k].list, EscrowsPerTx), "returned")

OpenForProofs(k) ==
    /\ At(k, "openVault") /\ job[k].vault = "merkle" /\ Nothing
    /\ theVault(k) \in facts
    /\ Try(k, <<>>, "writeProofs", Uncaught)
    /\ round' = [round EXCEPT ![k] = 0]
    /\ UNCHANGED facts

\* The proofs of part i go to file i.json, over what an earlier run wrote.
WriteProofs(k) ==
    /\ At(k, "writeProofs") /\ Nothing
    /\ LET part == Part(job[k].list, ChunkSize, round[k])
       IN facts' = {f \in facts : <<f[1], f[2]>> # <<"file", PoolOf(k)>> \/ f[3] # round[k]}
                   \cup {<<"file", PoolOf(k), round[k], part>>}
    /\ Try(k, <<>>, "lookForRoot", Uncaught)
    /\ UNCHANGED round

\* An existing root is kept, whatever list it was made from.
LookForRoot(k) ==
    /\ At(k, "lookForRoot")
    /\ Nothing
    /\ LET i == round[k]
           more == i + 1 < Parts(job[k].list, ChunkSize)
           tx == RootTx(k, i, Part(job[k].list, ChunkSize, i))
       IN /\ Try(k, IF theRoot(k, i) \in facts THEN <<>> ELSE <<{tx}>>,
                 IF more THEN "writeProofs" ELSE IF job[k].upload THEN "metadata" ELSE "returned",
                 Uncaught)
          /\ round' = [round EXCEPT ![k] = IF more THEN i + 1 ELSE 0]
    /\ UNCHANGED facts

\* createMerkleProofMetadata
LookForMetadata(k) ==
    /\ At(k, "metadata") /\ Nothing
    /\ Send(k, IF Metadata(k) \in facts THEN <<>>
               ELSE <<{Creates(k, "metadata", {theVault(k)}, {Metadata(k)})}>>, "readProofs")

\* uploadProof reads every file of the folder, those of an earlier run too,
ReadProofs(k) ==
    /\ At(k, "readProofs")
    /\ Keep(k, {f \in facts : f[1] = "file" /\ f[2] = PoolOf(k)})
    /\ Goto(k, "putProofs")

\* and puts one after the other, each until the service reports success (a
\* reported failure changes nothing), also in a dry run.
PutProofs(k) ==
    /\ At(k, "putProofs")
    /\ LET left == {f \in seen[k] : f[1] = "file" /\ f[3] >= round[k]}
       IN \E f \in left :
             /\ \A g \in left : f[3] <= g[3]
             /\ facts' = {x \in facts : <<x[1], x[2]>> # <<"proof", f[2]>> \/ x[3] \notin f[4]}
                         \cup {<<"proof", f[2], e, f[3], f[4]>> : e \in f[4]}
             /\ round' = [round EXCEPT ![k] = f[3] + 1]
             /\ Try(k, <<>>, IF left = {f} THEN "returned" ELSE "putProofs", Uncaught)
    /\ Nothing

VaultStep(k) ==
    \/ EnterVault(k) \/ LookForVault(k) \/ NoVault(k) \/ OpenForEscrows(k) \/ OpenForProofs(k)
    \/ WriteProofs(k) \/ LookForRoot(k) \/ LookForMetadata(k) \/ ReadProofs(k) \/ PutProofs(k)

-----------------------------------------------------------------------------
\* What a wallet can show against what is on chain.
LetIn(e, pool) ==
    \/ <<"escrow", pool, e>> \in facts
    \/ /\ \E p \in facts : p[1] = "proof" /\ p[2] = pool /\ p[3] = e
       /\ \A p \in facts : p[1] = "proof" /\ p[2] = pool /\ p[3] = e =>
             \E r \in facts : /\ r[1] = "rootOf" /\ r[2] = pool /\ r[3] = p[4]
                              /\ verifyProof(e, getProof(p[5], e), getRoot(r[4]))

SameList(k) == \A j \in Call : job[j].list = job[k].list

\* Once a rollout returns, every wallet of the list is let in: its escrow is
\* there, or the proof in the store verifies against the root on chain,
\* however often it was stopped in between and begun again.  The list must be
\* the same in every run: existing roots are kept.
ReturnedMeansLetIn ==
    \A k \in Call :
       /\ At(k, "returned") /\ job[k].cmd \in {"vault", "createPool"} /\ ~job[k].dry
       /\ job[k].vault = "authority" \/ (job[k].vault = "merkle" /\ job[k].upload)
       /\ SameList(k)
       => \A i \in DOMAIN job[k].list : LetIn(job[k].list[i], PoolOf(k))
=============================================================================
