----------------------------- MODULE KeyManager -----------------------------
(***************************************************************************)
(* The key manager of internal/edg/key.go: one random salt per file number,*)
(* kept in memory and in the append-only SALTCHAIN file, whose blocks are  *)
(* linked by HMACs.  Create runs concurrently from flushes, compactions,   *)
(* WAL rotations and manifest creations; the process may exit and the      *)
(* machine may lose power between any two of its steps, and WriteApproved  *)
(* and Sync may fail.                                                      *)
(*                                                                         *)
(* Abstractions.  An HMAC is what it authenticates: the sequence of        *)
(* <<fileNum, salt>> pairs up to its block, so two MACs are equal exactly  *)
(* when their inputs are.  A salt (16 random bytes) is a number never      *)
(* drawn before.  A key is its salt: derive is a function of the salt.     *)
(***************************************************************************)
EXTENDS Integers, Sequences, FiniteSets

CONSTANTS Procs,      \* goroutines that call Create
          FileNums,   \* file numbers
          MaxSalts,   \* bound: salts drawn in a behaviour
          MayFail,    \* the calls of Create that may return an error: "write", "sync"
          Torn,       \* the bytes of a block that a failed write or a crash left incomplete
          NoBlock,    \* a goroutine outside Create has no block
          NoProc      \* no goroutine holds the mutex

ASSUME KeyManagerAssumption ==
    /\ MaxSalts \in Nat
    /\ MayFail \subseteq {"write", "sync"}
    /\ NoProc \notin Procs
    /\ {Torn, NoBlock} \cap [fileNum : FileNums, salt : 1 .. MaxSalts, mac : Seq(FileNums \X (1 .. MaxSalts))] = {}

NoSalt == 0
Salts == 1 .. MaxSalts

VARIABLES
    file,      \* SALTCHAIN as a reader sees it: whole blocks and torn pieces
    durable,   \* how many elements of file survive a power loss
    status,    \* "open": a KeyManager exists; "closed"; "rejected": NewKeyManager failed
    lastMAC,   \* KeyManager.lastMAC
    salts,     \* KeyManager.salts
    mu,        \* holder of KeyManager.mu
    pc, block, \* the Create call of each goroutine: where it is, and its saltBlock
    nextSalt,  \* the next salt rand.Read returns
    acked,     \* history: the blocks of the calls of Create that returned a key
    latest,    \* history: the last key Create returned for each file number
    damaged    \* history: an I/O call failed or a block was torn
vars == <<file, durable, status, lastMAC, salts, mu, pc, block, nextSalt, acked, latest, damaged>>

(***************************************************************************)
(* saltBlock, hmac and the SALTCHAIN file                                  *)
(***************************************************************************)
Pairs == FileNums \X Salts
saltBlock == [fileNum : FileNums, salt : Salts, mac : Seq(Pairs)]

hmac(fileNum, salt, previousMAC) == Append(previousMAC, <<fileNum, salt>>)

\* The MAC of the n-th block of a chain, recomputed from its first block on.
ChainMAC(c, n) == [i \in 1 .. n |-> <<c[i].fileNum, c[i].salt>>]

\* The checks of the read loop: io.ReadFull fails on a trailing piece, and the
\* bytes that follow a torn piece are no longer aligned to blocks, so that the
\* comparison of the MACs fails.
Verifies(c) == \A i \in 1 .. Len(c) : c[i] # Torn /\ c[i].mac = ChainMAC(c, i)

\* The map the read loop leaves: a later block of a file number shadows the
\* earlier ones.
BlocksOf(c, f) == {i \in 1 .. Len(c) : c[i].fileNum = f}
FirstBlock(c, f) == CHOOSE i \in BlocksOf(c, f) : \A j \in BlocksOf(c, f) : i <= j     \* mutant
LastBlock(c, f) == CHOOSE i \in BlocksOf(c, f) : \A j \in BlocksOf(c, f) : j <= i
SaltsIn(c) ==
    [f \in FileNums |-> IF BlocksOf(c, f) = {} THEN NoSalt ELSE c[LastBlock(c, f)].salt]

-----------------------------------------------------------------------------
Init ==
    /\ file = << >>
    /\ durable = 0
    /\ status = "closed"
    /\ lastMAC = << >>
    /\ salts = [f \in FileNums |-> NoSalt]
    /\ mu = NoProc
    /\ pc = [p \in Procs |-> "idle"]
    /\ block = [p \in Procs |-> NoBlock]
    /\ nextSalt = 1
    /\ acked = {}
    /\ latest = [f \in FileNums |-> NoSalt]
    /\ damaged = FALSE

\* NewKeyManager: read and verify the file; on an error there is no manager.
NewKeyManager ==
    /\ status # "open"
    /\ IF Verifies(file)
       THEN /\ status' = "open"
            /\ lastMAC' = ChainMAC(file, Len(file))
            /\ salts' = SaltsIn(file)
       ELSE /\ status' = "rejected"
            /\ UNCHANGED <<lastMAC, salts>>
    /\ UNCHANGED <<file, durable, mu, pc, block, nextSalt, acked, latest, damaged>>

\* Create up to mu.Lock: a fresh salt, and the key derived from it.
CreatePrepare(p, f) ==
    /\ status = "open"
    /\ pc[p] = "idle"
    /\ nextSalt <= MaxSalts
    /\ nextSalt' = nextSalt + 1
    /\ pc' = [pc EXCEPT ![p] = "prepared"]
    /\ block' = [block EXCEPT ![p] = [fileNum |-> f, salt |-> nextSalt, mac |-> << >>]]
    /\ UNCHANGED <<file, durable, status, lastMAC, salts, mu, acked, latest, damaged>>

NotLocked == TRUE     \* mutant
MutexFree == mu = NoProc

\* mu.Lock, hmac over lastMAC and WriteApproved.
CreateWrite(p) ==
    /\ pc[p] = "prepared"
    /\ MutexFree
    /\ LET b == [block[p] EXCEPT !.mac = hmac(block[p].fileNum, block[p].salt, lastMAC)]
       IN  /\ block' = [block EXCEPT ![p] = b]
           /\ file' = Append(file, b)
    /\ mu' = p
    /\ pc' = [pc EXCEPT ![p] = "written"]
    /\ UNCHANGED <<durable, status, lastMAC, salts, nextSalt, acked, latest, damaged>>

\* WriteApproved returns an error after it wrote nothing, a part of the block
\* or all of it: Create unlocks and returns the error.
CreateWriteFails(p) ==
    /\ "write" \in MayFail
    /\ pc[p] = "prepared"
    /\ MutexFree
    /\ \/ file' = file
       \/ file' = Append(file, Torn)
       \/ file' = Append(file, [block[p] EXCEPT !.mac = hmac(block[p].fileNum, block[p].salt, lastMAC)])
    /\ pc' = [pc EXCEPT ![p] = "idle"]
    /\ block' = [block EXCEPT ![p] = NoBlock]
    /\ damaged' = TRUE
    /\ UNCHANGED <<durable, status, lastMAC, salts, mu, nextSalt, acked, latest>>

\* Sync, then lastMAC and salts, then the deferred Unlock and the key returned.
SyncedLength == Len(file)

NewMAC(b) == b.mac

CreateSync(p) ==
    /\ pc[p] = "written"
    /\ durable' = SyncedLength
    /\ lastMAC' = NewMAC(block[p])
    /\ salts' = [salts EXCEPT ![block[p].fileNum] = block[p].salt]
    /\ mu' = NoProc
    /\ pc' = [pc EXCEPT ![p] = "idle"]
    /\ block' = [block EXCEPT ![p] = NoBlock]
    /\ acked' = acked \cup {<<block[p].fileNum, block[p].salt>>}
    /\ latest' = [latest EXCEPT ![block[p].fileNum] = block[p].salt]
    /\ UNCHANGED <<file, status, nextSalt, damaged>>

\* Sync returns an error: the block stays in the file, lastMAC is not advanced.
CreateSyncFails(p) ==
    /\ "sync" \in MayFail
    /\ pc[p] = "written"
    /\ mu' = NoProc
    /\ pc' = [pc EXCEPT ![p] = "idle"]
    /\ block' = [block EXCEPT ![p] = NoBlock]
    /\ damaged' = TRUE
    /\ UNCHANGED <<file, durable, status, lastMAC, salts, nextSalt, acked, latest>>

\* The process is gone: its memory and its calls with it.
Forget ==
    /\ status' = "closed"
    /\ lastMAC' = << >>
    /\ salts' = [f \in FileNums |-> NoSalt]
    /\ mu' = NoProc
    /\ pc' = [p \in Procs |-> "idle"]
    /\ block' = [p \in Procs |-> NoBlock]

\* Close at the end of DB.Close, when no call of Create is running.
Close ==
    /\ status = "open"
    /\ \A p \in Procs : pc[p] = "idle"
    /\ Forget
    /\ UNCHANGED <<file, durable, nextSalt, acked, latest, damaged>>

\* The process exits; what it wrote stays with the operating system.
ProcessExit ==
    /\ status = "open"
    /\ Forget
    /\ UNCHANGED <<file, durable, nextSalt, acked, latest, damaged>>

\* Power loss: what was synced survives, and any prefix of the rest, of which
\* the last block may be incomplete.
PowerLoss ==
    /\ Forget
    /\ \E n \in durable .. Len(file) :
          \/ /\ file' = SubSeq(file, 1, n)
             /\ durable' = n
             /\ damaged' = damaged
          \/ /\ n < Len(file)
             /\ file' = Append(SubSeq(file, 1, n), Torn)
             /\ durable' = n + 1
             /\ damaged' = TRUE
    /\ UNCHANGED <<nextSalt, acked, latest>>

Next ==
    \/ NewKeyManager \/ Close \/ ProcessExit \/ PowerLoss
    \/ \E p \in Procs :
          \/ \E f \in FileNums : CreatePrepare(p, f)
          \/ CreateWrite(p) \/ CreateWriteFails(p)
          \/ CreateSync(p) \/ CreateSyncFails(p)

Spec == Init /\ [][Next]_vars

\* Get under mu: the salt of the file number, or "fileNum not found".
Get(f) == salts[f]

-----------------------------------------------------------------------------
\* Every variable has its type; a torn piece is never taken for a block.
TypeOK ==
    /\ file \in Seq(saltBlock \cup {Torn})
    /\ durable \in 0 .. Len(file)
    /\ status \in {"open", "closed", "rejected"}
    /\ lastMAC \in Seq(Pairs)
    /\ salts \in [FileNums -> Salts \cup {NoSalt}]
    /\ mu \in Procs \cup {NoProc}
    /\ pc \in [Procs -> {"idle", "prepared", "written"}]
    /\ block \in [Procs -> saltBlock \cup {NoBlock}]
    /\ nextSalt \in 1 .. MaxSalts + 1
    /\ acked \in SUBSET Pairs
    /\ latest \in [FileNums -> Salts \cup {NoSalt}]
    /\ damaged \in BOOLEAN

-----------------------------------------------------------------------------
(* Why the properties below hold, step by step.                            *)

Busy(p) == pc[p] # "idle"
PairOf(b) == <<b.fileNum, b.salt>>

\* The mutex is held between the write and the end of the Sync, and only an
\* open manager has calls.
MutexInv ==
    /\ \A p \in Procs : pc[p] = "written" <=> mu = p
    /\ status # "open" => \A p \in Procs : ~Busy(p)

\* No two calls drew the same salt, and none that was answered.
SaltInv ==
    /\ \A p \in Procs : Busy(p) => block[p] \in saltBlock /\ block[p].salt < nextSalt /\ PairOf(block[p]) \notin acked
    /\ \A p, q \in Procs : Busy(p) /\ Busy(q) /\ p # q => block[p].salt # block[q].salt
    /\ \A a \in acked : a[2] < nextSalt

\* Nothing is written behind a block before its Sync ended.
WrittenInv == \A p \in Procs : pc[p] = "written" => file # << >> /\ file[Len(file)] = block[p]

\* The block of the last key answered for a file number is durable, and what
\* follows it for that number was never answered.
LatestInv ==
    \A f \in FileNums : latest[f] # NoSalt =>
        \E i \in 1 .. durable :
            /\ file[i] # Torn /\ PairOf(file[i]) = <<f, latest[f]>>
            /\ \A j \in i + 1 .. Len(file) :
                   file[j] # Torn /\ file[j].fileNum = f => PairOf(file[j]) \notin acked

-----------------------------------------------------------------------------
\* A key that Create returned is not lost and an older one never comes back:
\* while a manager is open, Get of a file number some Create answered gives
\* the last key answered, or the key of a Create that never returned (it wrote
\* its block and then the machine stopped or the Sync failed).
AckedKeysSurvive ==
    status = "open" =>
        \A f \in FileNums :
            latest[f] # NoSalt =>
                \/ Get(f) = latest[f]
                \/ Get(f) # NoSalt /\ <<f, Get(f)>> \notin acked

\* SALTCHAIN is an append-only chain of blocks linked by HMACs, and lastMAC is
\* the MAC of its last block when no Create is between its write and its Sync,
\* whatever the order of concurrent calls, exits and power losses, as long as
\* no I/O call failed and no block was torn.
ChainIsLinked ==
    ~damaged =>
        /\ Verifies(file)
        /\ status = "open" /\ mu = NoProc => lastMAC = ChainMAC(file, Len(file))

\* The file Create returned a key for can be opened after a power loss: the
\* block of every key answered is in the durable part of the file.
AckedKeysDurable ==
    \A a \in acked : \E i \in 1 .. durable : file[i] # Torn /\ <<file[i].fileNum, file[i].salt>> = a

\* The mutex makes the file and the memory of the manager one: whatever the
\* calls, failures and crashes, a block that follows the last one answered for
\* its file number belongs to a call that was not answered, and no block is
\* written between another's write and its Sync.
SaltChainInv == MutexInv /\ SaltInv /\ WrittenInv /\ LatestInv

\* key.go says the file is "an append-only chain of saltBlocks, linked by
\* HMACs": a file of whole blocks is a chain that verifies, even after Create
\* returned the error of a Sync.
LinkedByHMACs == (\A i \in 1 .. Len(file) : file[i] # Torn) => Verifies(file)
=============================================================================
