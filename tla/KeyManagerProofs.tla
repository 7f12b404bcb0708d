-------------------------- MODULE KeyManagerProofs --------------------------
(***************************************************************************)
(* Proofs about KeyManager for any goroutines, file numbers and number of  *)
(* salts.  The inductive invariant is TypeOK /\ SaltChainInv together with *)
(* the three properties; one lemma per conjunct says that every step keeps *)
(* it.  What NewKeyManager reads from the file is a matter of the greatest *)
(* element of a finite set of positions, which the well-foundedness of the *)
(* natural numbers gives.                                                  *)
(***************************************************************************)
EXTENDS KeyManager, WellFoundedInduction, SequenceTheorems, TLAPS

LEMMA LeastElement ==
    ASSUME NEW T \in SUBSET Nat, T # {}
    PROVE  \E m \in T : \A k \in T : m <= k
<1> DEFINE R == OpToRel(<, Nat)
<1>1. IsWellFoundedOn(R, Nat)
  BY NatLessThanWellFounded
<1>2. PICK m \in T : \A k \in T : <<k, m>> \notin R
  BY <1>1, WFMin, Zenon
<1>3. \A k \in T : ~(k < m)
  BY <1>2 DEF OpToRel
<1> QED BY <1>3

LEMMA GreatestElement ==
    ASSUME NEW n \in Nat, NEW S \in SUBSET (1 .. n), S # {}
    PROVE  \E m \in S : \A k \in S : k <= m
<1> DEFINE T == {n - k : k \in S}
<1>1. \A k \in S : k \in Int /\ n - k \in Nat
  OBVIOUS
<1>2. T \in SUBSET Nat
  BY <1>1
<1>3. T # {}
  OBVIOUS
<1>4. PICK t \in T : \A u \in T : t <= u
  BY <1>2, <1>3, LeastElement
<1>5. PICK m \in S : t = n - m
  BY <1>4
<1>6. \A k \in S : n - m <= n - k
  BY <1>4, <1>5
<1> QED BY <1>1, <1>6

\* LastBlock is the last block of the file number, if it has one.
LEMMA LastBlockIsLast ==
    ASSUME NEW c \in Seq(saltBlock), NEW f \in FileNums, BlocksOf(c, f) # {}
    PROVE  /\ LastBlock(c, f) \in BlocksOf(c, f)
           /\ \A j \in BlocksOf(c, f) : j <= LastBlock(c, f)
<1>1. BlocksOf(c, f) \in SUBSET (1 .. Len(c)) /\ Len(c) \in Nat
  BY DEF BlocksOf
<1>2. \E m \in BlocksOf(c, f) : \A k \in BlocksOf(c, f) : k <= m
  BY <1>1, GreatestElement
<1> QED BY <1>2 DEF LastBlock

\* The block Create writes.
LinkedBlock(p) == [block[p] EXCEPT !.mac = hmac(block[p].fileNum, block[p].salt, lastMAC)]

LEMMA LinkedBlockType ==
    ASSUME TypeOK, SaltInv, NEW p \in Procs, Busy(p)
    PROVE  /\ LinkedBlock(p) \in saltBlock /\ LinkedBlock(p) # Torn
           /\ LinkedBlock(p).fileNum = block[p].fileNum
           /\ LinkedBlock(p).salt = block[p].salt
           /\ LinkedBlock(p).mac = Append(lastMAC, PairOf(block[p]))
<1>1. block[p] \in saltBlock
  BY DEF SaltInv
<1>2. lastMAC \in Seq(Pairs) /\ PairOf(block[p]) \in Pairs
  BY <1>1 DEF TypeOK, Pairs, PairOf, saltBlock
<1> DEFINE b == block[p]
           m == hmac(b.fileNum, b.salt, lastMAC)
<1>3. m = Append(lastMAC, PairOf(b)) /\ m \in Seq(Pairs)
  BY <1>2 DEF hmac, PairOf
<1> HIDE DEF m, b
<1>4. /\ [b EXCEPT !.mac = m] \in saltBlock
      /\ [b EXCEPT !.mac = m].fileNum = b.fileNum
      /\ [b EXCEPT !.mac = m].salt = b.salt
      /\ [b EXCEPT !.mac = m].mac = m
  <2>1. b \in [fileNum : FileNums, salt : Salts, mac : Seq(Pairs)]
    BY <1>1 DEF saltBlock, b
  <2> QED BY <1>3, <2>1 DEF saltBlock
<1>5. Torn \notin saltBlock
  BY KeyManagerAssumption DEF saltBlock, Pairs, Salts
<1>6. LinkedBlock(p) = [b EXCEPT !.mac = m]
  BY DEF LinkedBlock, m, b
<1>7. b = block[p]
  BY DEF b
<1> QED BY <1>3, <1>4, <1>5, <1>6, <1>7

\* What the file holds after an element was appended, or a tail was cut off.
LEMMA AppendedFile ==
    ASSUME TypeOK, NEW b \in saltBlock \cup {Torn}, file' = Append(file, b)
    PROVE  /\ file' \in Seq(saltBlock \cup {Torn})
           /\ Len(file) \in Nat /\ Len(file') = Len(file) + 1
           /\ \A i \in 1 .. Len(file) : file'[i] = file[i]
           /\ file'[Len(file')] = b
  BY DEF TypeOK

LEMMA CutFile ==
    ASSUME TypeOK, PowerLoss
    PROVE  \E n \in durable .. Len(file) :
              /\ file' \in Seq(saltBlock \cup {Torn})
              /\ durable' = Len(file') /\ Len(file') \in {n, n + 1}
              /\ n \in Nat /\ durable \in Nat /\ Len(file) \in Nat
              /\ \A i \in 1 .. n : file'[i] = file[i]
              /\ Len(file') = n + 1 => file'[n + 1] = Torn
              /\ ~damaged' => ~damaged /\ Len(file') = n
<1>1. file \in Seq(saltBlock \cup {Torn}) /\ Len(file) \in Nat /\ durable \in 0 .. Len(file)
  BY DEF TypeOK
<1>2. PICK n \in durable .. Len(file) :
          \/ file' = SubSeq(file, 1, n) /\ durable' = n /\ damaged' = damaged
          \/ file' = Append(SubSeq(file, 1, n), Torn) /\ durable' = n + 1 /\ damaged' = TRUE
  BY DEF PowerLoss
<1>3. /\ n \in Nat /\ SubSeq(file, 1, n) \in Seq(saltBlock \cup {Torn})
      /\ Len(SubSeq(file, 1, n)) = n
      /\ \A i \in 1 .. n : SubSeq(file, 1, n)[i] = file[i]
  BY <1>1, <1>2, SubSeqProperties
<1>4. CASE file' = SubSeq(file, 1, n) /\ durable' = n /\ damaged' = damaged
  BY <1>1, <1>2, <1>3, <1>4
<1>5. CASE file' = Append(SubSeq(file, 1, n), Torn) /\ durable' = n + 1 /\ damaged' = TRUE
  <2>1. /\ file' \in Seq(saltBlock \cup {Torn}) /\ Len(file') = n + 1 /\ file'[n + 1] = Torn
        /\ \A i \in 1 .. n : file'[i] = file[i]
    BY <1>3, <1>5, AppendProperties
  <2>2. Len(file') # n /\ Len(file') \in {n, n + 1} /\ durable' = Len(file')
    BY <1>3, <1>5, <2>1
  <2>3. damaged'
    BY <1>5
  <2> QED BY <1>1, <1>3, <2>1, <2>2, <2>3
<1> QED BY <1>2, <1>4, <1>5

-----------------------------------------------------------------------------
LEMMA InitType == Init => TypeOK
<1> SUFFICES ASSUME Init PROVE TypeOK
  OBVIOUS
<1>1. file \in Seq(saltBlock \cup {Torn}) /\ durable \in 0 .. Len(file) /\ lastMAC \in Seq(Pairs)
  BY DEF Init
<1>2. salts \in [FileNums -> Salts \cup {NoSalt}] /\ latest \in [FileNums -> Salts \cup {NoSalt}]
  BY DEF Init
<1>3. pc \in [Procs -> {"idle", "prepared", "written"}] /\ block \in [Procs -> saltBlock \cup {NoBlock}]
  BY DEF Init
<1>4. nextSalt \in 1 .. MaxSalts + 1 /\ acked \in SUBSET Pairs
  BY KeyManagerAssumption DEF Init
<1>5. damaged \in BOOLEAN
  BY DEF Init
<1>6. mu \in Procs \cup {NoProc} /\ status \in {"open", "closed", "rejected"}
  BY DEF Init
<1> QED BY <1>1, <1>2, <1>3, <1>4, <1>5, <1>6 DEF TypeOK

LEMMA ForgetType ==
    ASSUME Forget
    PROVE  /\ status' = "closed" /\ mu' = NoProc
           /\ lastMAC' \in Seq(Pairs) /\ salts' \in [FileNums -> Salts \cup {NoSalt}]
           /\ \A p \in Procs : pc'[p] = "idle"
           /\ pc' \in [Procs -> {"idle", "prepared", "written"}]
           /\ block' \in [Procs -> saltBlock \cup {NoBlock}]
<1>1. lastMAC' = << >> /\ << >> \in Seq(Pairs)
  BY DEF Forget
<1> QED BY <1>1 DEF Forget

\* The map that the read loop of NewKeyManager leaves.
LEMMA SaltsInFile ==
    ASSUME NEW c \in Seq(saltBlock \cup {Torn}), Verifies(c)
    PROVE  /\ SaltsIn(c) \in [FileNums -> Salts \cup {NoSalt}]
           /\ \A f \in FileNums, i \in 1 .. Len(c) : c[i].fileNum = f =>
                 \E j \in i .. Len(c) : c[j].fileNum = f /\ SaltsIn(c)[f] = c[j].salt
<1>1. c \in Seq(saltBlock) /\ Len(c) \in Nat
  <2>1. \A i \in 1 .. Len(c) : c[i] \in saltBlock
    BY DEF Verifies
  <2> QED BY <2>1, SeqDef
<1>2. ASSUME NEW f \in FileNums, BlocksOf(c, f) # {}
      PROVE  /\ LastBlock(c, f) \in 1 .. Len(c) /\ c[LastBlock(c, f)] \in saltBlock
             /\ c[LastBlock(c, f)].fileNum = f
             /\ \A i \in BlocksOf(c, f) : i <= LastBlock(c, f)
             /\ SaltsIn(c)[f] = c[LastBlock(c, f)].salt
  <2>1. /\ LastBlock(c, f) \in BlocksOf(c, f)
        /\ \A i \in BlocksOf(c, f) : i <= LastBlock(c, f)
    BY <1>1, <1>2, LastBlockIsLast
  <2>2. LastBlock(c, f) \in 1 .. Len(c) /\ c[LastBlock(c, f)].fileNum = f
    BY <2>1 DEF BlocksOf
  <2>3. c[LastBlock(c, f)] \in saltBlock
    BY <1>1, <2>2
  <2>4. SaltsIn(c)[f] = c[LastBlock(c, f)].salt
    BY <1>2 DEF SaltsIn
  <2> QED BY <2>1, <2>2, <2>3, <2>4
<1>3. \A f \in FileNums : SaltsIn(c)[f] \in Salts \cup {NoSalt}
  <2> TAKE f \in FileNums
  <2>1. CASE BlocksOf(c, f) = {}
    BY <2>1 DEF SaltsIn
  <2>2. CASE BlocksOf(c, f) # {}
    BY <1>2, <2>2 DEF saltBlock
  <2> QED BY <2>1, <2>2
<1>4. ASSUME NEW f \in FileNums, NEW i \in 1 .. Len(c), c[i].fileNum = f
      PROVE  \E j \in i .. Len(c) : c[j].fileNum = f /\ SaltsIn(c)[f] = c[j].salt
  <2>1. i \in BlocksOf(c, f)
    BY <1>4 DEF BlocksOf
  <2>2. LastBlock(c, f) \in i .. Len(c)
    BY <1>1, <1>2, <2>1
  <2> QED BY <1>2, <2>1, <2>2
<1>5. SaltsIn(c) \in [FileNums -> Salts \cup {NoSalt}]
  BY <1>3 DEF SaltsIn
<1> QED BY <1>4, <1>5

LEMMA NextType ==
    ASSUME TypeOK, SaltInv, [Next]_vars
    PROVE  TypeOK'
<1>1. CASE NewKeyManager
  <2>1. file' = file /\ durable' = durable /\ status' \in {"open", "rejected"}
    BY <1>1 DEF NewKeyManager
  <2>2. lastMAC' \in Seq(Pairs) /\ salts' \in [FileNums -> Salts \cup {NoSalt}]
    <3>1. CASE Verifies(file)
      <4>1. \A i \in 1 .. Len(file) : file[i] \in saltBlock
        BY <3>1 DEF TypeOK, Verifies
      <4>2. \A i \in 1 .. Len(file) : <<file[i].fileNum, file[i].salt>> \in Pairs
        BY <4>1 DEF saltBlock, Pairs
      <4>3. ChainMAC(file, Len(file)) \in Seq(Pairs)
        BY <4>2, SeqDef DEF ChainMAC, TypeOK
      <4> QED BY <1>1, <3>1, <4>3, SaltsInFile DEF NewKeyManager, TypeOK
    <3>2. CASE ~Verifies(file)
      BY <1>1, <3>2 DEF NewKeyManager, TypeOK
    <3> QED BY <3>1, <3>2
  <2> QED BY <1>1, <2>1, <2>2 DEF NewKeyManager, TypeOK
<1>2. ASSUME NEW p \in Procs, NEW f \in FileNums, CreatePrepare(p, f)
      PROVE  TypeOK'
  <2>1. [fileNum |-> f, salt |-> nextSalt, mac |-> << >>] \in saltBlock
    <3>1. << >> \in Seq(Pairs) /\ nextSalt \in Salts
      BY <1>2, KeyManagerAssumption DEF CreatePrepare, TypeOK, Salts
    <3> QED BY <3>1 DEF saltBlock
  <2>2. nextSalt' \in 1 .. MaxSalts + 1
    BY <1>2, KeyManagerAssumption DEF CreatePrepare, TypeOK
  <2> QED BY <1>2, <2>1, <2>2 DEF CreatePrepare, TypeOK
<1>3. ASSUME NEW p \in Procs, CreateWrite(p)
      PROVE  TypeOK'
  <2>1. LinkedBlock(p) \in saltBlock
    BY <1>3, LinkedBlockType DEF CreateWrite, Busy
  <2>2. file' = Append(file, LinkedBlock(p)) /\ block' = [block EXCEPT ![p] = LinkedBlock(p)]
    BY <1>3 DEF CreateWrite, LinkedBlock
  <2>3. file' \in Seq(saltBlock \cup {Torn}) /\ durable' \in 0 .. Len(file')
    BY <1>3, <2>1, <2>2, AppendedFile DEF CreateWrite, TypeOK
  <2> QED BY <1>3, <2>1, <2>2, <2>3 DEF CreateWrite, TypeOK
<1>4. ASSUME NEW p \in Procs, CreateWriteFails(p)
      PROVE  TypeOK'
  <2>1. LinkedBlock(p) \in saltBlock
    BY <1>4, LinkedBlockType DEF CreateWriteFails, Busy
  <2>2. file' = file \/ file' = Append(file, Torn) \/ file' = Append(file, LinkedBlock(p))
    BY <1>4 DEF CreateWriteFails, LinkedBlock
  <2>3. file' \in Seq(saltBlock \cup {Torn}) /\ durable' \in 0 .. Len(file')
    BY <1>4, <2>1, <2>2, AppendedFile DEF CreateWriteFails, TypeOK
  <2>4. damaged' \in BOOLEAN
    BY <1>4 DEF CreateWriteFails
  <2> QED BY <1>4, <2>3, <2>4 DEF CreateWriteFails, TypeOK
<1>5. ASSUME NEW p \in Procs, CreateSync(p)
      PROVE  TypeOK'
  <2>1. block[p] \in saltBlock
    BY <1>5 DEF CreateSync, SaltInv, Busy
  <2>2. block[p].fileNum \in FileNums /\ block[p].salt \in Salts /\ block[p].mac \in Seq(Pairs)
    BY <2>1 DEF saltBlock
  <2>3. lastMAC' \in Seq(Pairs) /\ acked' \in SUBSET Pairs
    BY <1>5, <2>2 DEF CreateSync, NewMAC, TypeOK, Pairs
  <2>4. durable' \in 0 .. Len(file')
    BY <1>5 DEF CreateSync, SyncedLength, TypeOK
  <2> QED BY <1>5, <2>2, <2>3, <2>4 DEF CreateSync, TypeOK
<1>6. ASSUME NEW p \in Procs, CreateSyncFails(p)
      PROVE  TypeOK'
  <2>1. damaged' \in BOOLEAN
    BY <1>6 DEF CreateSyncFails
  <2> QED BY <1>6, <2>1 DEF CreateSyncFails, TypeOK
<1>7. CASE Close
  BY <1>7, ForgetType DEF Close, TypeOK
<1>8. CASE ProcessExit
  BY <1>8, ForgetType DEF ProcessExit, TypeOK
<1>9. CASE PowerLoss
  <2>1. file' \in Seq(saltBlock \cup {Torn}) /\ durable' \in 0 .. Len(file')
    BY <1>9, CutFile
  <2>2. damaged' \in BOOLEAN
    BY <1>9 DEF PowerLoss, TypeOK
  <2> QED BY <1>9, <2>1, <2>2, ForgetType DEF PowerLoss, TypeOK
<1>10. CASE UNCHANGED vars
  BY <1>10 DEF vars, TypeOK
<1> QED BY <1>1, <1>2, <1>3, <1>4, <1>5, <1>6, <1>7, <1>8, <1>9, <1>10 DEF Next

-----------------------------------------------------------------------------
\* A step of Create concerns one goroutine; the others keep their place.
LEMMA OthersKeepPlace ==
    ASSUME TypeOK, NEW p \in Procs, NEW t, pc' = [pc EXCEPT ![p] = t]
    PROVE  pc'[p] = t /\ \A q \in Procs : q # p => pc'[q] = pc[q]
  BY DEF TypeOK

LEMMA OthersKeepBlock ==
    ASSUME TypeOK, NEW p \in Procs, NEW b, block' = [block EXCEPT ![p] = b]
    PROVE  block'[p] = b /\ \A q \in Procs : q # p => block'[q] = block[q]
  BY DEF TypeOK

LEMMA NextMutex ==
    ASSUME TypeOK, MutexInv, [Next]_vars
    PROVE  MutexInv'
<1> USE DEF MutexInv, Busy
<1>1. CASE NewKeyManager
  BY <1>1 DEF NewKeyManager
<1>2. ASSUME NEW p \in Procs, NEW f \in FileNums, CreatePrepare(p, f)
      PROVE  MutexInv'
  BY <1>2, OthersKeepPlace DEF CreatePrepare
<1>3. ASSUME NEW p \in Procs, CreateWrite(p)
      PROVE  MutexInv'
  BY <1>3, OthersKeepPlace, KeyManagerAssumption DEF CreateWrite, MutexFree
<1>4. ASSUME NEW p \in Procs, CreateWriteFails(p)
      PROVE  MutexInv'
  BY <1>4, OthersKeepPlace, KeyManagerAssumption DEF CreateWriteFails, MutexFree
<1>5. ASSUME NEW p \in Procs, CreateSync(p)
      PROVE  MutexInv'
  BY <1>5, OthersKeepPlace, KeyManagerAssumption DEF CreateSync
<1>6. ASSUME NEW p \in Procs, CreateSyncFails(p)
      PROVE  MutexInv'
  BY <1>6, OthersKeepPlace, KeyManagerAssumption DEF CreateSyncFails
<1>7. CASE Close \/ ProcessExit \/ PowerLoss
  BY <1>7, ForgetType, KeyManagerAssumption DEF Close, ProcessExit, PowerLoss
<1>8. CASE UNCHANGED vars
  BY <1>8 DEF vars
<1> QED BY <1>1, <1>2, <1>3, <1>4, <1>5, <1>6, <1>7, <1>8 DEF Next

LEMMA NextSalt ==
    ASSUME TypeOK, SaltInv, [Next]_vars
    PROVE  SaltInv'
<1>1. CASE NewKeyManager \/ UNCHANGED vars
  BY <1>1 DEF NewKeyManager, vars, SaltInv, Busy
<1>2. ASSUME NEW p \in Procs, NEW f \in FileNums, CreatePrepare(p, f)
      PROVE  SaltInv'
  <2> DEFINE b == [fileNum |-> f, salt |-> nextSalt, mac |-> << >>]
  <2>1. b \in saltBlock /\ PairOf(b) = <<f, nextSalt>> /\ b.salt = nextSalt
    <3>1. << >> \in Seq(Pairs) /\ nextSalt \in Salts
      BY <1>2, KeyManagerAssumption DEF CreatePrepare, TypeOK, Salts
    <3> QED BY <3>1 DEF saltBlock, PairOf
  <2>2. pc'[p] = "prepared" /\ block'[p] = b
    BY <1>2, OthersKeepPlace, OthersKeepBlock DEF CreatePrepare
  <2>3. \A q \in Procs : q # p => pc'[q] = pc[q] /\ block'[q] = block[q]
    BY <1>2, OthersKeepPlace, OthersKeepBlock DEF CreatePrepare
  <2>4. nextSalt' = nextSalt + 1 /\ nextSalt \in Nat /\ acked' = acked
    BY <1>2, KeyManagerAssumption DEF CreatePrepare, TypeOK
  <2>5. \A a \in acked : a[2] \in Nat /\ a[2] < nextSalt
    BY DEF TypeOK, SaltInv, Pairs, Salts
  <2>6. PairOf(b) \notin acked
    BY <2>1, <2>4, <2>5
  <2>7. \A q \in Procs : Busy(q) => block[q] \in saltBlock /\ block[q].salt \in Nat
                                     /\ block[q].salt < nextSalt /\ PairOf(block[q]) \notin acked
    BY DEF SaltInv, saltBlock, Salts
  <2> HIDE DEF b
  <2>8. \A q \in Procs : Busy(q)' =>
            block'[q] \in saltBlock /\ block'[q].salt < nextSalt' /\ PairOf(block'[q]) \notin acked'
    BY <2>1, <2>2, <2>3, <2>4, <2>6, <2>7 DEF Busy
  <2>9. \A q, r \in Procs : Busy(q)' /\ Busy(r)' /\ q # r => block'[q].salt # block'[r].salt
    BY <2>1, <2>2, <2>3, <2>4, <2>7 DEF Busy, SaltInv
  <2>10. \A a \in acked' : a[2] < nextSalt'
    BY <2>4, <2>5
  <2> QED BY <2>8, <2>9, <2>10 DEF SaltInv, PairOf
<1>3. ASSUME NEW p \in Procs, CreateWrite(p)
      PROVE  SaltInv'
  <2>1. /\ LinkedBlock(p) \in saltBlock /\ PairOf(LinkedBlock(p)) = PairOf(block[p])
        /\ LinkedBlock(p).salt = block[p].salt
    BY <1>3, LinkedBlockType DEF CreateWrite, Busy, PairOf
  <2>2. block' = [block EXCEPT ![p] = LinkedBlock(p)] /\ acked' = acked /\ nextSalt' = nextSalt
    BY <1>3 DEF CreateWrite, LinkedBlock
  <2>3. Busy(p) /\ \A q \in Procs : q # p => pc'[q] = pc[q] /\ block'[q] = block[q]
    BY <1>3, <2>2, OthersKeepPlace, OthersKeepBlock DEF CreateWrite, Busy
  <2>4. block'[p] = LinkedBlock(p)
    BY <2>2, OthersKeepBlock
  <2>5. \A q \in Procs : Busy(q)' =>
            /\ Busy(q) /\ block'[q] \in saltBlock /\ block'[q].salt = block[q].salt
            /\ PairOf(block'[q]) = PairOf(block[q])
    BY <2>1, <2>3, <2>4 DEF Busy, SaltInv
  <2>6. \A q \in Procs : Busy(q)' =>
            block'[q] \in saltBlock /\ block'[q].salt < nextSalt' /\ PairOf(block'[q]) \notin acked'
    <3> SUFFICES ASSUME NEW q \in Procs, Busy(q)'
                 PROVE  block'[q] \in saltBlock /\ block'[q].salt < nextSalt' /\ PairOf(block'[q]) \notin acked'
      OBVIOUS
    <3>1. block[q].salt < nextSalt /\ PairOf(block[q]) \notin acked
      BY <2>5 DEF SaltInv
    <3> QED BY <2>2, <2>5, <3>1
  <2>7. \A q, r \in Procs : Busy(q)' /\ Busy(r)' /\ q # r => block'[q].salt # block'[r].salt
    BY <2>5, Zenon DEF SaltInv
  <2> QED BY <2>2, <2>6, <2>7 DEF SaltInv, PairOf
<1>4. ASSUME NEW p \in Procs, CreateWriteFails(p) \/ CreateSyncFails(p)
      PROVE  SaltInv'
  <2>1. /\ pc' = [pc EXCEPT ![p] = "idle"] /\ block' = [block EXCEPT ![p] = NoBlock]
        /\ acked' = acked /\ nextSalt' = nextSalt
    BY <1>4 DEF CreateWriteFails, CreateSyncFails
  <2>2. ~Busy(p)' /\ \A q \in Procs : q # p => pc'[q] = pc[q] /\ block'[q] = block[q]
    BY <2>1, OthersKeepPlace, OthersKeepBlock DEF Busy
  <2> QED BY <2>1, <2>2 DEF SaltInv, Busy, PairOf
<1>5. ASSUME NEW p \in Procs, CreateSync(p)
      PROVE  SaltInv'
  <2>1. /\ pc' = [pc EXCEPT ![p] = "idle"] /\ block' = [block EXCEPT ![p] = NoBlock]
        /\ acked' = acked \cup {PairOf(block[p])} /\ nextSalt' = nextSalt /\ Busy(p)
    BY <1>5 DEF CreateSync, PairOf, Busy
  <2>2. ~Busy(p)' /\ \A q \in Procs : q # p => pc'[q] = pc[q] /\ block'[q] = block[q]
    BY <2>1, OthersKeepPlace, OthersKeepBlock DEF Busy
  <2>3. \A q \in Procs : q # p /\ Busy(q) => PairOf(block[q]) # PairOf(block[p])
    BY <2>1 DEF SaltInv, PairOf
  <2>4. PairOf(block[p])[2] < nextSalt
    BY <2>1 DEF SaltInv, PairOf
  <2>5. \A a \in acked' : a[2] < nextSalt'
    BY <2>1, <2>4 DEF SaltInv
  <2>6. \A q \in Procs : Busy(q)' => q # p /\ Busy(q) /\ block'[q] = block[q]
    BY <2>2 DEF Busy
  <2>7. \A q \in Procs : Busy(q)' =>
            block'[q] \in saltBlock /\ block'[q].salt < nextSalt' /\ PairOf(block'[q]) \notin acked'
    BY <2>1, <2>3, <2>6 DEF SaltInv
  <2>8. \A q, r \in Procs : Busy(q)' /\ Busy(r)' /\ q # r => block'[q].salt # block'[r].salt
    BY <2>6 DEF SaltInv
  <2> QED BY <2>5, <2>7, <2>8 DEF SaltInv, PairOf
<1>6. CASE Close \/ ProcessExit \/ PowerLoss
  <2>1. acked' = acked /\ nextSalt' = nextSalt /\ \A q \in Procs : pc'[q] = "idle"
    BY <1>6, ForgetType DEF Close, ProcessExit, PowerLoss
  <2> QED BY <2>1 DEF SaltInv, Busy
<1> QED BY <1>1, <1>2, <1>3, <1>4, <1>5, <1>6 DEF Next

LEMMA NextWritten ==
    ASSUME TypeOK, MutexInv, SaltInv, WrittenInv, [Next]_vars
    PROVE  WrittenInv'
<1>1. CASE NewKeyManager \/ UNCHANGED vars
  BY <1>1 DEF NewKeyManager, vars, WrittenInv
<1>2. ASSUME NEW p \in Procs, NEW f \in FileNums, CreatePrepare(p, f)
      PROVE  WrittenInv'
  <2>1. pc'[p] = "prepared" /\ \A q \in Procs : q # p => pc'[q] = pc[q] /\ block'[q] = block[q]
    BY <1>2, OthersKeepPlace, OthersKeepBlock DEF CreatePrepare
  <2>2. file' = file
    BY <1>2 DEF CreatePrepare
  <2> QED BY <2>1, <2>2 DEF WrittenInv
<1>3. ASSUME NEW p \in Procs, CreateWrite(p)
      PROVE  WrittenInv'
  <2>1. LinkedBlock(p) \in saltBlock
    BY <1>3, LinkedBlockType DEF CreateWrite, Busy
  <2>2. file' = Append(file, LinkedBlock(p)) /\ block' = [block EXCEPT ![p] = LinkedBlock(p)]
    BY <1>3 DEF CreateWrite, LinkedBlock
  <2>3. Len(file') = Len(file) + 1 /\ Len(file) \in Nat /\ file'[Len(file')] = LinkedBlock(p)
    BY <2>1, <2>2, AppendedFile
  <2>4. file' # << >>
    BY <2>3
  <2>5. block'[p] = LinkedBlock(p)
    BY <2>2, OthersKeepBlock
  <2>6. \A q \in Procs : q # p => pc'[q] # "written"
    BY <1>3, OthersKeepPlace, KeyManagerAssumption DEF CreateWrite, MutexFree, MutexInv
  <2> QED BY <2>3, <2>4, <2>5, <2>6 DEF WrittenInv
<1>4. ASSUME NEW p \in Procs, CreateWriteFails(p) \/ CreateSyncFails(p) \/ CreateSync(p)
      PROVE  WrittenInv'
  <2>1. \A q \in Procs : q # p => pc[q] # "written"
    BY <1>4, KeyManagerAssumption DEF CreateWriteFails, CreateSyncFails, CreateSync, MutexFree, MutexInv
  <2>2. pc' = [pc EXCEPT ![p] = "idle"]
    BY <1>4 DEF CreateWriteFails, CreateSyncFails, CreateSync
  <2>3. \A q \in Procs : pc'[q] # "written"
    BY <2>1, <2>2, OthersKeepPlace
  <2> QED BY <2>3 DEF WrittenInv
<1>5. CASE Close \/ ProcessExit \/ PowerLoss
  BY <1>5, ForgetType DEF Close, ProcessExit, PowerLoss, WrittenInv
<1> QED BY <1>1, <1>2, <1>3, <1>4, <1>5 DEF Next

-----------------------------------------------------------------------------
\* The durable part of the file stays as it is; what is added behind it was
\* not answered.
FileGrows ==
    /\ durable \in Nat /\ durable' \in Nat /\ durable <= durable'
    /\ Len(file) \in Nat /\ durable <= Len(file) /\ Len(file') \in Nat /\ durable' <= Len(file')
    /\ \A i \in 1 .. Len(file') : (i <= Len(file) /\ file'[i] = file[i]) \/ (i > durable /\ file'[i] = Torn)
          \/ (i > durable /\ PairOf(file'[i]) \notin acked)
    /\ \A i \in 1 .. durable : i <= Len(file') /\ file'[i] = file[i]

LEMMA NextFile ==
    ASSUME TypeOK, SaltInv, [Next]_vars
    PROVE  FileGrows
<1>0. durable \in Nat /\ Len(file) \in Nat /\ durable <= Len(file)
  BY DEF TypeOK
<1>1. CASE file' = file /\ durable' = durable
  BY <1>0, <1>1 DEF FileGrows
<1>2. ASSUME NEW p \in Procs, CreateWrite(p) \/ CreateWriteFails(p), file' # file
      PROVE  FileGrows
  <2>1. durable' = durable
    BY <1>2 DEF CreateWrite, CreateWriteFails
  <2>2. LinkedBlock(p) \in saltBlock /\ PairOf(LinkedBlock(p)) \notin acked
    BY <1>2, LinkedBlockType DEF CreateWrite, CreateWriteFails, Busy, PairOf, SaltInv
  <2>3. PICK b \in saltBlock \cup {Torn} : file' = Append(file, b) /\ (b = Torn \/ PairOf(b) \notin acked)
    <3>1. \/ file' = Append(file, LinkedBlock(p))
          \/ file' = Append(file, Torn)
      BY <1>2 DEF CreateWrite, CreateWriteFails, LinkedBlock
    <3> QED BY <2>2, <3>1
  <2>4. /\ Len(file') = Len(file) + 1 /\ file'[Len(file')] = b
        /\ \A i \in 1 .. Len(file) : file'[i] = file[i]
    BY <2>3, AppendedFile
  <2> QED BY <1>0, <2>1, <2>3, <2>4 DEF FileGrows
<1>3. ASSUME NEW p \in Procs, CreateSync(p)
      PROVE  FileGrows
  BY <1>0, <1>3 DEF CreateSync, SyncedLength, FileGrows
<1>4. CASE PowerLoss
  <2>1. PICK n \in durable .. Len(file) :
              /\ durable' = Len(file') /\ Len(file') \in {n, n + 1}
              /\ n \in Nat
              /\ \A i \in 1 .. n : file'[i] = file[i]
              /\ Len(file') = n + 1 => file'[n + 1] = Torn
    BY <1>4, CutFile
  <2> QED BY <1>0, <2>1 DEF FileGrows
<1>5. ASSUME NEW p \in Procs, CreateWrite(p) \/ CreateWriteFails(p), file' = file
      PROVE  FileGrows
  BY <1>1, <1>5 DEF CreateWrite, CreateWriteFails
<1>6. CASE NewKeyManager \/ Close \/ ProcessExit \/ UNCHANGED vars
  BY <1>1, <1>6 DEF NewKeyManager, Close, ProcessExit, vars
<1>7. ASSUME NEW p \in Procs, (\E f \in FileNums : CreatePrepare(p, f)) \/ CreateSyncFails(p)
      PROVE  FileGrows
  BY <1>1, <1>7 DEF CreatePrepare, CreateSyncFails
<1> QED BY <1>2, <1>3, <1>4, <1>5, <1>6, <1>7 DEF Next

\* What is answered, and the last answer for each file number, change only at
\* the end of a Create, for the block that is last in the file.
LEMMA NextAnswer ==
    ASSUME TypeOK, SaltInv, WrittenInv, [Next]_vars
    PROVE  \/ acked' = acked /\ latest' = latest
           \/ \E b \in saltBlock :
                 /\ file' = file /\ durable' = Len(file) /\ Len(file) \in Nat \ {0} /\ file[Len(file)] = b
                 /\ acked' = acked \cup {PairOf(b)}
                 /\ latest' = [latest EXCEPT ![b.fileNum] = b.salt]
                 /\ salts' = [salts EXCEPT ![b.fileNum] = b.salt] /\ status' = status
<1>1. ASSUME NEW p \in Procs, CreateSync(p)
      PROVE  \E b \in saltBlock :
                 /\ file' = file /\ durable' = Len(file) /\ Len(file) \in Nat \ {0} /\ file[Len(file)] = b
                 /\ acked' = acked \cup {PairOf(b)}
                 /\ latest' = [latest EXCEPT ![b.fileNum] = b.salt]
                 /\ salts' = [salts EXCEPT ![b.fileNum] = b.salt] /\ status' = status
  <2>1. block[p] \in saltBlock /\ file # << >> /\ file[Len(file)] = block[p]
    BY <1>1 DEF CreateSync, SaltInv, WrittenInv, Busy
  <2>2. Len(file) \in Nat \ {0}
    BY <2>1, EmptySeq DEF TypeOK
  <2>3. /\ file' = file /\ durable' = Len(file) /\ status' = status
        /\ acked' = acked \cup {PairOf(block[p])}
        /\ latest' = [latest EXCEPT ![block[p].fileNum] = block[p].salt]
        /\ salts' = [salts EXCEPT ![block[p].fileNum] = block[p].salt]
    BY <1>1 DEF CreateSync, SyncedLength, PairOf
  <2> QED BY <2>1, <2>2, <2>3
<1>2. CASE NewKeyManager \/ Close \/ ProcessExit \/ PowerLoss \/ UNCHANGED vars
  BY <1>2 DEF NewKeyManager, Close, ProcessExit, PowerLoss, vars
<1>3. ASSUME NEW p \in Procs, \/ \E f \in FileNums : CreatePrepare(p, f)
                              \/ CreateWrite(p) \/ CreateWriteFails(p) \/ CreateSyncFails(p)
      PROVE  acked' = acked /\ latest' = latest
  BY <1>3 DEF CreatePrepare, CreateWrite, CreateWriteFails, CreateSyncFails
<1> QED BY <1>1, <1>2, <1>3 DEF Next

LEMMA NextLatest ==
    ASSUME TypeOK, SaltInv, WrittenInv, LatestInv, [Next]_vars
    PROVE  LatestInv'
<1> SUFFICES ASSUME NEW f \in FileNums, latest'[f] # NoSalt
             PROVE  \E i \in 1 .. durable' :
                        /\ file'[i] # Torn /\ PairOf(file'[i]) = <<f, latest'[f]>>
                        /\ \A j \in i + 1 .. Len(file') :
                               file'[j] # Torn /\ file'[j].fileNum = f => PairOf(file'[j]) \notin acked'
  BY DEF LatestInv, PairOf
<1>1. FileGrows
  BY NextFile
<1>2. ASSUME latest'[f] = latest[f], \A a \in acked' : a \in acked \/ a[1] # f
      PROVE  \E i \in 1 .. durable' :
                 /\ file'[i] # Torn /\ PairOf(file'[i]) = <<f, latest'[f]>>
                 /\ \A j \in i + 1 .. Len(file') :
                        file'[j] # Torn /\ file'[j].fileNum = f => PairOf(file'[j]) \notin acked'
  <2>1. PICK i \in 1 .. durable :
            /\ file[i] # Torn /\ PairOf(file[i]) = <<f, latest[f]>>
            /\ \A j \in i + 1 .. Len(file) :
                   file[j] # Torn /\ file[j].fileNum = f => PairOf(file[j]) \notin acked
    BY <1>2 DEF LatestInv
  <2>2. i \in 1 .. durable' /\ file'[i] = file[i]
    BY <1>1, <2>1 DEF FileGrows
  <2>3. ASSUME NEW j \in i + 1 .. Len(file'), file'[j] # Torn, file'[j].fileNum = f
        PROVE  PairOf(file'[j]) \notin acked'
    <3>1. PairOf(file'[j]) \notin acked
      <4>1. CASE j <= Len(file) /\ file'[j] = file[j]
        BY <1>1, <2>1, <2>3, <4>1 DEF FileGrows
      <4>2. CASE PairOf(file'[j]) \notin acked
        BY <4>2
      <4>3. j \in 1 .. Len(file')
        BY <1>1 DEF FileGrows
      <4> QED BY <1>1, <2>3, <4>1, <4>2, <4>3 DEF FileGrows
    <3>2. PairOf(file'[j])[1] = f
      BY <2>3 DEF PairOf
    <3> QED BY <1>2, <3>1, <3>2
  <2> QED BY <1>2, <2>1, <2>2, <2>3
<1>3. CASE acked' = acked /\ latest' = latest
  BY <1>2, <1>3
<1>4. ASSUME NEW b \in saltBlock,
             file' = file, durable' = Len(file), Len(file) \in Nat \ {0}, file[Len(file)] = b,
             acked' = acked \cup {PairOf(b)}, latest' = [latest EXCEPT ![b.fileNum] = b.salt]
      PROVE  \E i \in 1 .. durable' :
                 /\ file'[i] # Torn /\ PairOf(file'[i]) = <<f, latest'[f]>>
                 /\ \A j \in i + 1 .. Len(file') :
                        file'[j] # Torn /\ file'[j].fileNum = f => PairOf(file'[j]) \notin acked'
  <2>1. CASE f = b.fileNum
    <3>1. latest'[f] = b.salt
      BY <1>4, <2>1 DEF TypeOK
    <3>2. b # Torn
      BY KeyManagerAssumption DEF saltBlock, Pairs, Salts
    <3>3. PairOf(b) = <<f, latest'[f]>>
      BY <2>1, <3>1 DEF PairOf
    <3>4. Len(file) \in 1 .. durable'
      BY <1>4
    <3>5. \A j \in Len(file) + 1 .. Len(file') : FALSE
      BY <1>4
    <3> QED BY <1>4, <3>2, <3>3, <3>4, <3>5
  <2>2. CASE f # b.fileNum
    <3>1. latest'[f] = latest[f]
      BY <1>4, <2>2 DEF TypeOK
    <3>2. \A a \in acked' : a \in acked \/ a[1] # f
      BY <1>4, <2>2 DEF PairOf
    <3> QED BY <1>2, <3>1, <3>2
  <2> QED BY <2>1, <2>2
<1> QED BY <1>3, <1>4, NextAnswer

-----------------------------------------------------------------------------
LEMMA NextDurable ==
    ASSUME TypeOK, SaltInv, WrittenInv, AckedKeysDurable, [Next]_vars
    PROVE  AckedKeysDurable'
<1>1. FileGrows
  BY NextFile
<1>2. ASSUME NEW a \in acked
      PROVE  \E i \in 1 .. durable' : file'[i] # Torn /\ PairOf(file'[i]) = a
  <2>1. PICK i \in 1 .. durable : file[i] # Torn /\ PairOf(file[i]) = a
    BY DEF AckedKeysDurable, PairOf
  <2>2. i \in 1 .. durable' /\ file'[i] = file[i]
    BY <1>1 DEF FileGrows
  <2> QED BY <2>1, <2>2
<1>3. ASSUME NEW b \in saltBlock,
             file' = file, durable' = Len(file), Len(file) \in Nat \ {0}, file[Len(file)] = b
      PROVE  \E i \in 1 .. durable' : file'[i] # Torn /\ PairOf(file'[i]) = PairOf(b)
  <2>1. b # Torn
    BY KeyManagerAssumption DEF saltBlock, Pairs, Salts
  <2> QED BY <1>3, <2>1
<1>4. \A a \in acked' : \E i \in 1 .. durable' : file'[i] # Torn /\ PairOf(file'[i]) = a
  BY <1>2, <1>3, NextAnswer
<1> QED BY <1>4 DEF AckedKeysDurable, PairOf

\* What a manager opened on a file that verifies answers.
LEMMA OpenedSurvive ==
    ASSUME TypeOK, LatestInv, Verifies(file), NEW f \in FileNums, latest[f] # NoSalt
    PROVE  SaltsIn(file)[f] # NoSalt
           /\ (SaltsIn(file)[f] = latest[f] \/ <<f, SaltsIn(file)[f]>> \notin acked)
<1>1. PICK i \in 1 .. durable :
          /\ file[i] # Torn /\ PairOf(file[i]) = <<f, latest[f]>>
          /\ \A j \in i + 1 .. Len(file) :
                 file[j] # Torn /\ file[j].fileNum = f => PairOf(file[j]) \notin acked
  BY DEF LatestInv
<1>2. durable \in Nat /\ Len(file) \in Nat /\ durable <= Len(file) /\ file \in Seq(saltBlock \cup {Torn})
  BY DEF TypeOK
<1>3. i \in 1 .. Len(file) /\ file[i].fileNum = f /\ file[i].salt = latest[f]
  BY <1>1, <1>2 DEF PairOf
<1>4. PICK j \in i .. Len(file) : file[j].fileNum = f /\ SaltsIn(file)[f] = file[j].salt
  BY <1>2, <1>3, SaltsInFile
<1>5. j \in 1 .. Len(file) /\ file[j] # Torn
  BY <1>2, <1>3, <1>4 DEF Verifies
<1>6. SaltsIn(file)[f] # NoSalt
  <2>1. file[j] \in saltBlock
    BY <1>2, <1>5
  <2> QED BY <1>4, <2>1 DEF saltBlock, Salts, NoSalt
<1>7. PairOf(file[j]) = <<f, SaltsIn(file)[f]>>
  BY <1>4 DEF PairOf
<1>8. CASE j = i
  BY <1>3, <1>4, <1>6, <1>8
<1>9. CASE j # i
  <2>1. j \in i + 1 .. Len(file)
    BY <1>2, <1>3, <1>9
  <2> QED BY <1>1, <1>4, <1>5, <1>6, <1>7, <2>1
<1> QED BY <1>8, <1>9

LEMMA NextSurvive ==
    ASSUME TypeOK, MutexInv, SaltInv, WrittenInv, LatestInv, AckedKeysSurvive, [Next]_vars
    PROVE  AckedKeysSurvive'
<1> SUFFICES ASSUME status' = "open", NEW f \in FileNums, latest'[f] # NoSalt
             PROVE  salts'[f] = latest'[f] \/ (salts'[f] # NoSalt /\ <<f, salts'[f]>> \notin acked')
  BY DEF AckedKeysSurvive, Get
<1>1. CASE NewKeyManager
  <2>1. Verifies(file) /\ salts' = SaltsIn(file) /\ latest' = latest /\ acked' = acked
    BY <1>1 DEF NewKeyManager
  <2> QED BY <2>1, OpenedSurvive
<1>2. CASE acked' = acked /\ latest' = latest /\ ~NewKeyManager
  <2>1. salts' = salts /\ status = "open"
    <3>1. CASE Close \/ ProcessExit \/ PowerLoss
      BY <3>1, ForgetType DEF Close, ProcessExit, PowerLoss
    <3>2. ASSUME NEW p \in Procs, CreateSync(p)
          PROVE  FALSE
      <4>1. PairOf(block[p]) \in acked' /\ PairOf(block[p]) \notin acked
        BY <3>2 DEF CreateSync, SaltInv, Busy, PairOf
      <4> QED BY <1>2, <4>1
    <3>3. ASSUME NEW p \in Procs, \/ \E g \in FileNums : CreatePrepare(p, g)
                                  \/ CreateWrite(p) \/ CreateWriteFails(p) \/ CreateSyncFails(p)
          PROVE  salts' = salts /\ status = "open"
      BY <3>3 DEF CreatePrepare, CreateWrite, CreateWriteFails, CreateSyncFails
    <3>4. CASE UNCHANGED vars
      BY <3>4 DEF vars
    <3> QED BY <1>2, <3>1, <3>2, <3>3, <3>4 DEF Next
  <2> QED BY <1>2, <2>1 DEF AckedKeysSurvive, Get
<1>3. ASSUME NEW b \in saltBlock, acked' = acked \cup {PairOf(b)}, status' = status,
             latest' = [latest EXCEPT ![b.fileNum] = b.salt], salts' = [salts EXCEPT ![b.fileNum] = b.salt]
      PROVE  salts'[f] = latest'[f] \/ (salts'[f] # NoSalt /\ <<f, salts'[f]>> \notin acked')
  <2>1. CASE f = b.fileNum
    BY <1>3, <2>1 DEF TypeOK
  <2>2. CASE f # b.fileNum
    <3>1. latest'[f] = latest[f] /\ salts'[f] = salts[f]
      BY <1>3, <2>2 DEF TypeOK
    <3>2. <<f, salts[f]>> # PairOf(b)
      BY <2>2 DEF PairOf
    <3> QED BY <1>3, <3>1, <3>2 DEF AckedKeysSurvive, Get
  <2> QED BY <2>1, <2>2
<1> QED BY <1>1, <1>2, <1>3, NextAnswer

LEMMA NextLinked ==
    ASSUME TypeOK, MutexInv, SaltInv, WrittenInv, ChainIsLinked, [Next]_vars
    PROVE  ChainIsLinked'
<1> SUFFICES ASSUME ~damaged'
             PROVE  /\ Verifies(file')
                    /\ status' = "open" /\ mu' = NoProc => lastMAC' = ChainMAC(file', Len(file'))
  BY DEF ChainIsLinked, Verifies, ChainMAC
<1>1. CASE UNCHANGED vars
  BY <1>1 DEF vars, ChainIsLinked
<1>2. CASE NewKeyManager
  BY <1>2 DEF NewKeyManager, ChainIsLinked
<1>3. ASSUME NEW p \in Procs, NEW f \in FileNums, CreatePrepare(p, f)
      PROVE  Verifies(file') /\ (status' = "open" /\ mu' = NoProc => lastMAC' = ChainMAC(file', Len(file')))
  BY <1>3 DEF CreatePrepare, ChainIsLinked
<1>4. ASSUME NEW p \in Procs, CreateWrite(p)
      PROVE  Verifies(file') /\ mu' # NoProc
  <2>1. /\ LinkedBlock(p) \in saltBlock /\ LinkedBlock(p) # Torn
        /\ LinkedBlock(p).fileNum = block[p].fileNum /\ LinkedBlock(p).salt = block[p].salt
        /\ LinkedBlock(p).mac = Append(lastMAC, PairOf(block[p]))
    BY <1>4, LinkedBlockType DEF CreateWrite, Busy
  <2>2. file' = Append(file, LinkedBlock(p)) /\ mu' = p
    BY <1>4 DEF CreateWrite, LinkedBlock
  <2>3. /\ Len(file) \in Nat /\ Len(file') = Len(file) + 1
        /\ \A i \in 1 .. Len(file) : file'[i] = file[i]
        /\ file'[Len(file')] = LinkedBlock(p)
    BY <2>1, <2>2, AppendedFile
  <2>4. Verifies(file) /\ lastMAC = ChainMAC(file, Len(file))
    BY <1>4 DEF CreateWrite, MutexFree, ChainIsLinked, MutexInv, Busy
  <2>5. \A i \in 0 .. Len(file) : ChainMAC(file', i) = ChainMAC(file, i)
    BY <2>3 DEF ChainMAC
  <2>6. \A i \in 1 .. Len(file) : file'[i] # Torn /\ file'[i].mac = ChainMAC(file', i)
    BY <2>3, <2>4, <2>5 DEF Verifies
  <2>7. LinkedBlock(p).mac = ChainMAC(file', Len(file'))
    <3>1. PairOf(block[p]) = <<file'[Len(file')].fileNum, file'[Len(file')].salt>>
      BY <2>1, <2>3 DEF PairOf
    <3>2. lastMAC \in Seq(Pairs) /\ Len(lastMAC) = Len(file)
      BY <2>3, <2>4 DEF ChainMAC, TypeOK
    <3>3. Append(lastMAC, PairOf(block[p])) = [i \in 1 .. Len(file) + 1 |-> <<file'[i].fileNum, file'[i].salt>>]
      BY <2>3, <2>4, <3>1, <3>2 DEF ChainMAC
    <3> QED BY <2>1, <2>3, <3>3 DEF ChainMAC
  <2>8. \A i \in 1 .. Len(file') : i \in 1 .. Len(file) \/ i = Len(file')
    BY <2>3
  <2>9. Verifies(file')
    BY <2>1, <2>3, <2>6, <2>7, <2>8 DEF Verifies
  <2> QED BY <2>2, <2>9, KeyManagerAssumption
<1>5. ASSUME NEW p \in Procs, CreateWriteFails(p) \/ CreateSyncFails(p)
      PROVE  FALSE
  BY <1>5 DEF CreateWriteFails, CreateSyncFails
<1>6. ASSUME NEW p \in Procs, CreateSync(p)
      PROVE  Verifies(file') /\ lastMAC' = ChainMAC(file', Len(file'))
  <2>1. file' = file /\ lastMAC' = block[p].mac /\ damaged' = damaged
    BY <1>6 DEF CreateSync, NewMAC
  <2>2. Verifies(file)
    BY <2>1 DEF ChainIsLinked
  <2>3. file # << >> /\ file[Len(file)] = block[p]
    BY <1>6 DEF CreateSync, WrittenInv
  <2>4. Len(file) \in 1 .. Len(file)
    BY <2>3, EmptySeq DEF TypeOK
  <2> QED BY <2>1, <2>2, <2>3, <2>4 DEF Verifies
<1>7. CASE Close \/ ProcessExit
  BY <1>7, ForgetType DEF Close, ProcessExit, ChainIsLinked
<1>8. CASE PowerLoss
  <2>1. PICK n \in durable .. Len(file) :
            /\ n \in Nat /\ durable \in Nat /\ Len(file) \in Nat
            /\ \A i \in 1 .. n : file'[i] = file[i]
            /\ ~damaged /\ Len(file') = n
    BY <1>8, CutFile
  <2>2. Verifies(file)
    BY <2>1 DEF ChainIsLinked
  <2>3. \A i \in 1 .. n : i \in 1 .. Len(file) /\ ChainMAC(file', i) = ChainMAC(file, i)
    BY <2>1 DEF ChainMAC
  <2>4. Verifies(file')
    BY <2>1, <2>2, <2>3 DEF Verifies
  <2> QED BY <1>8, <2>4, ForgetType DEF PowerLoss
<1> QED BY <1>1, <1>2, <1>3, <1>4, <1>5, <1>6, <1>7, <1>8 DEF Next

-----------------------------------------------------------------------------
IInv == TypeOK /\ SaltChainInv /\ AckedKeysDurable /\ AckedKeysSurvive /\ ChainIsLinked

LEMMA InitInv == Init => IInv
<1> SUFFICES ASSUME Init PROVE IInv
  OBVIOUS
<1>1. TypeOK
  BY InitType
<1>2. MutexInv /\ SaltInv /\ WrittenInv
  BY KeyManagerAssumption DEF Init, MutexInv, SaltInv, WrittenInv, Busy
<1>3. LatestInv /\ AckedKeysDurable /\ AckedKeysSurvive
  BY DEF Init, LatestInv, AckedKeysDurable, AckedKeysSurvive
<1>4. ChainIsLinked
  <2>1. file = << >> /\ Len(file) = 0 /\ status = "closed"
    BY DEF Init
  <2> QED BY <2>1 DEF ChainIsLinked, Verifies
<1> QED BY <1>1, <1>2, <1>3, <1>4 DEF IInv, SaltChainInv

LEMMA NextInv == IInv /\ [Next]_vars => IInv'
  BY NextType, NextMutex, NextSalt, NextWritten, NextLatest, NextDurable, NextSurvive, NextLinked
     DEF IInv, SaltChainInv

LEMMA Invariance == Spec => []IInv
  BY InitInv, NextInv, PTL DEF Spec

\* Under its mutex Create keeps the file and the memory of the manager one,
\* with any number of goroutines and whatever fails or crashes.
THEOREM SaltChainInvariant == Spec => []SaltChainInv
<1>1. IInv => SaltChainInv
  BY DEF IInv
<1> QED BY <1>1, Invariance, PTL

\* The block of every key that Create returned is in the synced part of
\* SALTCHAIN, for good: no crash and no failed call takes it away.
THEOREM KeysAreDurable == Spec => []AckedKeysDurable
<1>1. IInv => AckedKeysDurable
  BY DEF IInv
<1> QED BY <1>1, Invariance, PTL

\* A manager that is open answers Get with the last key that Create returned
\* for the file number, or with one that no caller was ever given.
THEOREM KeysSurvive == Spec => []AckedKeysSurvive
<1>1. IInv => AckedKeysSurvive
  BY DEF IInv
<1> QED BY <1>1, Invariance, PTL

\* As long as no call failed and no block was torn, SALTCHAIN verifies and
\* lastMAC authenticates all of it.
THEOREM SaltsAreChained == Spec => []ChainIsLinked
<1>1. IInv => ChainIsLinked
  BY DEF IInv
<1> QED BY <1>1, Invariance, PTL

\* SALTCHAIN is append-only where it is synced: no step of a call, no failure
\* and no crash changes or removes a block that was synced.
THEOREM SyncedIsAppendOnly ==
    Spec => [][durable <= durable' /\ \A i \in 1 .. durable : i <= Len(file') /\ file'[i] = file[i]]_vars
<1>1. IInv /\ [Next]_vars =>
        [durable <= durable' /\ \A i \in 1 .. durable : i <= Len(file') /\ file'[i] = file[i]]_vars
  BY NextFile DEF IInv, SaltChainInv, FileGrows
<1> QED BY <1>1, Invariance, PTL DEF Spec
=============================================================================
