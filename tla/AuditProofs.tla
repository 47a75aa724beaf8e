---------------------------- MODULE AuditProofs ----------------------------
(***************************************************************************)
(* Proofs about the audit log and about what is proved by it.              *)
(* AuditChain: what holds of the log as long as no append has begun inside *)
(* another, for any appenders, bodies, lengths and power losses.           *)
(* Decommission: any set of erasable domains, any number of failed         *)
(* erasures, restarts and records of other units.                          *)
(***************************************************************************)
EXTENDS AuditChain, Decommission, SequenceTheorems, TLAPS

----------------------------------------------------------------------------
(* AuditChain *)

\* at most one append is in progress
Alone == \A p, q \in Appenders : draft[p] # NoDraft /\ draft[q] # NoDraft => p = q

\* the record p holds continues the file as it stands
Continues(r) ==
  /\ r.seq = Len(lines) + 1
  /\ r.prev = PrevHash(Len(lines) + 1)
  /\ r.hash = Digest(r.prev, r.seq, r.body)

SoundBut == 
  /\ \A i \in DOMAIN lines : ~Gap(i) /\ ~Break(i) /\ (Tampered(i) <=> i = touched.at)
  /\ \A p \in Appenders : draft[p] # NoDraft => Continues(draft[p])

OutOfPlace ==
  /\ lines[touched.at].seq = touched.at + 1
  /\ \A i \in 1..(touched.at - 1) : ~Faulty(i)

\* The strengthening of the two verification properties.  A record that does not
\* continue the file breaks the chain when it is written, so the record an append
\* holds has to be part of it; and the stored hash of an edited record still links
\* its successor, so the edit is the only fault there ever is.
ChainInv ==
  /\ \E S : lines \in Seq(S)
  /\ ChainTypeOK
  /\ touched.how = "none" => touched.at = 0
  /\ touched.how # "none" => touched.at \in DOMAIN lines
  /\ ~raced => Alone
  /\ ~raced /\ touched.how \in {"none", "edited"} /\ Readable => SoundBut
  /\ ~raced /\ touched.how \in {"deleted", "swapped"} /\ Readable => OutOfPlace

LEMMA AppendedLine ==
  ASSUME NEW S, NEW s \in Seq(S), NEW e
  PROVE  /\ Append(s, e) \in Seq(S \cup {e})
         /\ Len(Append(s, e)) = Len(s) + 1
         /\ DOMAIN Append(s, e) = 1..(Len(s) + 1)
         /\ \A i \in 1..Len(s) : Append(s, e)[i] = s[i]
         /\ Append(s, e)[Len(s) + 1] = e
  <1>1. s \in Seq(S \cup {e}) /\ e \in S \cup {e}
    OBVIOUS
  <1> QED BY <1>1

LEMMA RemovedLine ==
  ASSUME NEW S, NEW s \in Seq(S), NEW i \in 1..Len(s)
  PROVE  /\ RemoveAt(s, i) \in Seq(S)
         /\ Len(RemoveAt(s, i)) = Len(s) - 1
         /\ DOMAIN RemoveAt(s, i) = 1..(Len(s) - 1)
         /\ \A j \in 1..(i - 1) : RemoveAt(s, i)[j] = s[j]
         /\ \A j \in i..(Len(s) - 1) : RemoveAt(s, i)[j] = s[j + 1]
  <1> DEFINE before == SubSeq(s, 1, i - 1)
             after == SubSeq(s, i + 1, Len(s))
  <1>1. Len(s) \in Nat /\ i \in Nat /\ 1 <= i /\ i <= Len(s)
    OBVIOUS
  <1>2. before \in Seq(S) /\ Len(before) = i - 1 /\ \A j \in 1..(i - 1) : before[j] = s[j]
    BY <1>1
  <1>3. /\ after \in Seq(S) /\ Len(after) = Len(s) - i
        /\ \A j \in 1..(Len(s) - i) : after[j] = s[i + j]
    BY <1>1
  <1>4. RemoveAt(s, i) = before \o after
    BY DEF RemoveAt
  <1> HIDE DEF before, after
  <1>5. before \o after \in Seq(S) /\ Len(before \o after) = Len(s) - 1
    <2>1. before \o after \in Seq(S) /\ Len(before \o after) = Len(before) + Len(after)
      BY <1>2, <1>3, ConcatProperties
    <2> QED BY <1>1, <1>2, <1>3, <2>1
  <1>8. DOMAIN (before \o after) = 1..(Len(s) - 1)
    BY <1>5
  <1>6. \A j \in 1..(i - 1) : (before \o after)[j] = s[j]
    BY <1>1, <1>2, <1>3
  <1>7. \A j \in i..(Len(s) - 1) : (before \o after)[j] = s[j + 1]
    <2> TAKE j \in i..(Len(s) - 1)
    <2>1. j - (i - 1) \in 1..(Len(s) - i) /\ i + (j - (i - 1)) = j + 1
      BY <1>1
    <2>2. (before \o after)[j] = after[j - (i - 1)]
      BY <1>1, <1>2, <1>3
    <2> QED BY <1>3, <2>1, <2>2
  <1> QED BY <1>4, <1>5, <1>6, <1>7, <1>8

LEMMA WithLineIsALog ==
  ASSUME NEW S, lines \in Seq(S), NEW new, IsRecord(new),
         \A i \in DOMAIN lines : lines[i] = Torn \/ IsRecord(lines[i]),
         ended \in BOOLEAN, lines = <<>> => ended
  PROVE  /\ \E T : WithLine(new) \in Seq(T)
         /\ DOMAIN WithLine(new) = 1..Len(WithLine(new)) /\ Len(WithLine(new)) \in Nat
         /\ Len(WithLine(new)) >= Len(lines) /\ WithLine(new) # <<>>
         /\ \A i \in DOMAIN WithLine(new) : \/ WithLine(new)[i] = Torn
                                           \/ IsRecord(WithLine(new)[i])
  <1>1. Len(lines) \in Nat /\ DOMAIN lines = 1..Len(lines)
    OBVIOUS
  <1>2. CASE ended
    <2>1. /\ WithLine(new) = Append(lines, new)
          /\ Append(lines, new) \in Seq(S \cup {new})
          /\ Len(Append(lines, new)) = Len(lines) + 1
          /\ DOMAIN Append(lines, new) = 1..(Len(lines) + 1)
          /\ \A i \in 1..Len(lines) : Append(lines, new)[i] = lines[i]
          /\ Append(lines, new)[Len(lines) + 1] = new
      BY <1>2, AppendedLine DEF WithLine
    <2>2. \A i \in 1..(Len(lines) + 1) : i \in 1..Len(lines) \/ i = Len(lines) + 1
      BY <1>1
    <2> QED BY <1>1, <2>1, <2>2
  <1>3. CASE ~ended
    <2>1. Len(lines) \in DOMAIN lines /\ lines # <<>>
      BY <1>1, <1>3
    <2>2. /\ WithLine(new) = [lines EXCEPT ![Len(lines)] = Torn]
          /\ [lines EXCEPT ![Len(lines)] = Torn] \in Seq(S \cup {Torn})
          /\ Len([lines EXCEPT ![Len(lines)] = Torn]) = Len(lines)
      BY <1>1, <1>3, <2>1 DEF WithLine
    <2> QED BY <1>1, <2>1, <2>2
  <1> QED BY <1>2, <1>3

\* The file after a write, in the process that held the only draft.
LEMMA Extended ==
  ASSUME ChainInv, NEW p \in Appenders, draft[p] # NoDraft,
         NEW new \in {Torn, draft[p]}, lines' = WithLine(new),
         draft' = NoDrafts, touched' = touched, raced' = raced, ended' \in BOOLEAN
  PROVE  ChainInv'
  <1>0. PICK S : lines \in Seq(S)
    BY DEF ChainInv
  <1>1. /\ Len(lines) \in Nat /\ DOMAIN lines = 1..Len(lines)
        /\ ended \in BOOLEAN /\ (lines = <<>> => ended)
        /\ \A i \in DOMAIN lines : lines[i] = Torn \/ IsRecord(lines[i])
        /\ IsRecord(draft[p])
        /\ touched.how \in {"none", "edited", "deleted", "swapped"} /\ touched.at \in Nat
        /\ raced \in BOOLEAN
    BY DEF ChainInv, ChainTypeOK
  <1>2. (\A q \in Appenders : draft'[q] = NoDraft) /\ Alone'
    BY DEF NoDrafts, Alone
  <1>3. CASE ~ended
    <2>1. lines' = [lines EXCEPT ![Len(lines)] = Torn] /\ lines # <<>>
      BY <1>1, <1>3 DEF WithLine
    <2>2. Len(lines) \in DOMAIN lines
      BY <1>0, <1>1, <2>1
    <2>3. /\ lines' \in Seq(S \cup {Torn}) /\ Len(lines') = Len(lines)
          /\ DOMAIN lines' = 1..Len(lines) /\ lines'[Len(lines)] = Torn
          /\ \A i \in DOMAIN lines' : lines'[i] = Torn \/ lines'[i] = lines[i]
      BY <1>0, <1>1, <2>1, <2>2
    <2>4. ~Readable'
      BY <1>1, <2>2, <2>3 DEF Readable
    <2>5. ChainTypeOK'
      BY <1>1, <1>2, <2>1, <2>2, <2>3 DEF ChainTypeOK, NoDrafts
    <2> QED BY <1>1, <1>2, <2>3, <2>4, <2>5 DEF ChainInv
  <1>4. CASE ended
    <2>1. lines' = Append(lines, new)
      BY <1>4 DEF WithLine
    <2>2. /\ lines' \in Seq(S \cup {new}) /\ Len(lines') = Len(lines) + 1
          /\ DOMAIN lines' = 1..(Len(lines) + 1)
          /\ \A i \in 1..Len(lines) : lines'[i] = lines[i]
          /\ lines'[Len(lines) + 1] = new
      BY <1>0, <2>1, AppendedLine
    <2>3. ChainTypeOK'
      <3>1. \A i \in DOMAIN lines' : lines'[i] = Torn \/ IsRecord(lines'[i])
        BY <1>1, <2>2
      <3>2. lines' # <<>>
        BY <1>1, <2>2
      <3> QED BY <1>1, <1>2, <2>2, <3>1, <3>2 DEF ChainTypeOK, NoDrafts
    <2>4. Readable' => Readable /\ new = draft[p]
      BY <1>1, <2>2 DEF Readable
    <2>5. \A i \in 1..Len(lines) : /\ PrevHash(i)' = PrevHash(i)
                                   /\ Gap(i)' = Gap(i) /\ Break(i)' = Break(i)
                                   /\ Tampered(i)' = Tampered(i)
      <3> TAKE i \in 1..Len(lines)
      <3>1. lines'[i] = lines[i] /\ (i # 1 => lines'[i - 1] = lines[i - 1])
        BY <1>1, <2>2
      <3>2. PrevHash(i)' = PrevHash(i)
        BY <3>1 DEF PrevHash
      <3> QED BY <3>1, <3>2 DEF Gap, Break, Tampered
    <2>6. ASSUME ~raced', touched'.how \in {"none", "edited"}, Readable'
          PROVE  SoundBut'
      <3>1. SoundBut /\ new = draft[p]
        BY <2>4, <2>6 DEF ChainInv
      <3>0. PICK n \in Nat : n = Len(lines) + 1
        BY <1>1
      <3>2. Continues(new)
        BY <3>1 DEF SoundBut
      <3>3. PrevHash(n)' = PrevHash(n)
        BY <1>1, <2>2, <3>0 DEF PrevHash
      <3>4. ~Gap(n)' /\ ~Break(n)' /\ ~Tampered(n)'
        BY <2>2, <3>0, <3>2, <3>3 DEF Continues, Gap, Break, Tampered
      <3>5. touched'.at # n
        BY <1>1, <2>6, <3>0 DEF ChainInv
      <3>6. \A i \in 1..Len(lines) : /\ ~Gap(i)' /\ ~Break(i)'
                                   /\ (Tampered(i)' <=> i = touched'.at)
        BY <1>1, <2>5, <3>1 DEF SoundBut
      <3>7. \A i \in DOMAIN lines' : i \in 1..Len(lines) \/ i = n
        BY <1>1, <2>2, <3>0
      <3> QED BY <1>2, <3>4, <3>5, <3>6, <3>7 DEF SoundBut
    <2>7. ASSUME ~raced', touched'.how \in {"deleted", "swapped"}, Readable'
          PROVE  OutOfPlace'
      <3>1. OutOfPlace /\ touched.at \in DOMAIN lines
        BY <2>4, <2>7 DEF ChainInv
      <3>2. 1..(touched.at - 1) \subseteq 1..Len(lines) /\ touched.at \in 1..Len(lines)
        BY <1>1, <3>1
      <3> QED BY <2>2, <2>5, <3>1, <3>2 DEF OutOfPlace, Faulty
    <2>8. /\ touched'.how = "none" => touched'.at = 0
          /\ touched'.how # "none" => touched'.at \in DOMAIN lines'
      BY <1>1, <2>2 DEF ChainInv
    <2> QED BY <1>2, <2>2, <2>3, <2>6, <2>7, <2>8 DEF ChainInv
  <1> QED BY <1>1, <1>3, <1>4

LEMMA ChainInvInitial == ChainInit => ChainInv
  <1> SUFFICES ASSUME ChainInit PROVE ChainInv
    OBVIOUS
  <1>1. lines \in Seq({}) /\ Len(lines) = 0 /\ DOMAIN lines = {}
    BY DEF ChainInit
  <1>5. raced \in BOOLEAN /\ ended \in BOOLEAN
    BY DEF ChainInit
  <1>6. DOMAIN draft = Appenders /\ \A p \in Appenders : draft[p] = NoDraft
    BY DEF ChainInit, NoDrafts
  <1>2. ChainTypeOK
    BY <1>1, <1>5, <1>6 DEF ChainInit, ChainTypeOK, Untouched
  <1>3. SoundBut
    BY <1>1 DEF ChainInit, SoundBut, NoDrafts
  <1>4. Alone
    BY DEF ChainInit, Alone, NoDrafts
  <1> QED BY <1>1, <1>2, <1>3, <1>4 DEF ChainInit, ChainInv, Untouched

LEMMA ChainInvInductive ==
  ASSUME ChainInv, [ChainNext]_chain_vars
  PROVE  ChainInv'
  <1>0. PICK S : lines \in Seq(S)
    BY DEF ChainInv
  <1>1. /\ Len(lines) \in Nat /\ DOMAIN lines = 1..Len(lines)
        /\ ended \in BOOLEAN /\ (lines = <<>> => ended)
        /\ \A i \in DOMAIN lines : lines[i] = Torn \/ IsRecord(lines[i])
        /\ DOMAIN draft = Appenders
        /\ \A p \in Appenders : draft[p] = NoDraft \/ IsRecord(draft[p])
        /\ touched.how \in {"none", "edited", "deleted", "swapped"} /\ touched.at \in Nat
        /\ raced \in BOOLEAN
        /\ touched.how = "none" => touched.at = 0
        /\ touched.how # "none" => touched.at \in DOMAIN lines
    BY DEF ChainInv, ChainTypeOK
  <1>2. ASSUME NEW p \in Appenders, NEW body \in Body, ReadHead(p, body)
        PROVE  ChainInv'
    <2>1. /\ UNCHANGED <<lines, ended, touched>> /\ Readable
          /\ draft' = [draft EXCEPT ![p] = NextRecord(body)]
          /\ raced' = (raced \/ draft # NoDrafts)
      BY <1>2 DEF ReadHead
    <2>2. lines # <<>> => Len(lines) \in DOMAIN lines
      BY <1>0, <1>1
    <2>3. HeadSeq \in Nat
      BY <1>1, <2>1, <2>2 DEF HeadSeq, Readable, IsRecord
    <2>4. IsRecord(NextRecord(body))
      BY <2>3 DEF NextRecord, IsRecord
    <2>5. ChainTypeOK'
      BY <1>1, <2>1, <2>4 DEF ChainTypeOK
    <2>8. ASSUME ~raced' PROVE ~raced /\ Alone'
      BY <1>1, <2>1, <2>8 DEF Alone, NoDrafts
    <2>6. ASSUME ~raced, touched.how \in {"none", "edited"}
          PROVE  SoundBut'
      <3>1. SoundBut
        BY <2>1, <2>6 DEF ChainInv
      <3>2. HeadSeq = Len(lines)
        BY <1>0, <1>1, <2>2, <3>1 DEF HeadSeq, SoundBut, Gap
      <3>3. Continues(NextRecord(body))
        BY <3>2 DEF Continues, NextRecord, HeadHash
      <3>4. \A q \in Appenders : draft'[q] # NoDraft => Continues(draft'[q])
        BY <1>1, <2>1, <3>1, <3>3 DEF SoundBut
      <3>5. \A r : Continues(r)' = Continues(r)
        BY <2>1 DEF Continues, PrevHash
      <3> QED BY <2>1, <3>1, <3>4
               DEF SoundBut, Continues, PrevHash, Gap, Break, Tampered
    <2>7. Readable' = Readable /\ OutOfPlace' = OutOfPlace
      BY <2>1
      DEF Readable, OutOfPlace, Faulty, Gap, Break, Tampered, PrevHash
    <2> QED BY <1>0, <1>1, <2>1, <2>5, <2>6, <2>7, <2>8 DEF ChainInv
  <1>3. ASSUME NEW p \in Appenders, Write(p)
        PROVE  ChainInv'
    <2>1. CASE ~raced
      <3>1. draft' = NoDrafts
        BY <1>1, <1>3, <2>1 DEF ChainInv, Alone, Write, NoDrafts
      <3> QED BY <1>3, <3>1, Extended DEF Write
    <2>2. CASE raced
      <3>1. /\ lines' = WithLine(draft[p]) /\ IsRecord(draft[p])
            /\ raced' /\ touched' = touched
            /\ ended' = TRUE /\ draft' = [draft EXCEPT ![p] = NoDraft]
        BY <1>1, <1>3, <2>2 DEF Write
      <3>2. /\ \E T : lines' \in Seq(T)
            /\ DOMAIN lines' = 1..Len(lines') /\ Len(lines') \in Nat /\ Len(lines') >= Len(lines)
            /\ \A i \in DOMAIN lines' : lines'[i] = Torn \/ IsRecord(lines'[i])
        BY <1>0, <1>1, <3>1, WithLineIsALog
      <3>3. \A q \in Appenders : draft'[q] = NoDraft \/ IsRecord(draft'[q])
        BY <1>1, <3>1
      <3>4. ChainTypeOK'
        BY <1>1, <2>2, <3>1, <3>2, <3>3 DEF ChainTypeOK
      <3> QED BY <1>1, <3>1, <3>2, <3>4 DEF ChainInv
    <2> QED BY <1>1, <2>1, <2>2
  <1>4. ASSUME NEW p \in Appenders, TornWrite(p)
        PROVE  ChainInv'
    BY <1>4, Extended DEF TornWrite
  <1>5. ASSUME PowerLoss PROVE ChainInv'
    <2>1. UNCHANGED <<lines, ended, touched, raced>> /\ draft' = NoDrafts /\ Alone'
      BY <1>5 DEF PowerLoss, Alone, NoDrafts
    <2>2. ChainTypeOK'
      BY <1>1, <2>1 DEF ChainTypeOK, NoDrafts
    <2>3. SoundBut => SoundBut'
      BY <2>1 DEF SoundBut, NoDrafts, PrevHash, Gap, Break, Tampered
    <2>4. Readable' = Readable /\ OutOfPlace' = OutOfPlace
      BY <2>1
      DEF Readable, OutOfPlace, Faulty, Gap, Break, Tampered, PrevHash
    <2> QED BY <1>0, <1>1, <2>1, <2>2, <2>3, <2>4 DEF ChainInv
  <1>6. CASE UNCHANGED chain_vars
    <2>1. /\ ChainTypeOK' = ChainTypeOK /\ SoundBut' = SoundBut
          /\ Readable' = Readable /\ OutOfPlace' = OutOfPlace /\ Alone' = Alone
      BY <1>6 DEF chain_vars, ChainTypeOK, Alone, SoundBut, Continues, Readable, OutOfPlace,
                  Faulty, Gap, Break, Tampered, PrevHash
    <2> QED BY <1>0, <1>1, <1>6, <2>1 DEF ChainInv, chain_vars
  <1>7. ASSUME NEW i \in DOMAIN lines, NEW body \in Body, Readable, Edit(i, body)
        PROVE  ChainInv'
    <2>1. /\ lines' = [lines EXCEPT ![i] = [@ EXCEPT !.body = body]] /\ lines[i].body # body
          /\ ended' = TRUE /\ touched.at = 0 /\ touched.how = "none"
          /\ touched'.how = "edited" /\ touched'.at = i
          /\ draft' = draft /\ raced' = raced /\ Alone' = Alone
      BY <1>7 DEF Edit, Rewrite, Untouched, Alone
    <2>2. IsRecord(lines[i]) /\ lines[i] # Torn
      BY <1>1, <1>7 DEF Readable
    <2> DEFINE changed == [lines[i] EXCEPT !.body = body]
    <2>3. /\ changed.seq = lines[i].seq /\ changed.prev = lines[i].prev
          /\ changed.hash = lines[i].hash /\ changed.body = body /\ IsRecord(changed)
      BY <2>2 DEF IsRecord
    <2> HIDE DEF changed
    <2>4. /\ lines' \in Seq(S \cup {changed}) /\ Len(lines') = Len(lines)
          /\ DOMAIN lines' = 1..Len(lines) /\ lines'[i] = changed
          /\ \A j \in DOMAIN lines : j # i => lines'[j] = lines[j]
      BY <1>0, <1>1, <2>1 DEF changed
    <2>5. \A j \in DOMAIN lines : /\ lines'[j].seq = lines[j].seq /\ lines'[j].prev = lines[j].prev
                                 /\ lines'[j].hash = lines[j].hash
      BY <2>3, <2>4
    <2>6. lines # <<>> /\ lines' # <<>> /\ i \in Nat
      BY <1>1, <2>4
    <2>7. ChainTypeOK'
      <3>1. \A j \in DOMAIN lines' : lines'[j] = Torn \/ IsRecord(lines'[j])
        BY <1>1, <2>3, <2>4
      <3> QED BY <1>1, <2>1, <2>4, <2>6, <3>1 DEF ChainTypeOK
    <2>8. ~raced => SoundBut
      BY <1>7, <2>1 DEF ChainInv
    <2>9. ASSUME ~raced PROVE SoundBut'
      <3>1. \A n \in 1..(Len(lines) + 1) : PrevHash(n)' = PrevHash(n)
        BY <1>1, <2>5 DEF PrevHash
      <3>2. \A j \in DOMAIN lines : Gap(j)' = Gap(j) /\ Break(j)' = Break(j)
        BY <1>1, <2>5, <3>1 DEF Gap, Break
      <3>3. \A j \in DOMAIN lines : Tampered(j)' <=> j = i
        <4>1. \A j \in DOMAIN lines : ~Tampered(j)
          BY <1>1, <2>1, <2>8, <2>9 DEF SoundBut
        <4>2. ~Tampered(i) => Tampered(i)'
          BY <2>1, <2>3, <2>4 DEF Tampered, Digest
        <4>3. \A j \in DOMAIN lines : j # i => (Tampered(j)' = Tampered(j))
          BY <2>4 DEF Tampered
        <4> QED BY <1>7, <4>1, <4>2, <4>3
      <3>4. PICK n \in Nat : n = Len(lines) + 1
        BY <1>1
      <3>5. \A r : Continues(r)' = Continues(r)
        BY <1>1, <2>4, <3>1, <3>4 DEF Continues
      <3> QED BY <1>1, <2>1, <2>4, <2>8, <2>9, <3>2, <3>3, <3>5 DEF SoundBut
    <2> QED BY <1>1, <1>7, <2>1, <2>4, <2>7, <2>9 DEF ChainInv
  <1>8. ASSUME NEW i \in DOMAIN lines, Readable, Delete(i)
        PROVE  ChainInv'
    <2>1. /\ lines' = RemoveAt(lines, i) /\ i < Len(lines)
          /\ ended' = TRUE /\ touched.at = 0 /\ touched.how = "none"
          /\ touched'.how = "deleted" /\ touched'.at = i
          /\ draft' = draft /\ raced' = raced /\ Alone' = Alone
      BY <1>8 DEF Delete, Rewrite, Untouched, Alone
    <2>2. /\ lines' \in Seq(S) /\ Len(lines') = Len(lines) - 1
          /\ DOMAIN lines' = 1..(Len(lines) - 1)
          /\ \A j \in 1..(i - 1) : lines'[j] = lines[j]
          /\ \A j \in i..(Len(lines) - 1) : lines'[j] = lines[j + 1]
      <3>1. i \in 1..Len(lines)
        BY <1>1, <1>8
      <3>2. /\ RemoveAt(lines, i) \in Seq(S) /\ Len(RemoveAt(lines, i)) = Len(lines) - 1
            /\ DOMAIN RemoveAt(lines, i) = 1..(Len(lines) - 1)
            /\ \A j \in 1..(i - 1) : RemoveAt(lines, i)[j] = lines[j]
            /\ \A j \in i..(Len(lines) - 1) : RemoveAt(lines, i)[j] = lines[j + 1]
        BY <1>0, <3>1, RemovedLine
      <3> QED BY <2>1, <3>2
    <2>3. i \in 1..Len(lines) /\ i \in 1..(Len(lines) - 1)
      BY <1>1, <2>1
    <2>4. ChainTypeOK'
      <3>1. \A j \in DOMAIN lines' : lines'[j] = Torn \/ IsRecord(lines'[j])
        BY <1>1, <2>2, <2>3
      <3>2. lines' # <<>>
        BY <2>2, <2>3
      <3> QED BY <1>1, <2>1, <2>2, <2>3, <3>1, <3>2 DEF ChainTypeOK
    <2>5. ~raced => SoundBut
      BY <1>8, <2>1 DEF ChainInv
    <2>6. ASSUME ~raced PROVE OutOfPlace'
      <3>1. lines'[i].seq = i + 1
        BY <1>1, <2>1, <2>2, <2>3, <2>5, <2>6 DEF SoundBut, Gap
      <3>2. \A j \in 1..(i - 1) : Faulty(j)' = Faulty(j)
        <4> TAKE j \in 1..(i - 1)
        <4>1. lines'[j] = lines[j] /\ (j # 1 => lines'[j - 1] = lines[j - 1])
          BY <2>2, <2>3
        <4>2. PrevHash(j)' = PrevHash(j)
          BY <4>1 DEF PrevHash
        <4> QED BY <4>1, <4>2 DEF Faulty, Gap, Break, Tampered
      <3>3. \A j \in 1..(i - 1) : j \in DOMAIN lines /\ j # touched.at
        BY <1>1, <2>1, <2>3
      <3> QED BY <2>1, <2>5, <2>6, <3>1, <3>2, <3>3 DEF OutOfPlace, SoundBut, Faulty
    <2> QED BY <2>1, <2>2, <2>3, <2>4, <2>6 DEF ChainInv
  <1>9. ASSUME NEW i \in DOMAIN lines, Readable, Swap(i)
        PROVE  ChainInv'
    <2>1. /\ lines' = [lines EXCEPT ![i] = lines[i + 1], ![i + 1] = lines[i]] /\ i < Len(lines)
          /\ ended' = TRUE /\ touched.at = 0 /\ touched.how = "none"
          /\ touched'.how = "swapped" /\ touched'.at = i
          /\ draft' = draft /\ raced' = raced /\ Alone' = Alone
      BY <1>9 DEF Swap, Rewrite, Untouched, Alone
    <2>2. i \in 1..Len(lines) /\ i + 1 \in 1..Len(lines) /\ i # i + 1
      BY <1>1, <2>1
    <2>3. /\ lines' \in Seq(S) /\ Len(lines') = Len(lines)
          /\ DOMAIN lines' = 1..Len(lines)
          /\ lines'[i] = lines[i + 1] /\ lines'[i + 1] = lines[i]
          /\ \A j \in DOMAIN lines : j # i /\ j # i + 1 => lines'[j] = lines[j]
      BY <1>0, <1>1, <2>1, <2>2
    <2>4. ChainTypeOK'
      <3>1. \A j \in DOMAIN lines' : lines'[j] = Torn \/ IsRecord(lines'[j])
        BY <1>1, <2>2, <2>3
      <3>2. lines' # <<>>
        BY <2>2, <2>3
      <3> QED BY <1>1, <2>1, <2>2, <2>3, <3>1, <3>2 DEF ChainTypeOK
    <2>5. ~raced => SoundBut
      BY <1>9, <2>1 DEF ChainInv
    <2>6. ASSUME ~raced PROVE OutOfPlace'
      <3>1. lines'[i].seq = i + 1
        BY <1>1, <2>2, <2>3, <2>5, <2>6 DEF SoundBut, Gap
      <3>2. \A j \in 1..(i - 1) : Faulty(j)' = Faulty(j)
        <4> TAKE j \in 1..(i - 1)
        <4>1. lines'[j] = lines[j] /\ (j # 1 => lines'[j - 1] = lines[j - 1])
          BY <1>1, <2>2, <2>3
        <4>2. PrevHash(j)' = PrevHash(j)
          BY <4>1 DEF PrevHash
        <4> QED BY <4>1, <4>2 DEF Faulty, Gap, Break, Tampered
      <3>3. \A j \in 1..(i - 1) : j \in DOMAIN lines /\ j # touched.at
        BY <1>1, <2>1, <2>2
      <3> QED BY <2>1, <2>5, <2>6, <3>1, <3>2, <3>3 DEF OutOfPlace, SoundBut, Faulty
    <2> QED BY <1>1, <2>1, <2>2, <2>3, <2>4, <2>6 DEF ChainInv
  <1> QED BY <1>2, <1>3, <1>4, <1>5, <1>6, <1>7, <1>8, <1>9 DEF ChainNext

----------------------------------------------------------------------------
LEMMA ChainInvariant == ChainSpec => []ChainInv
  <1>1. ASSUME ChainInv, [ChainNext]_chain_vars PROVE ChainInv'
    BY <1>1, ChainInvInductive
  <1> QED BY <1>1, ChainInvInitial, PTL DEF ChainSpec

\* The log is lines, records or torn, and what is about to be appended is a record, whatever
\* processes, power losses and edits do.
THEOREM ChainTypes == ChainSpec => []ChainTypeOK
  <1>1. ChainInv => ChainTypeOK
    BY DEF ChainInv
  <1> QED BY <1>1, ChainInvariant, PTL

\* As long as no append has begun inside another, a chain that nobody has altered
\* verifies end-to-end, however many appends were cut off by power losses.
THEOREM VerifiesEndToEnd == ChainSpec => []VerifiesUntouched
  <1>1. ChainInv => VerifiesUntouched
    <2> SUFFICES ASSUME ChainInv, touched = Untouched, ~raced, Readable PROVE VerifyOK
      BY DEF VerifiesUntouched
    <2>1. SoundBut /\ touched.at = 0 /\ DOMAIN lines = 1..Len(lines) /\ Len(lines) \in Nat
      BY DEF ChainInv, Untouched, ChainTypeOK
    <2> QED BY <2>1 DEF SoundBut, VerifyOK, Faulty
  <1> QED BY <1>1, ChainInvariant, PTL

\* As long as no append has begun inside another, verify() names the one record
\* that was edited, or the first one out of place after a deletion or a swap, whatever has
\* been appended since.
THEOREM BreakIsLocalised == ChainSpec => []DamageNamed
  <1>1. ChainInv => DamageNamed
    <2> SUFFICES ASSUME ChainInv, ~raced, Readable PROVE DamageNamed
      BY DEF DamageNamed
    <2>1. DOMAIN lines = 1..Len(lines) /\ Len(lines) \in Nat /\ touched.at \in Nat
      BY DEF ChainInv, ChainTypeOK
    <2>2. ASSUME touched.how = "edited" PROVE BrokenAt(touched.at, "record_tampered")
      <3>1. SoundBut /\ touched.at \in DOMAIN lines
        BY <2>2 DEF ChainInv
      <3>2. Faulty(touched.at) /\ Reason(touched.at) = "record_tampered"
            /\ lines[touched.at].seq = touched.at
        BY <3>1 DEF SoundBut, Faulty, Reason, Gap
      <3>3. \A j \in 1..(touched.at - 1) : ~Faulty(j)
        BY <2>1, <3>1 DEF SoundBut, Faulty
      <3> QED BY <3>1, <3>2, <3>3 DEF BrokenAt
    <2>3. ASSUME touched.how \in {"deleted", "swapped"}
          PROVE  BrokenAt(touched.at + 1, "sequence_gap")
      <3>1. OutOfPlace /\ touched.at \in DOMAIN lines
        BY <2>3 DEF ChainInv
      <3>2. Gap(touched.at)
        BY <2>1, <3>1 DEF OutOfPlace, Gap
      <3> QED BY <3>1, <3>2 DEF OutOfPlace, BrokenAt, Faulty, Reason
    <2> QED BY <2>2, <2>3 DEF DamageNamed
  <1> QED BY <1>1, ChainInvariant, PTL

\* A write adds a line or destroys the unfinished one, and leaves every other in place.
LEMMA WriteAppends ==
  ASSUME ChainInv, NEW new, lines' = WithLine(new)
  PROVE  /\ Len(lines) <= Len(lines')
         /\ \A i \in DOMAIN lines :
              lines'[i] # lines[i] => i = Len(lines) /\ ~ended /\ lines'[i] = Torn
  <1>1. PICK S : lines \in Seq(S)
    BY DEF ChainInv
  <1>2. Len(lines) \in Nat /\ DOMAIN lines = 1..Len(lines) /\ (lines = <<>> => ended)
    BY <1>1 DEF ChainInv, ChainTypeOK
  <1>3. CASE ended
    <2>1. /\ Len(Append(lines, new)) = Len(lines) + 1
          /\ \A i \in 1..Len(lines) : Append(lines, new)[i] = lines[i]
      BY <1>1, AppendedLine
    <2> QED BY <1>2, <1>3, <2>1 DEF WithLine
  <1>4. CASE ~ended
    <2>1. lines' = [lines EXCEPT ![Len(lines)] = Torn] /\ Len(lines) \in DOMAIN lines
      BY <1>1, <1>2, <1>4 DEF WithLine
    <2>2. Len(lines') = Len(lines)
      BY <1>1, <2>1
    <2> QED BY <1>2, <1>4, <2>1, <2>2
  <1> QED BY <1>3, <1>4

\* The log is append-only for its own code, with any number of appenders (F13 R1): nothing
\* but the line the power left without its newline is ever lost, to the next write.
THEOREM LogOnlyGrows == ChainSpec => AppendOnly
  <1> DEFINE Grows == touched' = touched =>
        /\ Len(lines) <= Len(lines')
        /\ \A i \in DOMAIN lines :
              lines'[i] # lines[i] => i = Len(lines) /\ ~ended /\ lines'[i] = Torn
  <1>1. ChainInv /\ [ChainNext]_chain_vars => [Grows]_chain_vars
    <2> SUFFICES ASSUME ChainInv, ChainNext, touched' = touched PROVE Grows
      OBVIOUS
    <2>1. ASSUME NEW new, lines' = WithLine(new) PROVE Grows
      BY <2>1, WriteAppends
    <2>2. ASSUME UNCHANGED lines PROVE Grows
      <3>1. Len(lines) \in Nat
        BY DEF ChainInv, ChainTypeOK
      <3> QED BY <2>2, <3>1
    <2>3. ASSUME NEW how \in {"edited", "deleted", "swapped"}, NEW at, NEW new,
                 Rewrite(how, at, new)
          PROVE  FALSE
      BY <2>3 DEF Rewrite, Untouched
    <2> HIDE DEF Grows
    <2>4. CASE \E p \in Appenders, body \in Body : ReadHead(p, body)
      BY <2>2, <2>4 DEF ReadHead
    <2>5. CASE \E p \in Appenders : Write(p) \/ TornWrite(p)
      BY <2>1, <2>5 DEF Write, TornWrite
    <2>6. CASE PowerLoss
      BY <2>2, <2>6 DEF PowerLoss
    <2>7. CASE \E i \in DOMAIN lines : \/ \E body \in Body : Edit(i, body)
                                      \/ Delete(i) \/ Swap(i)
      BY <2>3, <2>7 DEF Edit, Delete, Swap
    <2> QED BY <2>4, <2>5, <2>6, <2>7 DEF ChainNext
  <1> QED BY <1>1, ChainInvariant, PTL DEF ChainSpec, AppendOnly

----------------------------------------------------------------------------
(* Decommission *)

\* What a receipt about to be issued rests on: the call in progress has every
\* erasable domain on one of its lists, and those it erased have no key slots.
CallTells ==
  ~Idle => /\ call \in [todo : SUBSET CRYPTO_ERASABLE, done : SUBSET CRYPTO_ERASABLE,
                        failed : SUBSET CRYPTO_ERASABLE]
           /\ call.todo \cup call.done \cup call.failed = CRYPTO_ERASABLE
           /\ call.done \cap keyed = {}

\* The inductive invariant
Honest ==
  /\ keyed \subseteq CRYPTO_ERASABLE
  /\ tail = "unended" => chain # <<>>
  /\ \E S : chain \in Seq(S)
  /\ CallTells
  /\ ReceiptsAreTrue

\* The invariant holds at the start.
LEMMA HonestInit == Init => Honest
  <1> SUFFICES ASSUME Init PROVE Honest
    OBVIOUS
  <1>1. chain = <<>> /\ chain \in Seq({})
    BY DEF Init
  <1>2. ReceiptsIn(chain) = {}
    BY <1>1 DEF ReceiptsIn
  <1> QED BY <1>1, <1>2 DEF Init, Honest, CallTells, ReceiptsAreTrue, Idle

\* Destroying key slots makes no receipt false, and neither does keeping them.
LEMMA FewerKeys ==
  ASSUME Honest, keyed' \subseteq keyed, UNCHANGED <<chain, tail>>, CallTells'
  PROVE  Honest'
  <1>1. ReceiptsIn(chain)' = ReceiptsIn(chain)
    BY DEF ReceiptsIn
  <1> QED BY <1>1 DEF Honest, ReceiptsAreTrue

\* A record appended makes nothing false but what it says itself.
LEMMA OneMoreRecord ==
  ASSUME Honest, NEW line, chain' = Append(chain, line), UNCHANGED keyed, CallTells',
         line.outcome # None => /\ line.domains_erased \cap keyed = {}
                                /\ line.outcome = "erased" => keyed = {}
  PROVE  Honest'
  <1>1. PICK S : chain \in Seq(S)
    BY DEF Honest
  <1>2. chain \in Seq(S \cup {line}) /\ line \in S \cup {line}
    BY <1>1
  <1>3. /\ chain' \in Seq(S \cup {line})
        /\ Len(chain') = Len(chain) + 1
        /\ \A i \in 1..Len(chain) : chain'[i] = chain[i]
        /\ chain'[Len(chain) + 1] = line
    BY <1>2, AppendProperties
  <1>4. \A i \in ReceiptsIn(chain') : \/ i \in ReceiptsIn(chain) /\ chain'[i] = chain[i]
                                      \/ chain'[i] = line /\ line.outcome # None
    <2>1. Len(chain) \in Nat
      BY <1>1
    <2> QED BY <1>3, <2>1 DEF ReceiptsIn
  <1>5. ReceiptsAreTrue'
    BY <1>4 DEF Honest, ReceiptsAreTrue
  <1>6. chain' # <<>>
    BY <1>1, <1>3, LenProperties
  <1> QED BY <1>3, <1>5, <1>6 DEF Honest

\* What a sequence is without its last record.
LEMMA LastRecordGone ==
  ASSUME NEW S, NEW s \in Seq(S), s # <<>>, NEW t, t = SubSeq(s, 1, Len(s) - 1)
  PROVE  /\ Len(s) \in Nat \ {0} /\ t \in Seq(S) /\ Len(t) = Len(s) - 1
         /\ \A i \in 1..Len(t) : i \in 1..Len(s) /\ t[i] = s[i]
  <1>1. Len(s) \in Nat /\ Len(s) # 0 /\ \A i \in 1..Len(s) : s[i] \in S
    BY LenProperties, EmptySeq, ElementOfSeq
  <1> DEFINE n == Len(s) - 1
  <1>2. n \in Int /\ n + 1 = Len(s) /\ n \in Nat
    BY <1>1
  <1>3. \A i \in 1..n : i \in 1..Len(s) /\ s[i] \in S
    BY <1>1, <1>2
  <1> HIDE DEF n
  <1>4. /\ SubSeq(s, 1, n) \in Seq(S)
        /\ Len(SubSeq(s, 1, n)) = IF 1 <= n THEN n - 1 + 1 ELSE 0
        /\ \A i \in 1..n - 1 + 1 : SubSeq(s, 1, n)[i] = s[1 + i - 1]
    BY <1>2, <1>3, SubSeqProperties
  <1>5. t = SubSeq(s, 1, n)
    BY DEF n
  <1>6. Len(t) = n
    BY <1>2, <1>4, <1>5
  <1>7. \A i \in 1..n : t[i] = s[i]
    BY <1>2, <1>4, <1>5
  <1> QED BY <1>1, <1>2, <1>3, <1>4, <1>5, <1>6, <1>7

\* Gluing a line to the last record, so that neither reads, makes nothing false.
LEMMA OneRecordLess ==
  ASSUME Honest, tail = "unended", chain' = WithoutLast, tail' = "torn", UNCHANGED keyed,
         CallTells'
  PROVE  Honest'
  <1>1. PICK S : chain \in Seq(S)
    BY DEF Honest
  <1>2. /\ chain' \in Seq(S)
        /\ \A i \in 1..Len(chain') : i \in 1..Len(chain) /\ chain'[i] = chain[i]
    BY <1>1, LastRecordGone DEF Honest, WithoutLast
  <1>3. \A i \in ReceiptsIn(chain') : i \in ReceiptsIn(chain) /\ chain'[i] = chain[i]
    BY <1>2 DEF ReceiptsIn
  <1>4. ReceiptsAreTrue'
    BY <1>3 DEF Honest, ReceiptsAreTrue
  <1> QED BY <1>2, <1>4 DEF Honest

\* An append, of a record that is true of what is on the disk, keeps the invariant, whether
\* it raises or not.
LEMMA AppendIsHonest ==
  ASSUME Honest, NEW line, Appended(line) \/ AppendRaises(line), UNCHANGED keyed, CallTells',
         line.outcome # None => /\ line.domains_erased \cap keyed = {}
                                /\ line.outcome = "erased" => keyed = {}
  PROVE  Honest'
  <1>1. \/ UNCHANGED <<chain, tail>>
        \/ chain' = Append(chain, line)
        \/ tail = "unended" /\ chain' = WithoutLast /\ tail' = "torn"
        \/ chain' = chain /\ tail' = "torn"
    BY DEF Appended, AppendRaises
  <1>2. CASE chain' = chain /\ (tail' = tail \/ tail' = "torn")
    <2>1. ReceiptsIn(chain)' = ReceiptsIn(chain)
      BY <1>2 DEF ReceiptsIn
    <2> QED BY <1>2, <2>1 DEF Honest, ReceiptsAreTrue
  <1>3. CASE chain' = Append(chain, line)
    BY <1>3, OneMoreRecord
  <1>4. CASE tail = "unended" /\ chain' = WithoutLast /\ tail' = "torn"
    BY <1>4, OneRecordLess
  <1> QED BY <1>1, <1>2, <1>3, <1>4

\* Every step keeps the invariant.
LEMMA HonestNext == Honest /\ [Next]_vars => Honest'
  <1> SUFFICES ASSUME Honest, [Next]_vars PROVE Honest'
    OBVIOUS
  <1> USE DEF Honest
  <1>1. CASE UNCHANGED <<keyed, chain, tail, call>>
    <2>1. CallTells'
      BY <1>1 DEF CallTells, Idle
    <2> QED BY <1>1, <2>1, FewerKeys
  <1>2. ASSUME NEW flaw, BeginErase(flaw) PROVE Honest'
    <2>1. CallTells'
      BY <1>2 DEF BeginErase, disk, CallTells, Idle
    <2> QED BY <1>2, <2>1, FewerKeys DEF BeginErase, disk
  <1>3. ASSUME NEW d \in CRYPTO_ERASABLE, EraseKeySlots(d) PROVE Honest'
    <2>1. keyed' = keyed \ {d} /\ UNCHANGED <<chain, tail>> /\ ~Idle
      BY <1>3 DEF EraseKeySlots
    <2>2. call' = [call EXCEPT !.todo = call.todo \ {d}, !.done = call.done \cup {d}]
      BY <1>3 DEF EraseKeySlots
    <2>3. CallTells'
      BY <2>1, <2>2 DEF CallTells
    <2> QED BY <2>1, <2>3, FewerKeys
  <1>4. ASSUME NEW d \in CRYPTO_ERASABLE, EraseFails(d) PROVE Honest'
    <2>1. UNCHANGED <<keyed, chain, tail>> /\ ~Idle
      BY <1>4 DEF EraseFails, disk
    <2>2. call' = [call EXCEPT !.todo = call.todo \ {d}, !.failed = call.failed \cup {d}]
      BY <1>4 DEF EraseFails
    <2>3. CallTells'
      BY <2>1, <2>2 DEF CallTells
    <2> QED BY <2>1, <2>3, FewerKeys
  <1>5. CASE IssueReceipt \/ ReceiptRaises
    <2>1. /\ Appended(TheReceipt) \/ AppendRaises(TheReceipt)
          /\ UNCHANGED keyed /\ ~Idle /\ call.todo = {} /\ call' = None
      BY <1>5 DEF IssueReceipt, ReceiptRaises
    <2>2. /\ TheReceipt.domains_erased \cap keyed = {}
          /\ TheReceipt.outcome = "erased" => keyed = {}
      BY <2>1 DEF CallTells, Outcome, TheReceipt
    <2>3. CallTells'
      BY <2>1 DEF CallTells, Idle
    <2> QED BY <2>1, <2>2, <2>3, AppendIsHonest
  <1>6. CASE OtherAppend
    <2>1. CallTells'
      BY <1>6 DEF OtherAppend, CallTells, Idle
    <2>2. Egress.outcome = None
      BY DEF Egress
    <2>3. (Appended(Egress) \/ AppendRaises(Egress)) /\ UNCHANGED keyed
      BY <1>6 DEF OtherAppend
    <2> QED BY <2>1, <2>2, <2>3, AppendIsHonest
  <1>7. CASE Restart \/ EraseRaises
    <2>1. call' = None /\ UNCHANGED <<keyed, chain, tail>>
      BY <1>7 DEF Restart, EraseRaises, disk
    <2>2. CallTells'
      BY <2>1 DEF CallTells, Idle
    <2> QED BY <2>1, <2>2, FewerKeys
  <1>8. \/ UNCHANGED <<keyed, chain, tail, call>>
        \/ \E flaw \in Flaw \cup {None} : BeginErase(flaw)
        \/ \E d \in CRYPTO_ERASABLE : EraseKeySlots(d) \/ EraseFails(d)
        \/ IssueReceipt \/ ReceiptRaises \/ OtherAppend \/ Restart \/ EraseRaises
    BY DEF Next, vars, disk, ExportAudit, ExportRefused, EraseRefused, Refuse, Damage
  <1> QED BY <1>1, <1>2, <1>3, <1>4, <1>5, <1>6, <1>7, <1>8

\* No receipt in the chain overstates: what it says was erased has no key slots, and
\* "erased" means every erasable domain, whatever failed or restarted on the way.
THEOREM ReceiptsNeverOverstate == Spec => []ReceiptsAreTrue
  <1>1. Init => Honest
    BY HonestInit
  <1>2. Honest /\ [Next]_vars => Honest'
    BY HonestNext
  <1>3. Honest => ReceiptsAreTrue
    BY DEF Honest
  <1> QED BY <1>1, <1>2, <1>3, PTL DEF Spec

----------------------------------------------------------------------------
(* Types *)

\* What TypeOK leaves out of a call in progress: its lists are of erasable domains.
Typed ==
  /\ TypeOK
  /\ ~Idle => call \in [todo : SUBSET CRYPTO_ERASABLE, done : SUBSET CRYPTO_ERASABLE,
                         failed : SUBSET CRYPTO_ERASABLE]

\* The initial states have their types.
LEMMA TypedInit == Init => Typed
  <1> SUFFICES ASSUME Init PROVE Typed
    OBVIOUS
  <1>1. <<>> \in Seq(Receipt \cup {Egress})
    OBVIOUS
  <1>2. chain \in Seq(Receipt \cup {Egress})
    BY <1>1 DEF Init
  <1>3. call = None /\ export = None /\ refusals = {} /\ receipts = 0 /\ erased = FALSE
        /\ intact = TRUE /\ keyed = CRYPTO_ERASABLE /\ tail = "none"
    BY DEF Init
  <1>4. device \in [known : BOOLEAN, escrowed : BOOLEAN]
    BY DEF Init
  <1> QED BY <1>2, <1>3, <1>4 DEF Typed, TypeOK, Idle

\* The lists of a call part the erasable domains.
Parted(c) ==
  /\ c \in [todo : SUBSET CRYPTO_ERASABLE, done : SUBSET CRYPTO_ERASABLE,
            failed : SUBSET CRYPTO_ERASABLE]
  /\ c.todo \cup c.done \cup c.failed = CRYPTO_ERASABLE
  /\ c.todo \cap c.done = {}
  /\ c.failed \cap (c.todo \cup c.done) = {}

\* They still do when a domain moves on from the first.
LEMMA PartedOnward ==
  ASSUME NEW c, Parted(c), NEW d \in c.todo
  PROVE  /\ Parted([c EXCEPT !.todo = c.todo \ {d}, !.done = c.done \cup {d}])
         /\ Parted([c EXCEPT !.todo = c.todo \ {d}, !.failed = c.failed \cup {d}])
  <1>0. c \in [todo : SUBSET CRYPTO_ERASABLE, done : SUBSET CRYPTO_ERASABLE,
              failed : SUBSET CRYPTO_ERASABLE]
    BY DEF Parted
  <1>1. /\ c.todo \subseteq CRYPTO_ERASABLE /\ c.done \subseteq CRYPTO_ERASABLE
        /\ c.failed \subseteq CRYPTO_ERASABLE
    BY <1>0
  <1>2. /\ c.todo \cap c.done = {} /\ c.failed \cap (c.todo \cup c.done) = {}
        /\ c.todo \cup c.done \cup c.failed = CRYPTO_ERASABLE
    BY DEF Parted
  <1>3. ASSUME NEW r, r = [c EXCEPT !.todo = c.todo \ {d}, !.done = c.done \cup {d}]
        PROVE  Parted(r)
    <2>1. r.todo = c.todo \ {d} /\ r.done = c.done \cup {d} /\ r.failed = c.failed
      BY <1>0, <1>3
    <2>2. r \in [todo : SUBSET CRYPTO_ERASABLE, done : SUBSET CRYPTO_ERASABLE,
                failed : SUBSET CRYPTO_ERASABLE]
      BY <1>0, <1>1, <1>3
    <2>3. /\ r.todo \cup r.done \cup r.failed = CRYPTO_ERASABLE
          /\ r.todo \cap r.done = {} /\ r.failed \cap (r.todo \cup r.done) = {}
      BY <1>2, <2>1
    <2> QED BY <2>2, <2>3 DEF Parted
  <1>4. ASSUME NEW r, r = [c EXCEPT !.todo = c.todo \ {d}, !.failed = c.failed \cup {d}]
        PROVE  Parted(r)
    <2>1. r.todo = c.todo \ {d} /\ r.done = c.done /\ r.failed = c.failed \cup {d}
      BY <1>0, <1>4
    <2>2. r \in [todo : SUBSET CRYPTO_ERASABLE, done : SUBSET CRYPTO_ERASABLE,
                failed : SUBSET CRYPTO_ERASABLE]
      BY <1>0, <1>1, <1>4
    <2>3. /\ r.todo \cup r.done \cup r.failed = CRYPTO_ERASABLE
          /\ r.todo \cap r.done = {} /\ r.failed \cap (r.todo \cup r.done) = {}
      BY <1>2, <2>1
    <2> QED BY <2>2, <2>3 DEF Parted
  <1> QED BY <1>3, <1>4

\* An append of a record leaves the chain one of records, whether it raises or not.
LEMMA AppendTyped ==
  ASSUME Typed, NEW line \in Receipt \cup {Egress}, Appended(line) \/ AppendRaises(line)
  PROVE  /\ chain' \in Seq(Receipt \cup {Egress})
         /\ tail' \in {"none", "unended", "torn"} /\ (tail' = "unended" => chain' # <<>>)
  <1>1. /\ chain \in Seq(Receipt \cup {Egress})
        /\ tail \in {"none", "unended", "torn"} /\ (tail = "unended" => chain # <<>>)
    BY DEF Typed, TypeOK
  <1>2. /\ Append(chain, line) \in Seq(Receipt \cup {Egress})
        /\ Append(chain, line) # <<>>
    BY <1>1, AppendProperties
  <1>3. tail = "unended" => WithoutLast \in Seq(Receipt \cup {Egress})
    BY <1>1, LastRecordGone DEF WithoutLast
  <1> QED BY <1>1, <1>2, <1>3 DEF Appended, AppendRaises

\* Every step keeps the types.
LEMMA TypedNext == Typed /\ [Next]_vars => Typed'
  <1> SUFFICES ASSUME Typed, [Next]_vars PROVE Typed'
    OBVIOUS
  <1> USE DEF Typed, TypeOK, Idle
  <1>1. CASE ExportAudit
    <2>1. export' \in Export /\ UNCHANGED <<keyed, chain, tail, intact, device, erased, call,
                                             refusals, receipts>>
      BY <1>1, LenProperties DEF ExportAudit, Export, disk
    <2> QED BY <2>1, <1>1 DEF ExportAudit
  <1>2. ASSUME NEW r \in EraseRefusal, Refuse(r) PROVE Typed'
    BY <1>2 DEF Refuse, disk
  <1>3. ASSUME NEW flaw \in Flaw \cup {None}, EraseRefused(flaw) PROVE Typed'
    <2>1. \E r \in EraseRefusal : Refuse(r)
      BY <1>3 DEF EraseRefused, EraseRefusal, Refusal
    <2> QED BY <1>2, <2>1
  <1>4. ASSUME NEW flaw, BeginErase(flaw) PROVE Typed'
    BY <1>4 DEF BeginErase, disk
  <1>5. ASSUME NEW d \in CRYPTO_ERASABLE, EraseKeySlots(d) \/ EraseFails(d) PROVE Typed'
    <2>1. /\ ~Idle /\ d \in call.todo /\ keyed' \subseteq keyed
          /\ \/ call' = [call EXCEPT !.todo = call.todo \ {d}, !.done = call.done \cup {d}]
             \/ call' = [call EXCEPT !.todo = call.todo \ {d}, !.failed = call.failed \cup {d}]
          /\ UNCHANGED <<chain, tail, intact, device, erased, export, refusals, receipts>>
      BY <1>5 DEF EraseKeySlots, EraseFails, disk
    <2>0. /\ call \in [todo : SUBSET CRYPTO_ERASABLE, done : SUBSET CRYPTO_ERASABLE,
                       failed : SUBSET CRYPTO_ERASABLE]
          /\ call.todo \cup call.done \cup call.failed = CRYPTO_ERASABLE
          /\ call.todo \cap call.done = {}
          /\ call.failed \cap (call.todo \cup call.done) = {}
      BY <2>1
    <2> DEFINE c == call
    <2>2. Parted(c) /\ d \in c.todo
      BY <2>0, <2>1 DEF Parted
    <2> HIDE DEF c
    <2>3. /\ Parted([c EXCEPT !.todo = c.todo \ {d}, !.done = c.done \cup {d}])
          /\ Parted([c EXCEPT !.todo = c.todo \ {d}, !.failed = c.failed \cup {d}])
      BY <2>2, PartedOnward
    <2>4. Parted(call')
      BY <2>1, <2>3 DEF c
    <2> QED BY <2>1, <2>4 DEF Parted
  <1>6. CASE IssueReceipt \/ ReceiptRaises
    <2>1. TheReceipt \in Receipt
      <3>1. call.done \subseteq CRYPTO_ERASABLE /\ call.failed \subseteq CRYPTO_ERASABLE
            /\ export \in Export
        BY <1>6 DEF IssueReceipt, ReceiptRaises
      <3> QED BY <3>1 DEF TheReceipt, Receipt, Outcome
    <2>2. /\ Appended(TheReceipt) \/ AppendRaises(TheReceipt)
          /\ call' = None /\ UNCHANGED <<keyed, intact, device, export, refusals>>
      BY <1>6 DEF IssueReceipt, ReceiptRaises
    <2>3. erased' \in BOOLEAN
      BY <1>6 DEF IssueReceipt, ReceiptRaises
    <2>4. receipts' \in Nat
      BY <1>6 DEF IssueReceipt, ReceiptRaises
    <2>5. /\ chain' \in Seq(Receipt \cup {Egress})
          /\ tail' \in {"none", "unended", "torn"} /\ (tail' = "unended" => chain' # <<>>)
      BY <2>1, <2>2, AppendTyped
    <2> QED BY <2>2, <2>3, <2>4, <2>5
  <1>7. CASE OtherAppend
    <2>1. Appended(Egress) \/ AppendRaises(Egress)
      BY <1>7 DEF OtherAppend
    <2>2. /\ chain' \in Seq(Receipt \cup {Egress})
          /\ tail' \in {"none", "unended", "torn"} /\ (tail' = "unended" => chain' # <<>>)
      BY <2>1, AppendTyped
    <2> QED BY <1>7, <2>2 DEF OtherAppend
  <1>8. CASE Damage
    BY <1>8 DEF Damage
  <1>9. CASE Restart \/ EraseRaises
    <2>1. CASE Restart
      BY <2>1 DEF Restart, disk
    <2>2. CASE EraseRaises
      BY <2>2 DEF EraseRaises, disk
    <2> QED BY <1>9, <2>1, <2>2
  <1>10. CASE UNCHANGED vars
    BY <1>10 DEF vars, disk
  <1>11. CASE ExportRefused
    BY <1>2, <1>11 DEF ExportRefused, EraseRefusal
  <1> QED BY <1>1, <1>3, <1>4, <1>5, <1>6, <1>7, <1>8, <1>9, <1>10, <1>11 DEF Next

\* Key slots, chain and refusals have their types, and a call in progress has each domain on
\* exactly one of its lists, whatever fails or restarts.
THEOREM DecommissionTypes == Spec => []TypeOK
  <1>1. Typed => TypeOK
    BY DEF Typed
  <1> QED BY <1>1, TypedInit, TypedNext, PTL DEF Spec

----------------------------------------------------------------------------
(* One receipt, of an export *)

BoundTo(i) == chain[i].export \in Export /\ chain[i].export.records < i

\* An export covers what the chain held, as long as a record can still be appended to it; the
\* receipts in the chain are of earlier exports, and this process has issued one just if it is
\* erased, which no call in progress finds.
Bound ==
  /\ export # None /\ tail # "torn" => export.records <= Len(chain)
  /\ \A i \in ReceiptsIn(chain) : BoundTo(i)
  /\ receipts = IF erased THEN 1 ELSE 0
  /\ ~Idle => ~erased

\* A record appended leaves the receipts before it bound.
LEMMA StillBound ==
  ASSUME Typed, Bound, NEW line, line \in Receipt \cup {Egress}, chain' = Append(chain, line),
         line.outcome # None => line.export \in Export /\ line.export.records <= Len(chain)
  PROVE  /\ \A i \in ReceiptsIn(chain)' : BoundTo(i)'
         /\ Len(chain') = Len(chain) + 1 /\ Len(chain) \in Nat
  <1>1. chain \in Seq(Receipt \cup {Egress}) /\ Len(chain) \in Nat
    BY DEF Typed, TypeOK
  <1>2. /\ Len(chain') = Len(chain) + 1
        /\ \A i \in 1..Len(chain) : chain'[i] = chain[i]
        /\ chain'[Len(chain) + 1] = line
    BY <1>1, AppendProperties
  <1>3. ASSUME NEW i \in 1..Len(chain'), chain'[i].outcome # None
        PROVE  chain'[i].export \in Export /\ chain'[i].export.records < i
    <2>1. CASE i = Len(chain) + 1
      <3>1. chain'[i] = line
        BY <1>2, <2>1
      <3>2. line.export \in Export /\ line.export.records <= Len(chain)
        BY <1>3, <3>1
      <3>3. line.export.records \in Nat
        BY <3>2 DEF Export
      <3> QED BY <1>1, <2>1, <3>1, <3>2, <3>3
    <2>2. CASE i # Len(chain) + 1
      <3>1. i \in 1..Len(chain)
        BY <1>1, <1>2, <2>2
      <3>2. chain'[i] = chain[i]
        BY <1>2, <3>1
      <3>3. i \in ReceiptsIn(chain)
        BY <1>3, <3>1, <3>2 DEF ReceiptsIn
      <3> QED BY <3>2, <3>3 DEF Bound, BoundTo
    <2> QED BY <2>1, <2>2
  <1> QED BY <1>1, <1>2, <1>3 DEF ReceiptsIn, BoundTo

\* An append, of a record bound to an export of what the chain held, keeps them bound, whether
\* it raises or not.
LEMMA AppendStaysBound ==
  ASSUME Typed, Bound, NEW line \in Receipt \cup {Egress}, UNCHANGED export,
         Appended(line) \/ AppendRaises(line),
         line.outcome # None => line.export = export /\ export # None
  PROVE  /\ \A i \in ReceiptsIn(chain)' : BoundTo(i)'
         /\ export' # None /\ tail' # "torn" => export'.records <= Len(chain')
  <1>1. chain \in Seq(Receipt \cup {Egress}) /\ (tail = "unended" => chain # <<>>)
        /\ (export # None => export.records \in Nat) /\ Len(chain) \in Nat
    BY DEF Typed, TypeOK, Export
  <1>2. \/ UNCHANGED <<chain, tail>>
        \/ tail = "none" /\ chain' = Append(chain, line)
        \/ tail = "unended" /\ chain' = WithoutLast /\ tail' = "torn"
        \/ chain' = chain /\ tail' = "torn"
    BY DEF Appended, AppendRaises
  <1>3. CASE chain' = chain /\ (tail' = tail \/ tail' = "torn")
    <2>1. ReceiptsIn(chain)' = ReceiptsIn(chain) /\ \A i : BoundTo(i)' <=> BoundTo(i)
      BY <1>3 DEF ReceiptsIn, BoundTo
    <2> QED BY <1>3, <2>1 DEF Bound
  <1>4. CASE tail = "none" /\ chain' = Append(chain, line)
    <2>1. export # None => export.records <= Len(chain)
      BY <1>4 DEF Bound
    <2>2. export # None => export \in Export
      BY DEF Typed, TypeOK
    <2>3. line.outcome # None => line.export \in Export /\ line.export.records <= Len(chain)
      BY <2>1, <2>2
    <2>4. /\ \A i \in ReceiptsIn(chain)' : BoundTo(i)'
          /\ Len(chain') = Len(chain) + 1
      BY <1>4, <2>3, StillBound
    <2> QED BY <1>1, <2>1, <2>4
  <1>5. CASE tail = "unended" /\ chain' = WithoutLast /\ tail' = "torn"
    <2>1. \A i \in 1..Len(chain') : i \in 1..Len(chain) /\ chain'[i] = chain[i]
      BY <1>1, <1>5, LastRecordGone DEF WithoutLast
    <2>2. \A i \in ReceiptsIn(chain)' : i \in ReceiptsIn(chain) /\ chain'[i] = chain[i]
      BY <2>1 DEF ReceiptsIn
    <2> QED BY <1>5, <2>2 DEF Bound, BoundTo
  <1> QED BY <1>2, <1>3, <1>4, <1>5

\* Every step keeps the receipts bound and single.
LEMMA BoundNext == Typed /\ Bound /\ [Next]_vars => Bound'
  <1> SUFFICES ASSUME Typed, Bound, [Next]_vars PROVE Bound'
    OBVIOUS
  <1>0. Len(chain) \in Nat /\ (export # None => export \in Export)
    BY DEF Typed, TypeOK
  <1>1. ASSUME UNCHANGED <<chain, tail, erased, receipts>>, ~Idle' => ~erased',
               export' # None /\ tail # "torn" => export'.records <= Len(chain)
        PROVE  Bound'
    <2>1. ReceiptsIn(chain)' = ReceiptsIn(chain) /\ \A i : BoundTo(i)' <=> BoundTo(i)
      BY <1>1 DEF ReceiptsIn, BoundTo
    <2> QED BY <1>1, <2>1 DEF Bound
  <1>2. CASE UNCHANGED <<chain, tail, erased, receipts, export, call>>
    BY <1>1, <1>2 DEF Bound, Idle
  <1>3. CASE ExportAudit
    <2>1. export' = [records |-> Len(chain)] /\ UNCHANGED <<chain, tail, erased, receipts, call>>
      BY <1>3 DEF ExportAudit, disk
    <2> QED BY <1>0, <1>1, <2>1 DEF Bound, Idle
  <1>4. ASSUME NEW flaw, BeginErase(flaw) PROVE Bound'
    <2>1. ~erased /\ UNCHANGED <<chain, tail, erased, receipts, export>>
      BY <1>4, DecommissionAssumption DEF BeginErase, Refusal, EraseRefusal, disk
    <2> QED BY <1>1, <2>1 DEF Bound
  <1>5. ASSUME NEW d, EraseKeySlots(d) \/ EraseFails(d) PROVE Bound'
    <2>1. ~Idle /\ UNCHANGED <<chain, tail, erased, receipts, export>>
      BY <1>5 DEF EraseKeySlots, EraseFails, disk
    <2> QED BY <1>1, <2>1 DEF Bound
  <1>6. ASSUME IssueReceipt \/ ReceiptRaises
        PROVE  /\ \A i \in ReceiptsIn(chain)' : BoundTo(i)'
               /\ export' # None /\ tail' # "torn" => export'.records <= Len(chain')
               /\ receipts = 0 /\ ~erased /\ Idle'
    <2>2. /\ Appended(TheReceipt) \/ AppendRaises(TheReceipt)
          /\ ~Idle /\ call' = None /\ UNCHANGED export
      BY <1>6 DEF IssueReceipt, ReceiptRaises
    <2>3. export # None /\ TheReceipt.export = export /\ TheReceipt \in Receipt
      <3>1. export \in Export /\ export # None /\ call.done \subseteq CRYPTO_ERASABLE
            /\ call.failed \subseteq CRYPTO_ERASABLE
        BY <2>2 DEF Typed, TypeOK, Idle
      <3>2. Outcome \in {"erased", "partial"}
        BY DEF Outcome
      <3> QED BY <3>1, <3>2 DEF Receipt, TheReceipt
    <2>4. /\ \A i \in ReceiptsIn(chain)' : BoundTo(i)'
          /\ export' # None /\ tail' # "torn" => export'.records <= Len(chain')
      BY <2>2, <2>3, AppendStaysBound
    <2> QED BY <2>2, <2>4 DEF Bound, Idle
  <1>7. CASE IssueReceipt
    <2>1. /\ erased' = (Outcome = "erased")
          /\ receipts' = IF Outcome = "erased" THEN receipts + 1 ELSE receipts
      BY <1>7 DEF IssueReceipt
    <2>2. receipts' = IF erased' THEN 1 ELSE 0
      <3>0. receipts = 0
        BY <1>6, <1>7
      <3>1. CASE Outcome = "erased"
        <4>1. erased' /\ receipts' = receipts + 1
          BY <2>1, <3>1
        <4> QED BY <3>0, <4>1
      <3>2. CASE Outcome # "erased"
        <4>1. ~erased' /\ receipts' = receipts
          BY <2>1, <3>2
        <4> QED BY <3>0, <4>1
      <3> QED BY <3>1, <3>2
    <2> QED BY <1>6, <1>7, <2>2 DEF Bound
  <1>8. CASE ReceiptRaises
    <2>1. UNCHANGED <<erased, receipts>>
      BY <1>8 DEF ReceiptRaises
    <2> QED BY <1>6, <1>8, <2>1 DEF Bound
  <1>9. CASE OtherAppend
    <2>1. /\ Appended(Egress) \/ AppendRaises(Egress)
          /\ Egress.outcome = None /\ UNCHANGED <<erased, receipts, export, call>>
      BY <1>9 DEF OtherAppend, Egress
    <2>2. /\ \A i \in ReceiptsIn(chain)' : BoundTo(i)'
          /\ export' # None /\ tail' # "torn" => export'.records <= Len(chain')
      BY <2>1, AppendStaysBound
    <2> QED BY <2>1, <2>2 DEF Bound, Idle
  <1>10. CASE Restart
    <2>1. /\ UNCHANGED <<chain, tail>>
          /\ export' = None /\ call' = None /\ ~erased' /\ receipts' = 0
      BY <1>10 DEF Restart, disk
    <2>2. ReceiptsIn(chain)' = ReceiptsIn(chain) /\ \A i : BoundTo(i)' <=> BoundTo(i)
      BY <2>1 DEF ReceiptsIn, BoundTo
    <2> QED BY <2>1, <2>2 DEF Bound, Idle
  <1>11. CASE EraseRaises
    <2>1. UNCHANGED <<chain, tail, erased, receipts, export>> /\ call' = None
      BY <1>11 DEF EraseRaises, disk
    <2> QED BY <1>1, <2>1 DEF Bound, Idle
  <1>12. \/ UNCHANGED <<chain, tail, erased, receipts, export, call>> \/ ExportAudit
         \/ \E flaw \in Flaw \cup {None} : BeginErase(flaw)
         \/ \E d \in CRYPTO_ERASABLE : EraseKeySlots(d) \/ EraseFails(d)
         \/ IssueReceipt \/ ReceiptRaises \/ OtherAppend \/ Restart \/ EraseRaises
    BY DEF Next, vars, disk, ExportRefused, EraseRefused, Refuse, Damage
  <1> QED BY <1>2, <1>3, <1>4, <1>5, <1>7, <1>8, <1>9, <1>10, <1>11, <1>12

\* Every receipt in the chain is bound to an export of what the chain held before it, and no
\* Decommissioner issues a second one that says "erased" (erase.py:150-192).
THEOREM ErasedOnce == Spec => []OneReceiptPerErasure
  <1>1. Init => Bound
    <2> SUFFICES ASSUME Init PROVE Bound
      OBVIOUS
    <2>1. ReceiptsIn(chain) = {}
      BY DEF Init, ReceiptsIn
    <2> QED BY <2>1 DEF Init, Bound, Idle
  <1>2. Bound => OneReceiptPerErasure
    BY DEF Bound, BoundTo, OneReceiptPerErasure
  <1> QED BY <1>1, <1>2, TypedInit, TypedNext, BoundNext, PTL DEF Spec
=============================================================================
