----------------------------- MODULE AuditChain -----------------------------
(***************************************************************************)
(* The hash-chained audit log (t1/control/audit_chain.py): one file, one   *)
(* line per record, appended to by every unit that holds the audit:append  *)
(* scope (t1/platform/supervisor.py:61).                                   *)
(*                                                                         *)
(* An append reads the whole file for its head and then writes one line:   *)
(* two steps, between which another process may append and the power may   *)
(* fail.  A write the power cuts short leaves part of a line, or a whole   *)
(* line without its newline.  `kind`, `body` and `ts` are one value here,  *)
(* and SHA-256 is free of collisions: a digest is its argument list.       *)
(* A definition named for a fault is the wrong form of the one after it.   *)
(***************************************************************************)
EXTENDS Naturals, Sequences, SequencesExt

CONSTANTS
  Appenders,   \* processes that hold the log open
  Body,        \* what a record says (kind, body, ts)
  Torn,        \* a line json.loads refuses
  NoDraft,     \* no append in progress
  MaxLines     \* bound on the lines explored

ASSUME ChainAssumption == MaxLines \in Nat

GENESIS == <<>>
DigestOfPosition(prev, seq, body) == <<prev, seq>>
Digest(prev, seq, body) == <<prev, seq, body>>

VARIABLES
  lines,    \* the file
  ended,    \* whether its last line ends in a newline
  draft,    \* per process: the record built from the head it has read
  touched,  \* history: what was done to the stored file behind the code's back
  raced     \* history: whether an append ever began inside another

chain_vars == <<lines, ended, draft, touched, raced>>

Untouched == [how |-> "none", at |-> 0]
NoDrafts == [p \in Appenders |-> NoDraft]

\* records() raises as soon as one line does not parse
Readable == \A i \in DOMAIN lines : lines[i] # Torn

PrevHash(i) == IF i = 1 THEN GENESIS ELSE lines[i - 1].hash
HeadHash == PrevHash(Len(lines) + 1)
HeadSeq == IF lines = <<>> THEN 0 ELSE lines[Len(lines)].seq
RecordOfGenesis(body) ==
  [seq |-> HeadSeq + 1, body |-> body, prev |-> GENESIS,
   hash |-> Digest(GENESIS, HeadSeq + 1, body)]
NextRecord(body) ==
  [seq |-> HeadSeq + 1, body |-> body, prev |-> HeadHash,
   hash |-> Digest(HeadHash, HeadSeq + 1, body)]

\* the line `new` reaches the file: after a newline, or glued to a line without one
WithLine(new) ==
  IF ended THEN Append(lines, new) ELSE [lines EXCEPT ![Len(lines)] = Torn]

\* verify(): what is checked of the i-th record
Gap(i)      == lines[i].seq # i
Break(i)    == lines[i].prev # PrevHash(i)
Tampered(i) == Digest(lines[i].prev, lines[i].seq, lines[i].body) # lines[i].hash
Faulty(i)   == Gap(i) \/ Break(i) \/ Tampered(i)
VerifyOK    == \A i \in DOMAIN lines : ~Faulty(i)
Reason(i)   == IF Gap(i) THEN "sequence_gap" ELSE IF Break(i) THEN "chain_break"
               ELSE "record_tampered"
\* VerifyResult(False, i, seq, reason): the first faulty record, by its own seq
BrokenAt(seq, reason) ==
  \E i \in DOMAIN lines : /\ Faulty(i) /\ \A j \in 1..(i - 1) : ~Faulty(j)
                          /\ lines[i].seq = seq /\ Reason(i) = reason

----------------------------------------------------------------------------
ChainInit ==
  /\ lines = <<>> /\ ended = TRUE
  /\ draft = NoDrafts
  /\ touched = Untouched /\ raced = FALSE

\* append: seq, prev_hash = self._head(), and the record built from them
ReadHead(p, body) ==
  /\ draft[p] = NoDraft /\ Readable /\ Len(lines) < MaxLines
  /\ draft' = [draft EXCEPT ![p] = NextRecord(body)]
  /\ raced' = (raced \/ draft # NoDrafts)
  /\ UNCHANGED <<lines, ended, touched>>

\* append: handle.write(record.to_json() + "\n"), at the end the file then has
Write(p) ==
  /\ draft[p] # NoDraft
  /\ lines' = WithLine(draft[p])
  /\ ended' = TRUE
  /\ draft' = [draft EXCEPT ![p] = NoDraft]
  /\ UNCHANGED <<touched, raced>>

\* the power fails; every process restarts over the file
PowerLoss ==
  /\ draft' = NoDrafts
  /\ UNCHANGED <<lines, ended, touched, raced>>

\* the power fails while p's line is on its way to the disk
TornWrite(p) ==
  /\ draft[p] # NoDraft
  /\ \E part \in {Torn, draft[p]} : lines' = WithLine(part)
  /\ ended' = FALSE
  /\ draft' = NoDrafts
  /\ UNCHANGED <<touched, raced>>

\* the stored file is rewritten by something other than this code, once
Rewrite(how, at, new) ==
  /\ touched = Untouched /\ Readable
  /\ lines' = new /\ ended' = TRUE
  /\ touched' = [how |-> how, at |-> at]
  /\ UNCHANGED <<draft, raced>>

Edit(i, body) ==
  /\ lines[i].body # body
  /\ Rewrite("edited", i, [lines EXCEPT ![i] = [@ EXCEPT !.body = body]])
Delete(i) == i < Len(lines) /\ Rewrite("deleted", i, RemoveAt(lines, i))
Swap(i) ==
  /\ i < Len(lines)
  /\ Rewrite("swapped", i, [lines EXCEPT ![i] = lines[i + 1], ![i + 1] = lines[i]])

ChainNext ==
  \/ \E p \in Appenders : \/ \E body \in Body : ReadHead(p, body)
                          \/ Write(p)
                          \/ TornWrite(p)
  \/ PowerLoss
  \/ Readable /\ \E i \in DOMAIN lines : \/ \E body \in Body : Edit(i, body)
                                         \/ Delete(i)
                                         \/ Swap(i)

ChainSpec == ChainInit /\ [][ChainNext]_chain_vars

----------------------------------------------------------------------------
(***************************************************************************)
(* Properties                                                              *)
(***************************************************************************)

IsRecord(r) ==
  /\ r = [seq |-> r.seq, body |-> r.body, prev |-> r.prev, hash |-> r.hash]
  /\ r.seq \in Nat \ {0} /\ r.body \in Body

\* Types of the file and of the records in progress.
ChainTypeOK ==
  /\ DOMAIN lines = 1..Len(lines) /\ Len(lines) \in Nat
  /\ \A i \in DOMAIN lines : lines[i] = Torn \/ IsRecord(lines[i])
  /\ ended \in BOOLEAN /\ (lines = <<>> => ended)
  /\ DOMAIN draft = Appenders
  /\ \A p \in Appenders : draft[p] = NoDraft \/ IsRecord(draft[p])
  /\ touched.how \in {"none", "edited", "deleted", "swapped"} /\ touched.at \in Nat
  /\ raced \in BOOLEAN

\* As long as no append has begun inside another, a chain nobody has altered verifies
\* end-to-end, across any power losses, whenever it can be read (F13, "the chain
\* verifies end-to-end").
VerifiesUntouched == touched = Untouched /\ ~raced /\ Readable => VerifyOK

\* As long as no append has begun inside another, verify() names the record that was
\* edited, or the first one out of place, whatever is appended afterwards: later
\* records never repair the break nor move the blame (audit_chain.py:3,
\* "verification localises the break").
DamageNamed ==
  Readable /\ ~raced =>
    /\ touched.how = "edited" => BrokenAt(touched.at, "record_tampered")
    /\ touched.how \in {"deleted", "swapped"} => BrokenAt(touched.at + 1, "sequence_gap")

\* The log is append-only for its own code (F13 R1), with any number of appenders,
\* but for one loss: a line the power left without its newline is destroyed by the
\* next write.
AppendOnly ==
  [][touched' = touched =>
        /\ Len(lines) <= Len(lines')
        /\ \A i \in DOMAIN lines :
              lines'[i] # lines[i] => i = Len(lines) /\ ~ended /\ lines'[i] = Torn]_chain_vars

(***************************************************************************)
(* What comments, docs and tests say, and the code does not do             *)
(***************************************************************************)

\* "Given any 30-day span, when verification runs, then the chain verifies
\* end-to-end" (FEATURES.md, F13), whoever appended.
ChainVerifies == touched = Untouched /\ Readable => VerifyOK

=============================================================================
