------------------------- MODULE PromptCacheProofs -------------------------
(***************************************************************************)
(* Proofs about PromptCache: every part keeps its range, and a read that   *)
(* follows an invalidation never answers with less than it announced.      *)
(*                                                                         *)
(* FreshRead is not inductive: what a read finds was stored by another,    *)
(* maybe long ago.  The invariant therefore says of every token which      *)
(* readers hold it and what may be stored under it: at least what each     *)
(* holder has to see, and under the epoch at least what was announced.     *)
(***************************************************************************)
EXTENDS PromptCache, TLAPS

(* Those of the parts that were read are as new as the floor.              *)
Covers(parts, floor) == \A q \in Prompts : parts[q] # 0 => parts[q] >= floor[q]

Whole(parts, p) == \A q \in Parts(p) : parts[q] # 0

DbAhead ==
    /\ \A p \in Prompts : db[p] >= announced[p]
    /\ \A w \in Writers : writer[w].version <= db[writer[w].prompt]

FloorsAnnounced == \A r \in Readers : \A q \in Prompts : reader[r].floor[q] <= announced[q]

OwnFloor == \A r \in Readers : Covers(reader[r].parts, reader[r].floor)

(* Nothing is read before the token is known.                              *)
UnreadAtFirst ==
    \A r \in Readers : reader[r].at \in {"idle", "create", "again", "look"} => reader[r].parts = Unread

(* What is, or may come to be, stored under a token serves each that holds it. *)
HeldCovers ==
    \A r \in Readers : reader[r].token # NoToken =>
        /\ \A e \in cache : e.token = reader[r].token => Covers(e.parts, reader[r].floor)
        /\ \A s \in Readers : reader[s].token = reader[r].token => Covers(reader[s].parts, reader[r].floor)

(* What is stored under the epoch serves those that are still to come.     *)
EpochCovers ==
    epoch # NoToken =>
        /\ \A e \in cache : e.token = epoch => Covers(e.parts, announced)
        /\ \A r \in Readers : reader[r].token = epoch => Covers(reader[r].parts, announced)

WholeResults ==
    /\ \A e \in cache : Whole(e.parts, e.prompt)
    /\ \A r \in Readers : At(r, "done") => Whole(reader[r].parts, reader[r].prompt)

IInv ==
    /\ TypeOK
    /\ DbAhead /\ FloorsAnnounced /\ OwnFloor /\ UnreadAtFirst
    /\ HeldCovers /\ EpochCovers /\ WholeResults

Stages == {"idle", "create", "again", "look", "read", "done"}

ReaderStates ==
    [at : Stages, prompt : Prompts, token : Nat, parts : [Prompts -> Nat], floor : [Prompts -> Nat]]

-----------------------------------------------------------------------------
(* What is read from a database ahead of a floor covers it.                *)
LEMMA UnreadCovers == ASSUME NEW floor PROVE Covers(Unread, floor)
PROOF BY DEF Covers, Unread

LEMMA IdleType == Idle \in ReaderStates /\ Idle.parts = Unread /\ Idle.floor = Unread
PROOF
  <1>1. (CHOOSE p \in Prompts : TRUE) \in Prompts
    BY PromptsAssumption
  <1> QED
    BY <1>1 DEF Idle, ReaderStates, Stages, Unread, NoToken

LEMMA ReaderTypes ==
    ASSUME TypeOK, NEW r \in Readers
    PROVE  reader[r] \in ReaderStates /\ reader[r].token <= tokens
PROOF BY DEF TypeOK, ReaderStates, Stages

-----------------------------------------------------------------------------
(* A step of one reader that leaves the cache alone: it keeps the          *)
(* invariant when the token it goes on with serves it, and what it has     *)
(* read serves those that share the token.                                 *)
LEMMA ReaderMoves ==
    ASSUME IInv, NEW r \in Readers, NEW st \in ReaderStates, Become(r, st),
           UNCHANGED <<db, cache, writer, writes, faults, announced>>,
           tokens' \in Nat, tokens <= tokens', st.token <= tokens',
           epoch' = epoch \/ (epoch' = tokens + 1 /\ epoch' <= tokens'),
           \A q \in Prompts : st.floor[q] <= announced[q],
           Covers(st.parts, st.floor),
           st.at \in {"idle", "create", "again", "look"} => st.parts = Unread,
           st.at = "done" => Whole(st.parts, st.prompt),
           st.token # NoToken =>
               /\ \A e \in cache : e.token = st.token => Covers(e.parts, st.floor)
               /\ \A s \in Readers \ {r} : reader[s].token = st.token =>
                     Covers(reader[s].parts, st.floor) /\ Covers(st.parts, reader[s].floor)
               /\ st.token = epoch' => Covers(st.parts, announced)
    PROVE  IInv'
PROOF
  <1> USE DEF NoToken
  <1>1. reader' = [reader EXCEPT ![r] = st] /\ TypeOK
    BY DEF Become, IInv
  <1>2. /\ reader'[r] = st
        /\ \A s \in Readers : s # r => reader'[s] = reader[s]
    BY <1>1 DEF TypeOK
  <1>3. TypeOK'
    BY <1>1 DEF TypeOK, ReaderStates, Stages
  <1>4. DbAhead' /\ FloorsAnnounced' /\ OwnFloor' /\ UnreadAtFirst'
    BY <1>2 DEF IInv, DbAhead, FloorsAnnounced, OwnFloor, UnreadAtFirst, Covers, Unread
  <1>5. HeldCovers'
    BY <1>2 DEF IInv, HeldCovers, Covers, OwnFloor
  <1>6. \A s \in Readers : reader[s].token <= tokens /\ reader[s].token \in Nat
    BY <1>1, ReaderTypes DEF ReaderStates
  <1>7. \A e \in cache : e.token <= tokens /\ e.token \in Nat
    BY <1>1 DEF TypeOK
  <1>8. tokens \in Nat
    BY <1>1 DEF TypeOK
  <1>9. EpochCovers'
    <2>1. CASE epoch' = epoch
      BY <2>1, <1>2 DEF IInv, EpochCovers, Covers
    <2>2. CASE epoch' = tokens + 1
      BY <2>2, <1>2, <1>6, <1>7, <1>8 DEF EpochCovers, Covers
    <2> QED
      BY <2>1, <2>2
  <1>10. WholeResults'
    BY <1>2 DEF IInv, WholeResults, Whole, At
  <1> QED
    BY <1>3, <1>4, <1>5, <1>9, <1>10 DEF IInv

-----------------------------------------------------------------------------
(* One lemma per action of getPrompt.                                      *)

LEMMA AskStep == ASSUME IInv, NEW r \in Readers, NEW p \in Asked, Ask(r, p) PROVE IInv'
PROOF
  <1> DEFINE at == IF epoch = NoToken THEN "create" ELSE "look"
             st == [Idle EXCEPT !.at = at, !.prompt = p, !.token = epoch, !.floor = announced]
  <1>1. /\ TypeOK /\ p \in Prompts
        /\ tokens \in Nat /\ epoch \in Nat /\ epoch <= tokens /\ announced \in [Prompts -> Nat]
        /\ at \in {"create", "look"}
    BY UsesAssumption DEF IInv, TypeOK
  <1>2. st \in ReaderStates /\ st.parts = Unread /\ st.floor = announced /\ st.token = epoch
        /\ st.at \in {"create", "look"}
    <2> HIDE DEF at
    <2> QED
      BY <1>1, IdleType DEF ReaderStates, Stages
  <1>3. Become(r, st) /\ UNCHANGED <<db, epoch, cache, writer, tokens, writes, faults, announced>>
    BY DEF Ask
  <1>4. \A q \in Prompts : announced[q] <= announced[q]
    BY <1>1
  <1>5. \A floor : Covers(st.parts, floor)
    BY <1>2, UnreadCovers
  <1>6. epoch # NoToken =>
            /\ \A e \in cache : e.token = epoch => Covers(e.parts, announced)
            /\ \A s \in Readers : reader[s].token = epoch => Covers(reader[s].parts, announced)
    BY DEF IInv, EpochCovers
  <1> HIDE DEF st
  <1> QED
    BY <1>1, <1>2, <1>3, <1>4, <1>5, <1>6, ReaderMoves

(* A token nobody has had, and no key was made of.                         *)
LEMMA FreshToken ==
    ASSUME IInv
    PROVE  /\ \A e \in cache : e.token # tokens + 1
           /\ \A s \in Readers : reader[s].token # tokens + 1
           /\ epoch # tokens + 1 /\ tokens + 1 \in Nat /\ tokens + 1 # NoToken
PROOF
  <1>1. TypeOK /\ tokens \in Nat
    BY DEF IInv, TypeOK
  <1>2. \A s \in Readers : reader[s].token \in Nat /\ reader[s].token <= tokens
    BY <1>1, ReaderTypes DEF ReaderStates
  <1>3. \A e \in cache : e.token \in 1..tokens
    BY <1>1 DEF TypeOK
  <1>4. epoch \in 0..tokens
    BY <1>1 DEF TypeOK
  <1> QED
    BY <1>1, <1>2, <1>3, <1>4 DEF NoToken

(* What a reader is before it has read: nothing that could disserve another. *)
LEMMA BeforeReads ==
    ASSUME IInv, NEW r \in Readers, reader[r].at \in {"idle", "create", "again", "look"}
    PROVE  /\ reader[r] \in ReaderStates /\ reader[r].parts = Unread
           /\ \A floor : Covers(reader[r].parts, floor)
           /\ \A q \in Prompts : reader[r].floor[q] <= announced[q]
           /\ reader[r].token <= tokens
PROOF
  <1>1. reader[r].parts = Unread
    BY DEF IInv, UnreadAtFirst
  <1> QED
    BY <1>1, UnreadCovers, ReaderTypes DEF IInv, FloorsAnnounced

LEMMA CreateStep == ASSUME IInv, NEW r \in Readers, Create(r) PROVE IInv'
PROOF
  <1>1. /\ reader[r] \in ReaderStates /\ reader[r].parts = Unread
        /\ \A floor : Covers(reader[r].parts, floor)
        /\ \A q \in Prompts : reader[r].floor[q] <= announced[q]
        /\ reader[r].token <= tokens
    BY BeforeReads DEF Create, At
  <1>2. tokens \in Nat
    BY DEF IInv, TypeOK
  <1>3. CASE epoch = NoToken
    <2> DEFINE st == [reader[r] EXCEPT !.at = "again", !.token = tokens + 1]
    <2>1. st \in ReaderStates /\ st.parts = Unread /\ st.token = tokens + 1 /\ st.at = "again"
          /\ st.floor = reader[r].floor
      <3>1. tokens + 1 \in Nat
        BY <1>2
      <3> QED
        BY <1>1, <3>1 DEF ReaderStates, Stages
    <2>2. Become(r, st) /\ UNCHANGED <<db, cache, writer, writes, faults, announced>>
      BY <1>3 DEF Create
    <2>3. epoch' = tokens + 1 /\ tokens' = tokens + 1
      BY <1>3 DEF Create, Rotate
    <2>4. \A floor : Covers(st.parts, floor)
      BY <2>1, UnreadCovers
    <2> HIDE DEF st
    <2>5. tokens' \in Nat /\ tokens <= tokens' /\ st.token <= tokens' /\ epoch' <= tokens'
      BY <1>2, <2>1, <2>3
    <2> QED
      BY <1>1, <2>1, <2>2, <2>3, <2>4, <2>5, FreshToken, ReaderMoves
  <1>4. CASE epoch # NoToken
    <2> DEFINE st == [reader[r] EXCEPT !.at = "again"]
    <2>1. st \in ReaderStates /\ st.parts = Unread /\ st.token = reader[r].token /\ st.at = "again"
          /\ st.floor = reader[r].floor
      BY <1>1 DEF ReaderStates, Stages
    <2>2. Become(r, st) /\ UNCHANGED <<db, epoch, cache, writer, tokens, writes, faults, announced>>
      BY <1>4 DEF Create
    <2>3. \A floor : Covers(st.parts, floor)
      BY <2>1, UnreadCovers
    <2> HIDE DEF st
    <2>4. tokens' \in Nat /\ tokens <= tokens' /\ st.token <= tokens'
      BY <1>1, <1>2, <2>1, <2>2
    <2>5. st.token # NoToken =>
              /\ \A e \in cache : e.token = st.token => Covers(e.parts, st.floor)
              /\ \A s \in Readers : reader[s].token = st.token => Covers(reader[s].parts, st.floor)
      BY <2>1 DEF IInv, HeldCovers
    <2> QED
      BY <1>1, <2>1, <2>2, <2>3, <2>4, <2>5, ReaderMoves
  <1> QED
    BY <1>3, <1>4

LEMMA AgainStep == ASSUME IInv, NEW r \in Readers, Again(r) PROVE IInv'
PROOF
  <1> DEFINE own == IF reader[r].token = NoToken THEN tokens + 1 ELSE reader[r].token
             token == IF epoch = NoToken THEN own ELSE epoch
             st == [reader[r] EXCEPT !.at = "look", !.token = token]
  <1>1. /\ reader[r] \in ReaderStates /\ reader[r].parts = Unread
        /\ \A floor : Covers(reader[r].parts, floor)
        /\ \A q \in Prompts : reader[r].floor[q] <= announced[q]
        /\ reader[r].token <= tokens
    BY BeforeReads DEF Again, At
  <1>2. tokens \in Nat /\ epoch \in 0..tokens
    BY DEF IInv, TypeOK
  <1>3. /\ Become(r, st) /\ tokens' = IF token > tokens THEN token ELSE tokens
        /\ UNCHANGED <<db, epoch, cache, writer, writes, faults, announced>>
    BY DEF Again
  <1>4. token \in Nat /\ token <= tokens + 1
    BY <1>1, <1>2 DEF ReaderStates
  <1>5. st \in ReaderStates /\ st.parts = Unread /\ st.token = token /\ st.at = "look"
        /\ st.floor = reader[r].floor
    BY <1>1, <1>4 DEF ReaderStates, Stages
  <1>6. \A floor : Covers(st.parts, floor)
    BY <1>5, UnreadCovers
  <1>7. tokens' \in Nat /\ tokens <= tokens' /\ token <= tokens'
    BY <1>2, <1>3, <1>4
  <1>8. token # NoToken =>
            /\ \A e \in cache : e.token = token => Covers(e.parts, reader[r].floor)
            /\ \A s \in Readers : reader[s].token = token => Covers(reader[s].parts, reader[r].floor)
    <2>1. CASE epoch # NoToken
      <3>1. /\ \A e \in cache : e.token = token => Covers(e.parts, announced)
            /\ \A s \in Readers : reader[s].token = token => Covers(reader[s].parts, announced)
        BY <2>1 DEF IInv, EpochCovers
      <3> HIDE DEF token
      <3>2. \A parts \in [Prompts -> Nat] : Covers(parts, announced) => Covers(parts, reader[r].floor)
        <4>1. /\ reader[r].floor \in [Prompts -> Nat] /\ announced \in [Prompts -> Nat]
              /\ \A q \in Prompts : reader[r].floor[q] <= announced[q]
          BY <1>1 DEF ReaderStates, IInv, TypeOK
        <4> QED
          BY <4>1 DEF Covers
      <3>3. /\ \A e \in cache : e.parts \in [Prompts -> Nat]
            /\ \A s \in Readers : reader[s].parts \in [Prompts -> Nat]
        BY DEF IInv, TypeOK
      <3> QED
        BY <3>1, <3>2, <3>3
    <2>2. CASE epoch = NoToken /\ reader[r].token = NoToken
      BY <2>2, FreshToken
    <2>3. CASE epoch = NoToken /\ reader[r].token # NoToken
      BY <2>3 DEF IInv, HeldCovers
    <2> QED
      BY <2>1, <2>2, <2>3
  <1> HIDE DEF st, token
  <1> QED
    BY <1>1, <1>3, <1>5, <1>6, <1>7, <1>8, ReaderMoves

(* A reader that holds no token any more can disserve itself only.         *)
LEMMA TokenDropped ==
    ASSUME IInv, NEW r \in Readers, NEW st \in ReaderStates, Become(r, st),
           UNCHANGED <<db, epoch, cache, writer, tokens, writes, faults, announced>>,
           st.token = NoToken,
           \A q \in Prompts : st.floor[q] <= announced[q],
           Covers(st.parts, st.floor),
           st.at \in {"idle", "create", "again", "look"} => st.parts = Unread,
           st.at = "done" => Whole(st.parts, st.prompt)
    PROVE  IInv'
PROOF
  <1>1. tokens \in Nat /\ tokens <= tokens
    BY DEF IInv, TypeOK
  <1>2. st.token <= tokens
    BY <1>1 DEF NoToken
  <1> QED
    BY <1>1, <1>2, ReaderMoves

(* What a reader has in hand.                                              *)
LEMMA InHand ==
    ASSUME IInv, NEW r \in Readers
    PROVE  /\ reader[r] \in ReaderStates /\ reader[r].token <= tokens /\ tokens \in Nat
           /\ Covers(reader[r].parts, reader[r].floor)
           /\ \A q \in Prompts : reader[r].floor[q] <= announced[q]
PROOF BY ReaderTypes DEF IInv, OwnFloor, FloorsAnnounced, TypeOK

LEMMA NoKeyStep == ASSUME IInv, NEW r \in Readers, NoKey(r) PROVE IInv'
PROOF
  <1> DEFINE st == [reader[r] EXCEPT !.at = "read", !.token = NoToken]
  <1>1. st \in ReaderStates /\ st.parts = reader[r].parts /\ st.token = NoToken /\ st.at = "read"
        /\ st.floor = reader[r].floor
    BY InHand DEF ReaderStates, Stages, NoToken
  <1>2. Become(r, st) /\ UNCHANGED <<db, epoch, cache, writer, tokens, writes, faults, announced>>
    BY DEF NoKey
  <1> HIDE DEF st
  <1> QED
    BY <1>1, <1>2, InHand, TokenDropped

LEMMA HitStep == ASSUME IInv, NEW r \in Readers, Hit(r) PROVE IInv'
PROOF
  <1>1. PICK e \in cache :
            /\ e.token = reader[r].token /\ e.prompt = reader[r].prompt
            /\ Become(r, [reader[r] EXCEPT !.at = "done", !.token = NoToken, !.parts = e.parts])
            /\ UNCHANGED <<db, epoch, cache, writer, tokens, writes, faults, announced>>
    BY DEF Hit
  <1> DEFINE st == [reader[r] EXCEPT !.at = "done", !.token = NoToken, !.parts = e.parts]
  <1>2. e.parts \in [Prompts -> Nat] /\ e.token # NoToken
    BY DEF IInv, TypeOK, NoToken
  <1>3. st \in ReaderStates /\ st.parts = e.parts /\ st.token = NoToken /\ st.at = "done"
        /\ st.floor = reader[r].floor /\ st.prompt = reader[r].prompt
    BY <1>2, InHand DEF ReaderStates, Stages, NoToken
  <1>4. Become(r, st)
    BY <1>1
  <1> HIDE DEF st
  <1>5. Covers(st.parts, st.floor)
    BY <1>1, <1>2, <1>3 DEF IInv, HeldCovers
  <1>6. Whole(st.parts, st.prompt)
    BY <1>1, <1>3 DEF IInv, WholeResults
  <1> QED
    BY <1>1, <1>3, <1>4, <1>5, <1>6, InHand, TokenDropped

(* The token stays: what is read so far serves who shares it, if it covers what was announced. *)
LEMMA TokenKept ==
    ASSUME IInv, NEW r \in Readers, NEW st \in ReaderStates, Become(r, st),
           UNCHANGED <<db, epoch, cache, writer, tokens, writes, faults, announced>>,
           st.at = "read", st.token = reader[r].token, st.floor = reader[r].floor,
           \A q \in Prompts : st.parts[q] = reader[r].parts[q] \/ st.parts[q] >= announced[q]
    PROVE  IInv'
PROOF
  <1>1. /\ reader[r] \in ReaderStates /\ st.token <= tokens /\ tokens \in Nat /\ tokens <= tokens
        /\ Covers(reader[r].parts, reader[r].floor)
        /\ \A q \in Prompts : st.floor[q] <= announced[q]
    BY InHand
  <1>2. ASSUME NEW s \in Readers, Covers(reader[r].parts, reader[s].floor)
        PROVE  Covers(st.parts, reader[s].floor)
    <2>1. /\ reader[s].floor \in [Prompts -> Nat] /\ announced \in [Prompts -> Nat]
          /\ st.parts \in [Prompts -> Nat]
          /\ \A q \in Prompts : reader[s].floor[q] <= announced[q]
      BY InHand DEF ReaderStates, IInv, TypeOK
    <2> QED
      BY <1>2, <2>1 DEF Covers
  <1>3. Covers(st.parts, st.floor)
    BY <1>1, <1>2
  <1>4. st.token # NoToken =>
            /\ \A e \in cache : e.token = st.token => Covers(e.parts, st.floor)
            /\ \A s \in Readers \ {r} : reader[s].token = st.token =>
                  Covers(reader[s].parts, st.floor) /\ Covers(st.parts, reader[s].floor)
    <2> SUFFICES ASSUME st.token # NoToken
                 PROVE  /\ \A e \in cache : e.token = st.token => Covers(e.parts, st.floor)
                        /\ \A s \in Readers \ {r} : reader[s].token = st.token =>
                              Covers(reader[s].parts, st.floor) /\ Covers(st.parts, reader[s].floor)
      OBVIOUS
    <2>1. \A e \in cache : e.token = st.token => Covers(e.parts, st.floor)
      BY DEF IInv, HeldCovers
    <2>2. ASSUME NEW s \in Readers, reader[s].token = st.token
          PROVE  Covers(reader[s].parts, st.floor) /\ Covers(reader[r].parts, reader[s].floor)
      BY <2>2 DEF IInv, HeldCovers
    <2> QED
      BY <2>1, <2>2, <1>2
  <1>5. st.token # NoToken /\ st.token = epoch => Covers(st.parts, announced)
    <2>1. st.token # NoToken /\ st.token = epoch => Covers(reader[r].parts, announced)
      BY DEF IInv, EpochCovers
    <2> QED
      BY <2>1 DEF Covers
  <1> QED
    BY <1>1, <1>3, <1>4, <1>5, ReaderMoves

LEMMA MissStep == ASSUME IInv, NEW r \in Readers, Miss(r) PROVE IInv'
PROOF
  <1> DEFINE st == [reader[r] EXCEPT !.at = "read"]
  <1>1. st \in ReaderStates /\ st.parts = reader[r].parts /\ st.token = reader[r].token
        /\ st.at = "read" /\ st.floor = reader[r].floor
    BY InHand DEF ReaderStates, Stages
  <1>2. Become(r, st) /\ UNCHANGED <<db, epoch, cache, writer, tokens, writes, faults, announced>>
    BY DEF Miss
  <1> HIDE DEF st
  <1> QED
    BY <1>1, <1>2, TokenKept

LEMMA ReadStep == ASSUME IInv, NEW r \in Readers, Read(r) PROVE IInv'
PROOF
  <1>1. PICK q \in Parts(reader[r].prompt) : Become(r, [reader[r] EXCEPT !.parts[q] = db[q]])
    BY DEF Read
  <1> DEFINE st == [reader[r] EXCEPT !.parts[q] = db[q]]
  <1>2. reader[r] \in ReaderStates /\ reader[r].prompt \in Prompts /\ q \in Prompts
        /\ db \in [Prompts -> Nat] /\ db[q] \in Nat
    <2>1. reader[r] \in ReaderStates /\ reader[r].prompt \in Prompts
      BY InHand DEF ReaderStates
    <2>2. q \in Prompts
      BY <2>1, UsesAssumption DEF Parts
    <2> QED
      BY <2>1, <2>2 DEF IInv, TypeOK
  <1>3. st \in ReaderStates /\ st.token = reader[r].token /\ st.at = reader[r].at
        /\ st.floor = reader[r].floor /\ st.parts = [reader[r].parts EXCEPT ![q] = db[q]]
    BY <1>2 DEF ReaderStates, Stages
  <1>4. Become(r, st)
        /\ UNCHANGED <<db, epoch, cache, writer, tokens, writes, faults, announced>>
        /\ reader[r].at = "read"
    BY <1>1 DEF Read, At
  <1> HIDE DEF st
  <1>5. \A x \in Prompts : st.parts[x] = reader[r].parts[x] \/ st.parts[x] >= announced[x]
    <2>1. db[q] >= announced[q] /\ reader[r].parts \in [Prompts -> Nat]
      BY <1>2 DEF IInv, DbAhead, ReaderStates
    <2> QED
      BY <1>3, <2>1
  <1>6. st.at = "read"
    BY <1>3, <1>4
  <1>7. st.token = reader[r].token /\ st.floor = reader[r].floor /\ st \in ReaderStates
    BY <1>3
  <1> QED
    BY <1>4, <1>5, <1>6, <1>7, TokenKept

LEMMA NotFilledStep == ASSUME IInv, NEW r \in Readers, NotFilled(r) PROVE IInv'
PROOF
  <1> DEFINE st == [reader[r] EXCEPT !.at = "done", !.token = NoToken]
  <1>1. st \in ReaderStates /\ st.parts = reader[r].parts /\ st.token = NoToken /\ st.at = "done"
        /\ st.floor = reader[r].floor /\ st.prompt = reader[r].prompt
    BY InHand DEF ReaderStates, Stages, NoToken
  <1>2. /\ Become(r, st) /\ UNCHANGED <<db, epoch, cache, writer, tokens, writes, faults, announced>>
        /\ Whole(reader[r].parts, reader[r].prompt)
    BY DEF NotFilled, Resolved, Whole
  <1> HIDE DEF st
  <1> QED
    BY <1>1, <1>2, InHand, TokenDropped

LEMMA ReturnStep == ASSUME IInv, NEW r \in Readers, Return(r) PROVE IInv'
PROOF
  <1>1. Become(r, Idle) /\ UNCHANGED <<db, epoch, cache, writer, tokens, writes, faults, announced>>
    BY DEF Return
  <1>2. Idle.token = NoToken /\ Idle.at = "idle"
    BY DEF Idle
  <1>3. \A q \in Prompts : Idle.floor[q] <= announced[q]
    <2>1. announced \in [Prompts -> Nat]
      BY DEF IInv, TypeOK
    <2>2. \A q \in Prompts : Idle.floor[q] = 0
      BY IdleType DEF Unread
    <2>3. \A q \in Prompts : announced[q] >= 0
      BY <2>1
    <2> QED
      BY <2>2, <2>3
  <1> QED
    BY <1>1, <1>2, <1>3, IdleType, UnreadCovers, TokenDropped

(* The entry replaces the one of its key, and serves who shares the token. *)
LEMMA FillStep == ASSUME IInv, NEW r \in Readers, Fill(r) PROVE IInv'
PROOF
  <1> DEFINE new == [token |-> reader[r].token, prompt |-> reader[r].prompt, parts |-> reader[r].parts]
             st == [reader[r] EXCEPT !.at = "done", !.token = NoToken]
  <1>1. /\ reader[r] \in ReaderStates /\ reader[r].token # NoToken
        /\ Whole(reader[r].parts, reader[r].prompt)
        /\ Become(r, st) /\ UNCHANGED <<db, epoch, writer, tokens, writes, faults, announced>>
    BY InHand DEF Fill, Resolved, Whole
  <1>2. /\ \A e \in cache' : e \in cache \/ e = new
        /\ \A e \in cache' \ {new} : ~(e.token = new.token /\ e.prompt = new.prompt)
    BY DEF Fill
  <1>3. /\ reader[r].token \in 1..tokens
        /\ new \in [token : 1..tokens, prompt : Prompts, parts : [Prompts -> Nat]]
        /\ new.token = reader[r].token /\ new.prompt = reader[r].prompt /\ new.parts = reader[r].parts
    <2>1. reader[r].token \in 1..tokens
      BY <1>1, InHand DEF ReaderStates, NoToken
    <2> QED
      BY <1>1, <2>1 DEF ReaderStates
  <1>4. st \in ReaderStates /\ st.parts = reader[r].parts /\ st.token = NoToken /\ st.at = "done"
        /\ st.floor = reader[r].floor /\ st.prompt = reader[r].prompt
    BY <1>1 DEF ReaderStates, Stages, NoToken
  <1> HIDE DEF st, new
  <1>5. /\ reader'[r] = st
        /\ \A s \in Readers \ {r} : reader'[s] = reader[s]
    BY <1>1 DEF Become, IInv, TypeOK
  <1>6. TypeOK'
    <2>1. cache' \subseteq [token : 1..tokens, prompt : Prompts, parts : [Prompts -> Nat]]
      BY <1>2, <1>3 DEF IInv, TypeOK
    <2>2. \A e, f \in cache' : e.token = f.token /\ e.prompt = f.prompt => e = f
      BY <1>2 DEF IInv, TypeOK
    <2>3. reader' \in [Readers -> [at : Stages, prompt : Prompts, token : 0..tokens,
                                   parts : [Prompts -> Nat], floor : [Prompts -> Nat]]]
      <3>1. st \in [at : Stages, prompt : Prompts, token : 0..tokens,
                    parts : [Prompts -> Nat], floor : [Prompts -> Nat]]
        BY <1>4 DEF ReaderStates, NoToken, IInv, TypeOK
      <3>2. reader' = [reader EXCEPT ![r] = st]
        BY <1>1 DEF Become
      <3> QED
        BY <3>1, <3>2 DEF IInv, TypeOK, Stages
    <2> QED
      BY <1>1, <2>1, <2>2, <2>3 DEF IInv, TypeOK, Stages
  <1>7. DbAhead' /\ FloorsAnnounced' /\ OwnFloor' /\ UnreadAtFirst'
    BY <1>1, <1>4, <1>5 DEF IInv, DbAhead, FloorsAnnounced, OwnFloor, UnreadAtFirst, Unread
  <1>8. HeldCovers'
    <2> SUFFICES ASSUME NEW s \in Readers, reader'[s].token # NoToken
                 PROVE  /\ \A e \in cache' : e.token = reader'[s].token => Covers(e.parts, reader'[s].floor)
                        /\ \A u \in Readers : reader'[u].token = reader'[s].token =>
                              Covers(reader'[u].parts, reader'[s].floor)
      BY DEF HeldCovers, Covers
    <2>1. s # r /\ reader'[s] = reader[s]
      BY <1>4, <1>5
    <2>2. /\ \A e \in cache : e.token = reader[s].token => Covers(e.parts, reader[s].floor)
          /\ \A u \in Readers : reader[u].token = reader[s].token => Covers(reader[u].parts, reader[s].floor)
      BY <2>1 DEF IInv, HeldCovers
    <2> QED
      BY <1>2, <1>3, <1>4, <1>5, <2>1, <2>2
  <1>9. EpochCovers'
    <2> SUFFICES ASSUME epoch # NoToken
                 PROVE  /\ \A e \in cache' : e.token = epoch => Covers(e.parts, announced)
                        /\ \A u \in Readers : reader'[u].token = epoch => Covers(reader'[u].parts, announced)
      BY <1>1 DEF EpochCovers, Covers
    <2>1. /\ \A e \in cache : e.token = epoch => Covers(e.parts, announced)
          /\ \A u \in Readers : reader[u].token = epoch => Covers(reader[u].parts, announced)
      BY DEF IInv, EpochCovers
    <2> QED
      BY <1>2, <1>3, <1>4, <1>5, <2>1
  <1>10. WholeResults'
    BY <1>1, <1>2, <1>3, <1>4, <1>5 DEF IInv, WholeResults, Whole, At
  <1> QED
    BY <1>6, <1>7, <1>8, <1>9, <1>10 DEF IInv

-----------------------------------------------------------------------------
(* Changes, and Redis.                                                     *)

LEMMA ChangeStep == ASSUME IInv, NEW w \in Writers, NEW p \in Prompts, Change(w, p) PROVE IInv'
PROOF
  <1>1. /\ db' = [db EXCEPT ![p] = @ + 1] /\ writes' = writes + 1
        /\ writer' = [writer EXCEPT ![w] = [at |-> "invalidate", prompt |-> p, version |-> db[p] + 1]]
        /\ UNCHANGED <<epoch, cache, reader, tokens, faults, announced>>
        /\ writes + faults < MaxEvents
    BY DEF Change
  <1>2. /\ db \in [Prompts -> Nat] /\ announced \in [Prompts -> Nat]
        /\ writer \in [Writers -> [at : {"idle", "invalidate"}, prompt : Prompts, version : Nat]]
        /\ writes \in Nat /\ faults \in Nat
    BY DEF IInv, TypeOK
  <1>3. \A q \in Prompts : db'[q] \in Nat /\ db'[q] >= db[q]
    BY <1>1, <1>2
  <1>4. TypeOK'
    <2>1. db' \in [Prompts -> Nat] /\ db[p] + 1 \in Nat
      BY <1>1, <1>2
    <2>2. writer' \in [Writers -> [at : {"idle", "invalidate"}, prompt : Prompts, version : Nat]]
      BY <1>1, <1>2, <2>1
    <2>3. writes' \in Nat /\ writes' + faults <= MaxEvents
      BY <1>1, <1>2, BoundAssumption
    <2> QED
      BY <1>1, <2>1, <2>2, <2>3 DEF IInv, TypeOK
  <1>5. DbAhead'
    <2>1. \A q \in Prompts : db'[q] >= announced[q]
      BY <1>2, <1>3 DEF IInv, DbAhead
    <2>2. ASSUME NEW x \in Writers PROVE writer'[x].version <= db'[writer'[x].prompt]
      <3>1. CASE x = w
        BY <1>1, <1>2, <3>1
      <3>2. CASE x # w
        BY <1>1, <1>2, <1>3, <3>2 DEF IInv, DbAhead
      <3> QED
        BY <3>1, <3>2
    <2> QED
      BY <1>1, <2>1, <2>2 DEF DbAhead
  <1>6. FloorsAnnounced' /\ OwnFloor' /\ UnreadAtFirst' /\ HeldCovers' /\ EpochCovers' /\ WholeResults'
    BY <1>1 DEF IInv, FloorsAnnounced, OwnFloor, UnreadAtFirst, Covers, Unread, HeldCovers, EpochCovers,
                WholeResults, Whole, At
  <1> QED
    BY <1>4, <1>5, <1>6 DEF IInv

LEMMA NoChangeType ==
    NoChange \in [at : {"idle", "invalidate"}, prompt : Prompts, version : Nat] /\ NoChange.version = 0
PROOF
  <1>1. (CHOOSE p \in Prompts : TRUE) \in Prompts
    BY PromptsAssumption
  <1> QED
    BY <1>1 DEF NoChange

(* The end of an invalidation, or of one that failed: the writer is idle,  *)
(* nothing that was announced is forgotten, and what is announced under an *)
(* epoch that was in use before was announced before.                      *)
LEMMA WriterDone ==
    ASSUME IInv, NEW w \in Writers, writer' = [writer EXCEPT ![w] = NoChange],
           UNCHANGED <<db, cache, reader, writes>>,
           faults' \in Nat, writes + faults' <= MaxEvents,
           announced' \in [Prompts -> Nat],
           \A p \in Prompts : announced[p] <= announced'[p] /\ announced'[p] <= db[p],
           Rotate \/ UNCHANGED <<epoch, tokens, announced>>
    PROVE  IInv'
PROOF
  <1>1. /\ TypeOK /\ tokens \in Nat /\ epoch \in 0..tokens
        /\ db \in [Prompts -> Nat] /\ announced \in [Prompts -> Nat]
        /\ writer \in [Writers -> [at : {"idle", "invalidate"}, prompt : Prompts, version : Nat]]
    BY DEF IInv, TypeOK
  <1>2. tokens' \in Nat /\ tokens <= tokens' /\ epoch' \in 0..tokens'
    BY <1>1 DEF Rotate
  <1>3. TypeOK'
    <2>1. writer' \in [Writers -> [at : {"idle", "invalidate"}, prompt : Prompts, version : Nat]]
      BY <1>1, NoChangeType
    <2>2. cache \subseteq [token : 1..tokens', prompt : Prompts, parts : [Prompts -> Nat]]
      BY <1>1, <1>2 DEF TypeOK
    <2>3. reader \in [Readers -> [at : Stages, prompt : Prompts, token : 0..tokens',
                                  parts : [Prompts -> Nat], floor : [Prompts -> Nat]]]
      <3>1. \A r \in Readers : reader[r] \in [at : Stages, prompt : Prompts, token : 0..tokens',
                                              parts : [Prompts -> Nat], floor : [Prompts -> Nat]]
        BY <1>1, <1>2, ReaderTypes DEF ReaderStates
      <3> QED
        BY <3>1 DEF IInv, TypeOK
    <2> QED
      BY <1>1, <1>2, <2>1, <2>2, <2>3 DEF TypeOK, Stages
  <1>4. DbAhead'
    <2>1. ASSUME NEW x \in Writers PROVE writer'[x].version <= db[writer'[x].prompt]
      <3>1. CASE x = w
        BY <1>1, <3>1, NoChangeType
      <3>2. CASE x # w
        BY <1>1, <3>2 DEF IInv, DbAhead
      <3> QED
        BY <3>1, <3>2
    <2> QED
      BY <1>1, <2>1 DEF DbAhead
  <1>5. FloorsAnnounced'
    <2>1. ASSUME NEW r \in Readers, NEW q \in Prompts PROVE reader[r].floor[q] <= announced'[q]
      <3>1. reader[r].floor[q] \in Nat /\ reader[r].floor[q] <= announced[q]
        BY InHand DEF ReaderStates
      <3> QED
        BY <1>1, <3>1
    <2> QED
      BY <2>1 DEF FloorsAnnounced
  <1>6. OwnFloor' /\ UnreadAtFirst' /\ HeldCovers' /\ WholeResults'
    BY DEF IInv, OwnFloor, UnreadAtFirst, HeldCovers, WholeResults, Whole, Covers, Unread, At
  <1>7. EpochCovers'
    <2>1. CASE Rotate
      BY <2>1, FreshToken DEF Rotate, EpochCovers
    <2>2. CASE UNCHANGED <<epoch, tokens, announced>>
      BY <2>2 DEF IInv, EpochCovers, Covers
    <2> QED
      BY <2>1, <2>2
  <1> QED
    BY <1>3, <1>4, <1>5, <1>6, <1>7 DEF IInv

LEMMA InvalidateStep == ASSUME IInv, NEW w \in Writers, Invalidate(w) PROVE IInv'
PROOF
  <1> DEFINE p == writer[w].prompt
             v == writer[w].version
  <1>1. /\ Rotate /\ UNCHANGED <<db, cache, reader, writes, faults>>
        /\ announced' = [announced EXCEPT ![p] = IF @ < v THEN v ELSE @]
        /\ writer' = [writer EXCEPT ![w] = NoChange]
    BY DEF Invalidate
  <1>2. /\ p \in Prompts /\ v \in Nat /\ v <= db[p]
        /\ db \in [Prompts -> Nat] /\ announced \in [Prompts -> Nat]
        /\ \A q \in Prompts : announced[q] <= db[q]
        /\ faults \in Nat /\ writes + faults <= MaxEvents
    BY DEF IInv, TypeOK, DbAhead
  <1> HIDE DEF p, v
  <1>3. announced' \in [Prompts -> Nat]
    BY <1>1, <1>2
  <1>4. \A q \in Prompts : announced[q] <= announced'[q] /\ announced'[q] <= db[q]
    BY <1>1, <1>2
  <1> QED
    BY <1>1, <1>2, <1>3, <1>4, WriterDone

LEMMA InvalidateFailsStep == ASSUME IInv, NEW w \in Writers, InvalidateFails(w) PROVE IInv'
PROOF
  <1>1. /\ db \in [Prompts -> Nat] /\ announced \in [Prompts -> Nat]
        /\ \A q \in Prompts : announced[q] <= announced[q] /\ announced[q] <= db[q]
        /\ faults \in Nat /\ writes \in Nat
    BY DEF IInv, TypeOK, DbAhead
  <1>2. faults' \in Nat /\ writes + faults' <= MaxEvents
    BY <1>1, BoundAssumption DEF InvalidateFails, Fault
  <1> QED
    BY <1>1, <1>2, WriterDone DEF InvalidateFails

LEMMA ExpiresStep == ASSUME IInv, NEW e \in cache, Expires(e) PROVE IInv'
PROOF
  <1>1. /\ cache' \subseteq cache
        /\ UNCHANGED <<db, epoch, reader, writer, tokens, writes, faults, announced>>
    BY DEF Expires
  <1>2. TypeOK'
    BY <1>1 DEF IInv, TypeOK
  <1>3. DbAhead' /\ FloorsAnnounced' /\ OwnFloor' /\ UnreadAtFirst'
    BY <1>1 DEF IInv, DbAhead, FloorsAnnounced, OwnFloor, UnreadAtFirst, Covers, Unread
  <1>4. HeldCovers' /\ EpochCovers' /\ WholeResults'
    BY <1>1 DEF IInv, HeldCovers, EpochCovers, WholeResults, Whole, Covers, At
  <1> QED
    BY <1>2, <1>3, <1>4 DEF IInv

LEMMA EpochVanishesStep == ASSUME IInv, EpochVanishes PROVE IInv'
PROOF
  <1>1. /\ epoch' = NoToken /\ faults' = faults + 1 /\ writes + faults < MaxEvents
        /\ UNCHANGED <<db, cache, reader, writer, tokens, writes, announced>>
    BY DEF EpochVanishes, Fault
  <1>2. TypeOK'
    <2>1. epoch' \in 0..tokens
      BY <1>1 DEF NoToken, IInv, TypeOK
    <2>2. faults' \in Nat /\ writes + faults' <= MaxEvents
      BY <1>1, BoundAssumption DEF IInv, TypeOK
    <2> QED
      BY <1>1, <2>1, <2>2 DEF IInv, TypeOK
  <1>3. DbAhead' /\ FloorsAnnounced' /\ OwnFloor' /\ UnreadAtFirst'
    BY <1>1 DEF IInv, DbAhead, FloorsAnnounced, OwnFloor, UnreadAtFirst, Covers, Unread
  <1>4. HeldCovers' /\ EpochCovers' /\ WholeResults'
    BY <1>1 DEF IInv, HeldCovers, EpochCovers, WholeResults, Whole, Covers, At
  <1> QED
    BY <1>2, <1>3, <1>4 DEF IInv

-----------------------------------------------------------------------------
LEMMA InitHolds == Init => IInv
PROOF
  <1> SUFFICES ASSUME Init PROVE IInv
    OBVIOUS
  <1>1. \A r \in Readers : reader[r] = Idle
    BY DEF Init
  <1>2. TypeOK
    <2>1. /\ announced \in [Prompts -> Nat] /\ db \in [Prompts -> Nat]
          /\ tokens = 0 /\ epoch = 0 /\ writes = 0 /\ faults = 0 /\ cache = {}
      BY DEF Init, Unread, NoToken
    <2>2. writer \in [Writers -> [at : {"idle", "invalidate"}, prompt : Prompts, version : Nat]]
      BY NoChangeType DEF Init
    <2>3. Idle \in [at : Stages, prompt : Prompts, token : 0..tokens,
                    parts : [Prompts -> Nat], floor : [Prompts -> Nat]]
      <3>1. Idle.token = 0 /\ 0 \in 0..tokens
        BY <2>1 DEF Idle, NoToken
      <3> QED
        BY <3>1, IdleType DEF ReaderStates
    <2>4. reader \in [Readers -> [at : Stages, prompt : Prompts, token : 0..tokens,
                                  parts : [Prompts -> Nat], floor : [Prompts -> Nat]]]
      BY <2>3 DEF Init
    <2>5. epoch \in 0..tokens /\ writes + faults <= MaxEvents
      BY <2>1, BoundAssumption
    <2> QED
      BY <2>1, <2>2, <2>4, <2>5 DEF TypeOK, Stages
  <1>3. DbAhead
    BY <1>2, NoChangeType DEF Init, DbAhead, Unread, TypeOK
  <1>4. FloorsAnnounced /\ OwnFloor /\ UnreadAtFirst
    <2>1. FloorsAnnounced
      BY <1>1, IdleType DEF Init, FloorsAnnounced, Unread
    <2> QED
      BY <1>1, <2>1, IdleType, UnreadCovers DEF OwnFloor, UnreadAtFirst
  <1>5. HeldCovers
    <2>1. Idle.token = NoToken
      BY DEF Idle
    <2> QED
      BY <1>1, <2>1 DEF HeldCovers
  <1>6. EpochCovers /\ WholeResults
    BY <1>1 DEF EpochCovers, WholeResults, Init, At, Idle
  <1> QED
    BY <1>2, <1>3, <1>4, <1>5, <1>6 DEF IInv

LEMMA StepHolds == IInv /\ [Next]_vars => IInv'
PROOF
  <1> SUFFICES ASSUME IInv, [Next]_vars PROVE IInv'
    OBVIOUS
  <1>1. ASSUME NEW r \in Readers, Reader(r) PROVE IInv'
    <2>1. CASE Create(r)
      BY <2>1, CreateStep
    <2>2. CASE Again(r)
      BY <2>2, AgainStep
    <2>3. CASE NoKey(r)
      BY <2>3, NoKeyStep
    <2>4. CASE Hit(r)
      BY <2>4, HitStep
    <2>5. CASE Miss(r) \/ Read(r)
      BY <2>5, MissStep, ReadStep
    <2>6. CASE Fill(r) \/ NotFilled(r) \/ Return(r)
      BY <2>6, FillStep, NotFilledStep, ReturnStep
    <2> QED
      BY <1>1, <2>1, <2>2, <2>3, <2>4, <2>5, <2>6 DEF Reader
  <1>2. ASSUME NEW r \in Readers, NEW p \in Asked, Ask(r, p) PROVE IInv'
    BY <1>2, AskStep
  <1>3. ASSUME NEW w \in Writers, Writer(w) PROVE IInv'
    BY <1>3, InvalidateStep, InvalidateFailsStep DEF Writer
  <1>4. ASSUME NEW w \in Writers, NEW p \in Prompts, Change(w, p) PROVE IInv'
    BY <1>4, ChangeStep
  <1>5. ASSUME NEW e \in cache, Expires(e) PROVE IInv'
    BY <1>5, ExpiresStep
  <1>6. CASE EpochVanishes
    BY <1>6, EpochVanishesStep
  <1>7. CASE UNCHANGED vars
    BY <1>7 DEF vars, IInv, TypeOK, DbAhead, FloorsAnnounced, OwnFloor, UnreadAtFirst, Covers, Unread,
                HeldCovers, EpochCovers, WholeResults, Whole, At
  <1> QED
    BY <1>1, <1>2, <1>3, <1>4, <1>5, <1>6, <1>7 DEF Next

(* Every part of the model keeps its range, for all prompts and what they use. *)
THEOREM Typing == Spec => []TypeOK
PROOF
  <1>1. IInv => TypeOK
    BY DEF IInv
  <1> QED
    BY <1>1, InitHolds, StepHolds, PTL DEF Spec

(* getPrompt and invalidateCache: with any number of readers and changes, and however prompts *)
(* depend on each other, a read that begins after an invalidation returned answers with       *)
(* nothing older than the change it announced.                                                *)
THEOREM FreshReadHolds == Spec => []FreshRead
PROOF
  <1>1. IInv => FreshRead
    <2> SUFFICES ASSUME IInv, NEW r \in Readers, At(r, "done"), NEW q \in Parts(reader[r].prompt)
                 PROVE  reader[r].parts[q] >= reader[r].floor[q]
      BY DEF FreshRead
    <2>1. reader[r].prompt \in Prompts
      BY InHand DEF ReaderStates
    <2>2. q \in Prompts
      BY <2>1, UsesAssumption DEF Parts
    <2> QED
      BY <2>2 DEF IInv, OwnFloor, Covers, WholeResults, Whole
  <1> QED
    BY <1>1, InitHolds, StepHolds, PTL DEF Spec
=============================================================================
