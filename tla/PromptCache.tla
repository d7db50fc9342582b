---------------------------- MODULE PromptCache ----------------------------
(***************************************************************************)
(* The cache of resolved prompts in Redis (packages/shared/src/server/     *)
(* services/PromptService/index.ts).  The keys of a project contain an     *)
(* epoch; a change of a prompt rotates it after its transaction, so that   *)
(* what older reads still write lands where nobody looks.  A prompt is     *)
(* resolved with the prompts it depends on, one query after the other.     *)
(***************************************************************************)
EXTENDS Naturals

CONSTANTS
    Prompts,      \* prompt names of one project
    Uses,         \* the prompts that the text of each depends on
    Asked,        \* those that are asked for
    Readers,      \* requests for a prompt
    Writers,      \* requests that change one
    MaxEvents     \* bound on changes, invalidations that fail and epochs that vanish together

ASSUME PromptsAssumption == Prompts # {}
ASSUME UsesAssumption == Uses \in [Prompts -> SUBSET Prompts] /\ Asked \subseteq Prompts
ASSUME BoundAssumption == MaxEvents \in Nat

VARIABLES
    db,         \* the version of each prompt
    epoch,      \* the token of the project's keys, NoToken when there is none
    cache,      \* entries: token and prompt of the key, and the versions it was made of
    reader,
    writer,     \* the change of each that it has to invalidate
    tokens,     \* tokens in use so far; a token is its number
    writes, faults,
    announced   \* history: the newest version of each prompt whose invalidation returned

vars == <<db, epoch, cache, reader, writer, tokens, writes, faults, announced>>

NoToken == 0
Unread == [p \in Prompts |-> 0]
Parts(p) == {p} \cup Uses[p]

Idle == [at |-> "idle", prompt |-> CHOOSE p \in Prompts : TRUE, token |-> NoToken,
         parts |-> Unread, floor |-> Unread]
NoChange == [at |-> "idle", prompt |-> CHOOSE p \in Prompts : TRUE, version |-> 0]

Init ==
    /\ db = [p \in Prompts |-> 1] /\ epoch = NoToken /\ cache = {}
    /\ reader = [r \in Readers |-> Idle] /\ writer = [w \in Writers |-> NoChange]
    /\ tokens = 0 /\ writes = 0 /\ faults = 0
    /\ announced = Unread

At(r, place) == reader[r].at = place
Become(r, state) == reader' = [reader EXCEPT ![r] = state]
Fault == writes + faults < MaxEvents /\ faults' = faults + 1
Rotate == epoch' = tokens + 1 /\ tokens' = tokens + 1

-----------------------------------------------------------------------------
(* getPrompt.                                                              *)

(* The epoch is read; a project may have none.                             *)
Ask(r, p) ==
    /\ At(r, "idle")
    /\ Become(r, [Idle EXCEPT !.at = IF epoch = NoToken THEN "create" ELSE "look",
                              !.prompt = p, !.token = epoch, !.floor = announced])
    /\ UNCHANGED <<db, epoch, cache, writer, tokens, writes, faults, announced>>

(* SET NX: of several that find no epoch, one wins.                        *)
Create(r) ==
    /\ At(r, "create")
    /\ IF epoch = NoToken
       THEN /\ Rotate
            /\ Become(r, [reader[r] EXCEPT !.at = "again", !.token = tokens + 1])
       ELSE /\ Become(r, [reader[r] EXCEPT !.at = "again"])
            /\ UNCHANGED <<epoch, tokens>>
    /\ UNCHANGED <<db, cache, writer, writes, faults, announced>>

(* The winner is read, and if it is gone each goes on with its own token.  *)
Again(r) ==
    /\ At(r, "again")
    /\ LET own == IF reader[r].token = NoToken THEN tokens + 1 ELSE reader[r].token
           token == IF epoch = NoToken THEN own ELSE epoch
       IN  /\ Become(r, [reader[r] EXCEPT !.at = "look", !.token = token])
           /\ tokens' = IF token > tokens THEN token ELSE tokens
    /\ UNCHANGED <<db, epoch, cache, writer, writes, faults, announced>>

(* A call for the epoch throws, the first one included: there is no key.   *)
NoKey(r) ==
    /\ reader[r].at \in {"create", "again", "look"}
    /\ Become(r, [reader[r] EXCEPT !.at = "read", !.token = NoToken])
    /\ UNCHANGED <<db, epoch, cache, writer, tokens, writes, faults, announced>>

(* Mutant: what was found is stored again, as if it had been read.         *)
HitRefreshing(r) ==
    \E e \in cache :
        /\ At(r, "look") /\ e.token = reader[r].token /\ e.prompt = reader[r].prompt
        /\ Become(r, [reader[r] EXCEPT !.at = "read", !.parts = e.parts])
        /\ UNCHANGED <<db, epoch, cache, writer, tokens, writes, faults, announced>>

Hit(r) ==
    \E e \in cache :
        /\ At(r, "look") /\ e.token = reader[r].token /\ e.prompt = reader[r].prompt
        /\ Become(r, [reader[r] EXCEPT !.at = "done", !.token = NoToken, !.parts = e.parts])
        /\ UNCHANGED <<db, epoch, cache, writer, tokens, writes, faults, announced>>

(* Nothing is found, or the call throws.                                   *)
Miss(r) ==
    /\ At(r, "look")
    /\ Become(r, [reader[r] EXCEPT !.at = "read"])
    /\ UNCHANGED <<db, epoch, cache, writer, tokens, writes, faults, announced>>

(* One query of findPrompt and buildAndResolvePromptGraph: the prompt, then what it uses. *)
Read(r) ==
    /\ At(r, "read")
    /\ \E q \in Parts(reader[r].prompt) :
          /\ reader[r].parts[q] = 0
          /\ q = reader[r].prompt \/ reader[r].parts[reader[r].prompt] # 0
          /\ Become(r, [reader[r] EXCEPT !.parts[q] = db[q]])
    /\ UNCHANGED <<db, epoch, cache, writer, tokens, writes, faults, announced>>

Resolved(r) == At(r, "read") /\ \A q \in Parts(reader[r].prompt) : reader[r].parts[q] # 0

(* Mutant: the key is made for the result, and not before the queries.     *)
FillLatest(r) ==
    /\ Resolved(r) /\ reader[r].token # NoToken
    /\ LET same == {e \in cache : e.token = epoch /\ e.prompt = reader[r].prompt}
       IN  cache' = (cache \ same) \cup
               {[token |-> epoch, prompt |-> reader[r].prompt, parts |-> reader[r].parts]}
    /\ Become(r, [reader[r] EXCEPT !.at = "done", !.token = NoToken])
    /\ UNCHANGED <<db, epoch, writer, tokens, writes, faults, announced>>

(* cachePrompt.                                                            *)
Fill(r) ==
    /\ Resolved(r) /\ reader[r].token # NoToken
    /\ LET same == {e \in cache : e.token = reader[r].token /\ e.prompt = reader[r].prompt}
       IN  cache' = (cache \ same) \cup
               {[token |-> reader[r].token, prompt |-> reader[r].prompt, parts |-> reader[r].parts]}
    /\ Become(r, [reader[r] EXCEPT !.at = "done", !.token = NoToken])
    /\ UNCHANGED <<db, epoch, writer, tokens, writes, faults, announced>>

(* There is no key, no such prompt, or the call throws.                    *)
NotFilled(r) ==
    /\ Resolved(r)
    /\ Become(r, [reader[r] EXCEPT !.at = "done", !.token = NoToken])
    /\ UNCHANGED <<db, epoch, cache, writer, tokens, writes, faults, announced>>

Return(r) ==
    /\ At(r, "done")
    /\ Become(r, Idle)
    /\ UNCHANGED <<db, epoch, cache, writer, tokens, writes, faults, announced>>

-----------------------------------------------------------------------------
(* Changes of prompts, their labels and their deletion.                    *)

Change(w, p) ==
    /\ writer[w].at = "idle" /\ writes + faults < MaxEvents
    /\ db' = [db EXCEPT ![p] = @ + 1] /\ writes' = writes + 1
    /\ writer' = [writer EXCEPT ![w] = [at |-> "invalidate", prompt |-> p, version |-> db[p] + 1]]
    /\ UNCHANGED <<epoch, cache, reader, tokens, faults, announced>>

(* A new epoch is set, once: that the client sends the SET again after it  *)
(* reconnected, behind another writer's, is left out.                      *)
Invalidate(w) ==
    LET change == writer[w]
    IN  /\ change.at = "invalidate"
        /\ Rotate
        /\ announced' = [announced EXCEPT ![change.prompt] = IF @ < change.version THEN change.version ELSE @]
        /\ writer' = [writer EXCEPT ![w] = NoChange]
        /\ UNCHANGED <<db, cache, reader, writes, faults>>

(* The call throws, which is logged or reported, and not repeated.         *)
InvalidateFails(w) ==
    /\ Fault
    /\ writer[w].at = "invalidate"
    /\ Rotate \/ UNCHANGED <<epoch, tokens>>
    /\ writer' = [writer EXCEPT ![w] = NoChange]
    /\ UNCHANGED <<db, cache, reader, writes, announced>>

-----------------------------------------------------------------------------
(* Redis.                                                                  *)

Expires(e) ==
    /\ e \in cache
    /\ cache' = cache \ {e}
    /\ UNCHANGED <<db, epoch, reader, writer, tokens, writes, faults, announced>>

(* An epoch lives for a week, if it is not evicted.                        *)
EpochVanishes ==
    /\ Fault
    /\ epoch # NoToken
    /\ epoch' = NoToken
    /\ UNCHANGED <<db, cache, reader, writer, tokens, writes, announced>>

-----------------------------------------------------------------------------
Reader(r) ==
    \/ Create(r) \/ Again(r) \/ NoKey(r) \/ Hit(r) \/ Miss(r) \/ Read(r)
    \/ Fill(r) \/ NotFilled(r) \/ Return(r)

Writer(w) == Invalidate(w) \/ InvalidateFails(w)

Next ==
    \/ \E r \in Readers : Reader(r) \/ \E p \in Asked : Ask(r, p)
    \/ \E w \in Writers : Writer(w) \/ \E p \in Prompts : Change(w, p)
    \/ \E e \in cache : Expires(e)
    \/ EpochVanishes

Here(e, p) == e.token = epoch /\ e.prompt = p

(* Calls return, and entries have a TTL.                                   *)
Fairness ==
    /\ \A r \in Readers : WF_vars(Reader(r))
    /\ \A w \in Writers : WF_vars(Writer(w))
    /\ \A p \in Prompts : WF_vars(\E e \in cache : Here(e, p) /\ Expires(e))

Spec == Init /\ [][Next]_vars
FairSpec == Spec /\ Fairness

-----------------------------------------------------------------------------
(* Properties.                                                             *)

(* Every part keeps its range, and a key has one entry.                    *)
TypeOK ==
    /\ db \in [Prompts -> Nat] /\ announced \in [Prompts -> Nat]
    /\ tokens \in Nat /\ epoch \in 0..tokens
    /\ cache \subseteq [token : 1..tokens, prompt : Prompts, parts : [Prompts -> Nat]]
    /\ \A e, f \in cache : e.token = f.token /\ e.prompt = f.prompt => e = f
    /\ reader \in [Readers -> [at : {"idle", "create", "again", "look", "read", "done"}, prompt : Prompts,
                               token : 0..tokens, parts : [Prompts -> Nat], floor : [Prompts -> Nat]]]
    /\ writer \in [Writers -> [at : {"idle", "invalidate"}, prompt : Prompts, version : Nat]]
    /\ writes \in Nat /\ faults \in Nat /\ writes + faults <= MaxEvents

(* A read that starts after the invalidation of a change returned answers with nothing older *)
(* than that change, in the prompt or in any prompt it uses: what a read in flight stores    *)
(* after the change is never found.                                                          *)
FreshRead ==
    \A r \in Readers : At(r, "done") =>
        \A q \in Parts(reader[r].prompt) : reader[r].parts[q] >= reader[r].floor[q]

(* Even after an invalidation that failed, what is found in the cache becomes what is in the *)
(* database, and stays so.                                                                   *)
CacheCatchesUp ==
    <>[](\A p \in Prompts : \A e \in cache :
            Here(e, p) => \A q \in Parts(p) : e.parts[q] = db[q])
=============================================================================
