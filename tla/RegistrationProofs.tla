------------------------- MODULE RegistrationProofs -------------------------
(***************************************************************************)
(* Proofs about Registration for any number of requests, invitations and   *)
(* deletions of the account.                                               *)
(***************************************************************************)
EXTENDS Registration, FiniteSetTheorems, TLAPS

Registering == {"select", "rows", "store"}
Completing == {"insert", "commit"}

\* A Register that has not committed has a token of its own, which is not stored.
RegisterInv ==
    \A p \in Procs : pc[p] \in Registering =>
        /\ target[p] \in 1..issued
        /\ toks[target[p]] = "none"
        /\ \A q \in Procs : pc[q] \in Registering /\ target[q] = target[p] => q = p

\* Only issued tokens are stored, only stored ones are mailed.
IssuedInv ==
    /\ \A t \in Tokens : toks[t] # "none" => t <= issued
    /\ \A t \in mailed : toks[t] # "none"
    /\ \A p \in Procs : pc[p] \in {"produce", "token"} => target[p] \in Tokens /\ toks[target[p]] # "none"

\* The row lock keeps the token of a completion as it was read.
HeldInv ==
    \A p \in Procs : pc[p] \in Completing =>
        /\ target[p] \in Tokens
        /\ tlock[target[p]] = p
        /\ toks[target[p]] = "live"

\* A token that created an account is used.
CreatedInv ==
    \A t \in Tokens : created[t] = 0 \/ (created[t] = 1 /\ toks[t] = "used")

\* The tokens a Register found are dead, locked by it, or still to be locked.
ChosenInv ==
    \A p \in Procs : pc[p] \in {"rows", "store"} =>
        /\ \A u \in older[target[p]] : toks[u] = "live" => u \in todo[p] \/ tlock[u] = p
        /\ pc[p] = "store" => todo[p] = {}

OlderInv ==
    /\ \A t \in Tokens : \A u \in older[t] : toks[u] # "none"
    /\ SupersededIsDead

IInv == TypeOK /\ RegisterInv /\ IssuedInv /\ HeldInv /\ CreatedInv /\ ChosenInv /\ OlderInv

USE RegistrationAssumption DEF RegistrationAssumption, Tokens

Rest == RegisterInv /\ IssuedInv /\ HeldInv /\ CreatedInv /\ ChosenInv /\ OlderInv

\* The invariant holds at first.
LEMMA InitIInv == Init => IInv
<1> SUFFICES ASSUME Init PROVE IInv OBVIOUS
<1>1. TypeOK
  <2>1. toks \in [Tokens -> {"none", "live", "used", "revoked"}]
    BY DEF Init
  <2>7. expired \subseteq Tokens /\ account \in BOOLEAN BY Zenon DEF Init
  <2>2. tlock \in [Tokens -> Procs \cup {NoProc}] /\ insert \in Procs \cup {NoProc} BY DEF Init
  <2>3. pc \in [Procs -> {"idle", "produce"} \cup InTx] BY DEF Init
  <2>4. target \in [Procs -> Tokens \cup {0}] /\ todo \in [Procs -> SUBSET Tokens] BY DEF Init
  <2>5. issued \in 0..MaxTokens /\ requests \in 0..MaxRequests /\ deletes \in 0..MaxDeletes
    BY DEF Init
  <2>8. mailed \subseteq Tokens BY DEF Init
  <2>6. created \in [Tokens -> Nat] /\ older \in [Tokens -> SUBSET Tokens] BY DEF Init
  <2>9. by \in [Tokens -> Procs \cup {NoProc}] BY DEF Init
  <2> QED BY <2>1, <2>2, <2>3, <2>4, <2>5, <2>6, <2>7, <2>8, <2>9, Zenon DEF TypeOK
<1>2. RegisterInv /\ HeldInv /\ ChosenInv
  BY DEF Init, RegisterInv, HeldInv, ChosenInv, Registering, Completing
<1>3. IssuedInv /\ CreatedInv
  <2>1. \A t \in Tokens : toks[t] = "none" /\ created[t] = 0 BY DEF Init
  <2>2. mailed = {} /\ \A p \in Procs : pc[p] = "idle" BY DEF Init
  <2> QED BY <2>1, <2>2, Zenon DEF IssuedInv, CreatedInv
<1>4. OlderInv BY DEF Init, OlderInv, SupersededIsDead
<1> QED BY <1>1, <1>2, <1>3, <1>4 DEF IInv

\* What a rolled back transaction leaves: everything but its own locks.
LEMMA RollbackStep ==
  ASSUME IInv, NEW p \in Procs, Rollback(p)
  PROVE  TypeOK' /\ Rest'
<1>f. UNCHANGED <<toks, expired, account, issued, requests, deletes, mailed, created, older, by>>
  BY DEF Rollback, dbVars, countVars, histVars
<1>e. /\ pc' = [pc EXCEPT ![p] = "idle"]
      /\ target' = [target EXCEPT ![p] = 0]
      /\ todo' = [todo EXCEPT ![p] = {}]
      /\ tlock' = [t \in Tokens |-> IF tlock[t] = p THEN NoProc ELSE tlock[t]]
      /\ insert' = IF insert = p THEN NoProc ELSE insert
  BY DEF Rollback, Return, Unlock
<1>1. TypeOK' BY <1>f, <1>e DEF IInv, TypeOK, InTx
<1>2. RegisterInv' BY <1>f, <1>e DEF IInv, TypeOK, RegisterInv, Registering
<1>3. IssuedInv' BY <1>f, <1>e DEF IInv, TypeOK, IssuedInv
<1>4. HeldInv' BY <1>f, <1>e DEF IInv, TypeOK, HeldInv, Completing
<1>5. CreatedInv' /\ OlderInv' BY <1>f DEF IInv, CreatedInv, OlderInv, SupersededIsDead
<1>6. ChosenInv'
  <2> SUFFICES ASSUME NEW q \in Procs, pc'[q] \in {"rows", "store"}
               PROVE  /\ \A u \in older[target'[q]] : toks[u] = "live" => u \in todo'[q] \/ tlock'[u] = q
                      /\ pc'[q] = "store" => todo'[q] = {}
    BY <1>f DEF ChosenInv
  <2>1. q # p /\ pc'[q] = pc[q] /\ target'[q] = target[q] /\ todo'[q] = todo[q]
    BY <1>e DEF IInv, TypeOK
  <2>2. target[q] \in Tokens BY <2>1 DEF IInv, RegisterInv, Registering, TypeOK
  <2>3. \A u \in Tokens : tlock[u] = q => tlock'[u] = q BY <1>e, <2>1
  <2>4. older[target[q]] \subseteq Tokens BY <2>2 DEF IInv, TypeOK
  <2> QED BY <2>1, <2>3, <2>4 DEF IInv, ChosenInv
<1> QED BY <1>1, <1>2, <1>3, <1>4, <1>5, <1>6 DEF Rest

\* Register draws a new token and finds no account.
LEMMA LookupStep ==
  ASSUME IInv, NEW p \in Procs, RegisterLookup(p)
  PROVE  TypeOK' /\ Rest'
<1>f. UNCHANGED <<todo, toks, expired, account, tlock, insert, requests, deletes, mailed, created, older>>
  BY DEF RegisterLookup, dbVars, lockVars
<1>e. /\ issued' = issued + 1 /\ issued + 1 \in Tokens
      /\ pc' = [pc EXCEPT ![p] = "select"]
      /\ target' = [target EXCEPT ![p] = issued + 1]
      /\ by' = [by EXCEPT ![issued + 1] = p]
  BY DEF RegisterLookup
<1>1. TypeOK' BY <1>f, <1>e DEF IInv, TypeOK, InTx
<1>2. RegisterInv'
  <2>1. toks[issued + 1] = "none" BY <1>e DEF IInv, TypeOK, IssuedInv
  <2>2. \A q \in Procs : pc[q] \in Registering => target[q] # issued + 1
    BY DEF IInv, TypeOK, RegisterInv
  <2> QED BY <1>f, <1>e, <2>1, <2>2 DEF IInv, TypeOK, RegisterInv, Registering
<1>3. IssuedInv' BY <1>f, <1>e DEF IInv, TypeOK, IssuedInv
<1>4. HeldInv' BY <1>f, <1>e DEF IInv, TypeOK, HeldInv, Completing
<1>5. CreatedInv' /\ OlderInv' BY <1>f DEF IInv, CreatedInv, OlderInv, SupersededIsDead
<1>6. ChosenInv' BY <1>f, <1>e DEF IInv, TypeOK, ChosenInv
<1> QED BY <1>1, <1>2, <1>3, <1>4, <1>5, <1>6 DEF Rest

\* RevokeRegistrationTokens chooses the rows to revoke.
LEMMA SelectStep ==
  ASSUME IInv, NEW p \in Procs, RegisterSelect(p)
  PROVE  TypeOK' /\ Rest'
<1> DEFINE live == {t \in Tokens : toks[t] = "live"}
<1>f. UNCHANGED <<target, toks, expired, account, tlock, insert, issued, requests, deletes, mailed, created, by>>
  BY DEF RegisterSelect, dbVars, lockVars, countVars
<1>e. /\ pc[p] = "select"
      /\ todo' = [todo EXCEPT ![p] = live]
      /\ older' = [older EXCEPT ![target[p]] = {t \in Tokens : toks[t] # "none"}]
      /\ pc' = [pc EXCEPT ![p] = IF live = {} THEN "store" ELSE "rows"]
  BY DEF RegisterSelect
<1>g. target[p] \in Tokens /\ toks[target[p]] = "none"
  BY <1>e DEF IInv, TypeOK, RegisterInv, Registering
<1>1. TypeOK' BY Zenon, <1>f, <1>e DEF IInv, TypeOK, InTx
<1>2. RegisterInv' BY <1>f, <1>e DEF IInv, TypeOK, RegisterInv, Registering
<1>3. IssuedInv' BY <1>f, <1>e DEF IInv, TypeOK, IssuedInv
<1>4. HeldInv' BY <1>f, <1>e DEF IInv, TypeOK, HeldInv, Completing
<1>5. CreatedInv' BY <1>f DEF IInv, CreatedInv
<1>6. OlderInv' BY Zenon, <1>f, <1>e, <1>g DEF IInv, TypeOK, OlderInv, SupersededIsDead
<1>7. ChosenInv'
  <2> SUFFICES ASSUME NEW q \in Procs, pc'[q] \in {"rows", "store"}
               PROVE  /\ \A u \in older'[target[q]] : toks[u] = "live" => u \in todo'[q] \/ tlock[u] = q
                      /\ pc'[q] = "store" => todo'[q] = {}
    BY <1>f DEF ChosenInv
  <2>1. CASE q = p BY <2>1, <1>e, <1>g DEF IInv, TypeOK
  <2>2. CASE q # p
    <3>1. target[q] # target[p]
      BY <2>2, <1>e DEF IInv, TypeOK, RegisterInv, Registering
    <3>2. target[q] \in Tokens BY <2>2, <1>e DEF IInv, TypeOK, RegisterInv, Registering
    <3>3. older'[target[q]] = older[target[q]] BY <3>1, <3>2, <1>e DEF IInv, TypeOK
    <3>4. pc'[q] = pc[q] /\ todo'[q] = todo[q] BY <2>2, <1>e DEF IInv, TypeOK
    <3> QED BY <3>3, <3>4 DEF IInv, ChosenInv
  <2> QED BY <2>1, <2>2
<1> QED BY <1>1, <1>2, <1>3, <1>4, <1>5, <1>6, <1>7 DEF Rest

\* It locks one of them.
LEMMA RowStep ==
  ASSUME IInv, NEW p \in Procs, NEW t \in Tokens, RegisterRow(p, t)
  PROVE  TypeOK' /\ Rest'
<1>f. UNCHANGED <<target, insert, toks, expired, account, issued, requests, deletes, mailed, created, older, by>>
  BY DEF RegisterRow, dbVars, countVars, histVars
<1>e. /\ pc[p] = "rows" /\ t \in todo[p]
      /\ tlock[t] \in {p, NoProc}
      /\ tlock' = [tlock EXCEPT ![t] = p]
      /\ todo' = [todo EXCEPT ![p] = todo[p] \ {t}]
      /\ pc' = [pc EXCEPT ![p] = IF todo[p] = {t} THEN "store" ELSE "rows"]
  BY DEF RegisterRow, Free
<1>1. TypeOK' BY Zenon, <1>f, <1>e DEF IInv, TypeOK, InTx
<1>2. RegisterInv' BY <1>f, <1>e DEF IInv, TypeOK, RegisterInv, Registering
<1>3. IssuedInv' BY <1>f, <1>e DEF IInv, TypeOK, IssuedInv
<1>4. HeldInv' BY <1>f, <1>e DEF IInv, TypeOK, HeldInv, Completing
<1>5. CreatedInv' /\ OlderInv' BY <1>f DEF IInv, CreatedInv, OlderInv, SupersededIsDead
<1>6. ChosenInv'
  <2> SUFFICES ASSUME NEW q \in Procs, pc'[q] \in {"rows", "store"}
               PROVE  /\ \A u \in older[target[q]] : toks[u] = "live" => u \in todo'[q] \/ tlock'[u] = q
                      /\ pc'[q] = "store" => todo'[q] = {}
    BY <1>f DEF ChosenInv
  <2>0. pc[q] \in {"rows", "store"} BY <1>e DEF IInv, TypeOK
  <2>t. target[q] \in Tokens /\ older[target[q]] \subseteq Tokens
    BY SMTT(60), <2>0 DEF IInv, TypeOK, RegisterInv, Registering
  <2>c. /\ \A u \in older[target[q]] : toks[u] = "live" => u \in todo[q] \/ tlock[u] = q
        /\ pc[q] = "store" => todo[q] = {}
    BY <2>0 DEF IInv, ChosenInv
  <2>1. CASE q = p
    <3>1. \A u \in Tokens : (u \in todo[p] => u \in todo'[p] \/ tlock'[u] = p)
                            /\ (tlock[u] = p => tlock'[u] = p)
      BY <1>e DEF IInv, TypeOK
    <3>2. pc'[p] = "store" => todo'[p] = {} BY <1>e DEF IInv, TypeOK
    <3> QED BY <2>1, <2>t, <2>c, <3>1, <3>2
  <2>2. CASE q # p
    <3>1. pc'[q] = pc[q] /\ todo'[q] = todo[q] BY <2>2, <1>e DEF IInv, TypeOK
    <3>2. \A u \in Tokens : tlock[u] = q => tlock'[u] = q BY <2>2, <1>e DEF IInv, TypeOK
    <3> QED BY <2>t, <2>c, <3>1, <3>2
  <2> QED BY <2>1, <2>2
<1> QED BY <1>1, <1>2, <1>3, <1>4, <1>5, <1>6 DEF Rest

\* The commit of an invitation: its own token becomes live, the ones it locked
\* are revoked, and no completion holds one of those.
LEMMA RegisterCommitStep ==
  ASSUME IInv, NEW p \in Procs, NEW told \in BOOLEAN, RegisterCommit(p, told)
  PROVE  TypeOK' /\ Rest'
<1> DEFINE n == target[p]
<1>f. UNCHANGED <<expired, account, issued, requests, deletes, mailed, created, older, by>>
  BY DEF RegisterCommit, countVars, histVars
<1>e. /\ pc[p] = "store"
      /\ toks' = [t \in Tokens |->
                    IF t = n THEN "live"
                    ELSE IF tlock[t] = p /\ toks[t] = "live" THEN "revoked" ELSE toks[t]]
      /\ tlock' = [t \in Tokens |-> IF tlock[t] = p THEN NoProc ELSE tlock[t]]
      /\ insert' = IF insert = p THEN NoProc ELSE insert
  BY DEF RegisterCommit, Unlock
<1>r. \/ pc' = [pc EXCEPT ![p] = "produce"] /\ UNCHANGED <<target, todo>>
      \/ /\ pc' = [pc EXCEPT ![p] = "idle"]
         /\ target' = [target EXCEPT ![p] = 0]
         /\ todo' = [todo EXCEPT ![p] = {}]
  BY DEF RegisterCommit, Goto, Return
<1>g. n \in Tokens /\ n <= issued /\ toks[n] = "none"
  BY <1>e DEF IInv, TypeOK, RegisterInv, Registering
<1>o. \A q \in Procs \ {p} : pc'[q] = pc[q] /\ target'[q] = target[q] /\ todo'[q] = todo[q]
  BY <1>r DEF IInv, TypeOK
<1>p. pc'[p] \in {"idle", "produce"} /\ (pc'[p] = "produce" => target'[p] = n)
  BY <1>r DEF IInv, TypeOK
<1>1. TypeOK'
  <2>1. toks' \in [Tokens -> {"none", "live", "used", "revoked"}] BY <1>e DEF IInv, TypeOK
  <2>2. tlock' \in [Tokens -> Procs \cup {NoProc}] /\ insert' \in Procs \cup {NoProc}
    BY <1>e DEF IInv, TypeOK
  <2>3. pc' \in [Procs -> {"idle", "produce"} \cup InTx] BY <1>r DEF IInv, TypeOK, InTx
  <2>4. target' \in [Procs -> Tokens \cup {0}] /\ todo' \in [Procs -> SUBSET Tokens]
    BY Zenon, <1>r DEF IInv, TypeOK
  <2> QED BY <2>1, <2>2, <2>3, <2>4, <1>f, Zenon DEF IInv, TypeOK
<1>2. RegisterInv'
  <2> SUFFICES ASSUME NEW q \in Procs, pc'[q] \in Registering
               PROVE  /\ target'[q] \in 1..issued
                      /\ toks'[target'[q]] = "none"
                      /\ \A r \in Procs : pc'[r] \in Registering /\ target'[r] = target'[q] => r = q
    BY <1>f DEF RegisterInv
  <2>1. q # p BY Zenon, <1>p DEF Registering
  <2>2. target[q] # n BY Zenon, <2>1, <1>o, <1>e DEF IInv, RegisterInv, Registering
  <2>3. target[q] \in 1..issued /\ toks[target[q]] = "none"
    BY <2>1, <1>o DEF IInv, RegisterInv
  <2>4. toks'[target[q]] = "none" BY <2>2, <2>3, <1>e DEF IInv, TypeOK
  <2>5. \A r \in Procs : pc'[r] \in Registering => r # p BY <1>p DEF Registering
  <2> QED BY Zenon, <2>1, <2>3, <2>4, <2>5, <1>o DEF IInv, RegisterInv
<1>s. \A t \in Tokens : toks[t] # "none" => toks'[t] # "none" BY <1>e
<1>3. IssuedInv'
  <2>1. \A t \in Tokens : toks'[t] # "none" => t <= issued BY <1>e, <1>g DEF IInv, IssuedInv
  <2>2. \A t \in mailed : toks'[t] # "none" BY Zenon, <1>s DEF IInv, TypeOK, IssuedInv
  <2>3. \A q \in Procs : pc'[q] \in {"produce", "token"} =>
                           target'[q] \in Tokens /\ toks'[target'[q]] # "none"
    BY Zenon, <1>s, <1>o, <1>p, <1>e, <1>g DEF IInv, IssuedInv
  <2> QED BY <2>1, <2>2, <2>3, <1>f DEF IssuedInv
<1>4. HeldInv'
  <2> SUFFICES ASSUME NEW q \in Procs, pc'[q] \in Completing
               PROVE  target'[q] \in Tokens /\ tlock'[target'[q]] = q /\ toks'[target'[q]] = "live"
    BY DEF HeldInv
  <2>1. q # p BY Zenon, <1>p DEF Completing
  <2>2. target[q] \in Tokens /\ tlock[target[q]] = q /\ toks[target[q]] = "live"
    BY Zenon, <2>1, <1>o DEF IInv, HeldInv
  <2> QED BY <2>1, <2>2, <1>o, <1>e
<1>5. CreatedInv' BY Zenon, <1>f, <1>e, <1>g DEF IInv, CreatedInv
<1>6. OlderInv'
  <2>1. \A t \in Tokens : \A u \in older[t] : toks'[u] # "none"
    BY <1>s DEF IInv, TypeOK, OlderInv
  <2>2. ASSUME NEW t \in Tokens, toks'[t] # "none", NEW u \in older[t], u # t PROVE toks'[u] # "live"
    <3>1. u \in Tokens /\ toks[u] # "none" /\ u # n
      BY <2>2, <1>g DEF IInv, TypeOK, OlderInv
    <3>2. CASE t = n
      <4>1. toks[u] = "live" => tlock[u] = p
        BY <3>2, <2>2, <1>e DEF IInv, ChosenInv
      <4> QED BY Zenon, <4>1, <3>1, <1>e
    <3>3. CASE t # n
      <4>1. toks[t] # "none" BY <3>3, <2>2, <1>e
      <4>2. toks[u] # "live" BY <4>1, <2>2 DEF IInv, OlderInv, SupersededIsDead
      <4> QED BY <4>2, <3>1, <1>e
    <3> QED BY <3>2, <3>3
  <2> QED BY <2>1, <2>2, <1>f DEF OlderInv, SupersededIsDead
<1>7. ChosenInv'
  <2> SUFFICES ASSUME NEW q \in Procs, pc'[q] \in {"rows", "store"}
               PROVE  /\ \A u \in older[target'[q]] : toks'[u] = "live" => u \in todo'[q] \/ tlock'[u] = q
                      /\ pc'[q] = "store" => todo'[q] = {}
    BY Zenon, <1>f DEF ChosenInv
  <2>1. q # p BY Zenon, <1>p
  <2>2. target[q] \in Tokens BY SMTT(60), <2>1, <1>o DEF IInv, TypeOK, RegisterInv, Registering
  <2>3. \A u \in older[target[q]] : u \in Tokens /\ u # n
    BY Zenon, <2>2, <1>g DEF IInv, TypeOK, OlderInv
  <2>4. \A u \in older[target[q]] : toks'[u] = "live" => toks[u] = "live" BY <2>3, <1>e
  <2>5. \A u \in older[target[q]] : tlock[u] = q => tlock'[u] = q BY <2>1, <2>3, <1>e
  <2> QED BY Zenon, <2>1, <2>4, <2>5, <1>o DEF IInv, ChosenInv
<1> QED BY <1>1, <1>2, <1>3, <1>4, <1>5, <1>6, <1>7 DEF Rest

\* The mail is enqueued after the commit.
LEMMA ProduceStep ==
  ASSUME IInv, NEW p \in Procs, NEW sent \in BOOLEAN, RegisterProduce(p, sent)
  PROVE  TypeOK' /\ Rest'
<1>f. UNCHANGED <<toks, expired, account, tlock, insert, issued, requests, deletes, created, older, by>>
  BY DEF RegisterProduce, dbVars, lockVars, countVars, histVars
<1>e. /\ pc[p] = "produce"
      /\ mailed' = IF sent THEN mailed \cup {target[p]} ELSE mailed
      /\ pc' = [pc EXCEPT ![p] = "idle"]
      /\ target' = [target EXCEPT ![p] = 0]
      /\ todo' = [todo EXCEPT ![p] = {}]
  BY DEF RegisterProduce, Return
<1>g. target[p] \in Tokens /\ toks[target[p]] # "none" BY <1>e DEF IInv, IssuedInv
<1>1. TypeOK' BY Zenon, <1>f, <1>e, <1>g DEF IInv, TypeOK, InTx
<1>2. RegisterInv' BY ZenonT(90), <1>f, <1>e DEF IInv, TypeOK, RegisterInv, Registering
<1>3. IssuedInv' BY Zenon, <1>f, <1>e, <1>g DEF IInv, TypeOK, IssuedInv
<1>4. HeldInv' BY ZenonT(90), <1>f, <1>e DEF IInv, TypeOK, HeldInv, Completing
<1>5. CreatedInv' /\ OlderInv' BY Zenon, <1>f DEF IInv, CreatedInv, OlderInv, SupersededIsDead
<1>6. ChosenInv' BY ZenonT(90), <1>f, <1>e DEF IInv, TypeOK, ChosenInv
<1> QED BY Zenon, <1>1, <1>2, <1>3, <1>4, <1>5, <1>6 DEF Rest

\* A completion names a mailed token.
LEMMA CompleteBeginStep ==
  ASSUME IInv, NEW p \in Procs, NEW t \in Tokens, CompleteBegin(p, t)
  PROVE  TypeOK' /\ Rest'
<1>f. UNCHANGED <<todo, toks, expired, account, tlock, insert, issued, deletes, mailed, created, older, by>>
  BY DEF CompleteBegin, dbVars, lockVars, histVars
<1>e. /\ t \in mailed
      /\ issued + requests < MaxRequests /\ requests' = requests + 1
      /\ pc' = [pc EXCEPT ![p] = "token"]
      /\ target' = [target EXCEPT ![p] = t]
  BY DEF CompleteBegin
<1>n. requests' \in 0..MaxRequests
  BY SMTT(60), <1>e, RegistrationAssumption DEF IInv, TypeOK
<1>1. TypeOK' BY Zenon, <1>f, <1>e, <1>n DEF IInv, TypeOK, InTx
<1>2. RegisterInv' BY ZenonT(90), <1>f, <1>e DEF IInv, TypeOK, RegisterInv, Registering
<1>3. IssuedInv' BY Zenon, <1>f, <1>e DEF IInv, TypeOK, IssuedInv
<1>4. HeldInv' BY ZenonT(90), <1>f, <1>e DEF IInv, TypeOK, HeldInv, Completing
<1>5. CreatedInv' /\ OlderInv' BY Zenon, <1>f DEF IInv, CreatedInv, OlderInv, SupersededIsDead
<1>6. ChosenInv' BY <1>f, <1>e DEF IInv, TypeOK, ChosenInv
<1> QED BY <1>1, <1>2, <1>3, <1>4, <1>5, <1>6 DEF Rest

\* It reads and locks its row.
LEMMA CompleteTokenStep ==
  ASSUME IInv, NEW p \in Procs, CompleteToken(p)
  PROVE  TypeOK' /\ Rest'
<1>r. CASE Rollback(p) BY Zenon, <1>r, RollbackStep
<1>l. CASE ~Rollback(p)
  <2>f. UNCHANGED <<target, todo, insert, toks, expired, account, issued, requests, deletes, mailed, created, older, by>>
    BY Zenon, <1>l DEF CompleteToken, Goto, dbVars, countVars, histVars
  <2>e. /\ pc[p] = "token" /\ toks[target[p]] = "live"
        /\ tlock[target[p]] \in {p, NoProc}
        /\ tlock' = [tlock EXCEPT ![target[p]] = p]
        /\ pc' = [pc EXCEPT ![p] = "insert"]
    BY <1>l DEF CompleteToken, Goto, Free, IsValid
  <2>g. target[p] \in Tokens BY Zenon, <2>e DEF IInv, IssuedInv
  <2>1. TypeOK' BY Zenon, <2>f, <2>e, <2>g DEF IInv, TypeOK, InTx
  <2>2. RegisterInv' BY Zenon, <2>f, <2>e DEF IInv, TypeOK, RegisterInv, Registering
  <2>3. IssuedInv' BY Zenon, <2>f, <2>e DEF IInv, TypeOK, IssuedInv
  <2>4. HeldInv' BY SMTT(60), <2>f, <2>e, <2>g DEF IInv, TypeOK, HeldInv, Completing
  <2>5. CreatedInv' /\ OlderInv' BY Zenon, <2>f DEF IInv, CreatedInv, OlderInv, SupersededIsDead
  <2>6. ChosenInv'
    <3>1. \A q \in Procs : \A u \in Tokens : q # p /\ tlock[u] = q => tlock'[u] = q
      BY Zenon, <2>e, <2>g DEF IInv, TypeOK
    <3>2. \A q \in Procs : pc'[q] \in {"rows", "store"} => q # p /\ pc[q] = pc'[q] /\ target[q] \in Tokens
      BY SMTT(60), <2>e DEF IInv, TypeOK, RegisterInv, Registering
    <3> QED BY SMTT(60), <3>1, <3>2, <2>f DEF IInv, TypeOK, ChosenInv
  <2> QED BY <2>1, <2>2, <2>3, <2>4, <2>5, <2>6 DEF Rest
<1> QED BY <1>r, <1>l

\* It inserts the account.
LEMMA CompleteInsertStep ==
  ASSUME IInv, NEW p \in Procs, CompleteInsert(p)
  PROVE  TypeOK' /\ Rest'
<1>r. CASE Rollback(p) BY <1>r, RollbackStep
<1>l. CASE ~Rollback(p)
  <2>f. UNCHANGED <<target, todo, tlock, toks, expired, account, issued, requests, deletes, mailed, created, older, by>>
    BY <1>l DEF CompleteInsert, Goto, dbVars, countVars, histVars
  <2>e. pc[p] = "insert" /\ insert' = p /\ pc' = [pc EXCEPT ![p] = "commit"]
    BY Zenon, <1>l DEF CompleteInsert, Goto
  <2>1. TypeOK' BY Zenon, <2>f, <2>e DEF IInv, TypeOK, InTx
  <2>2. RegisterInv' BY Zenon, <2>f, <2>e DEF IInv, TypeOK, RegisterInv, Registering
  <2>3. IssuedInv' BY Zenon, <2>f, <2>e DEF IInv, TypeOK, IssuedInv
  <2>4. HeldInv' BY Zenon, <2>f, <2>e DEF IInv, TypeOK, HeldInv, Completing
  <2>5. CreatedInv' /\ OlderInv' BY <2>f DEF IInv, CreatedInv, OlderInv, SupersededIsDead
  <2>6. ChosenInv' BY ZenonT(90), <2>f, <2>e DEF IInv, TypeOK, ChosenInv
  <2> QED BY <2>1, <2>2, <2>3, <2>4, <2>5, <2>6 DEF Rest
<1> QED BY <1>r, <1>l

\* The commit of a completion: the token it holds was live, so it has created
\* nothing yet.
LEMMA CompleteCommitStep ==
  ASSUME IInv, NEW p \in Procs, CompleteCommit(p)
  PROVE  TypeOK' /\ Rest'
<1> DEFINE n == target[p]
<1>f. UNCHANGED <<expired, issued, requests, deletes, mailed, older, by>>
  BY Zenon DEF CompleteCommit, countVars
<1>e. /\ pc[p] = "commit"
      /\ toks' = [toks EXCEPT ![n] = "used"]
      /\ account' = TRUE
      /\ created' = [created EXCEPT ![n] = created[n] + 1]
      /\ tlock' = [t \in Tokens |-> IF tlock[t] = p THEN NoProc ELSE tlock[t]]
      /\ insert' = IF insert = p THEN NoProc ELSE insert
      /\ pc' = [pc EXCEPT ![p] = "idle"]
      /\ target' = [target EXCEPT ![p] = 0]
      /\ todo' = [todo EXCEPT ![p] = {}]
  BY Zenon DEF CompleteCommit, Unlock, Return
<1>g. n \in Tokens /\ toks[n] = "live" /\ tlock[n] = p BY Zenon, <1>e DEF IInv, HeldInv, Completing
<1>o. \A q \in Procs \ {p} : pc'[q] = pc[q] /\ target'[q] = target[q] /\ todo'[q] = todo[q]
  BY Zenon, <1>e DEF IInv, TypeOK
<1>p. pc'[p] = "idle" BY Zenon, <1>e DEF IInv, TypeOK
<1>s. \A t \in Tokens : toks'[t] = IF t = n THEN "used" ELSE toks[t] BY <1>e DEF IInv, TypeOK
<1>1. TypeOK'
  <2>1. toks' \in [Tokens -> {"none", "live", "used", "revoked"}] /\ created' \in [Tokens -> Nat]
    BY SMTT(60), <1>e, <1>g DEF IInv, TypeOK
  <2>2. tlock' \in [Tokens -> Procs \cup {NoProc}] /\ insert' \in Procs \cup {NoProc}
    BY Zenon, <1>e DEF IInv, TypeOK
  <2>3. pc' \in [Procs -> {"idle", "produce"} \cup InTx] BY Zenon, <1>e DEF IInv, TypeOK
  <2>4. target' \in [Procs -> Tokens \cup {0}] /\ todo' \in [Procs -> SUBSET Tokens]
    BY <1>e DEF IInv, TypeOK
  <2>5. account' \in BOOLEAN BY Zenon, <1>e
  <2> QED BY <2>1, <2>2, <2>3, <2>4, <2>5, <1>f, Zenon DEF IInv, TypeOK
<1>2. RegisterInv'
  <2>1. \A q \in Procs : pc'[q] \in Registering => q # p BY Zenon, <1>p DEF Registering
  <2>2. \A q \in Procs : pc'[q] \in Registering =>
          target[q] \in 1..issued /\ target[q] \in Tokens /\ toks'[target[q]] = "none"
    <3> SUFFICES ASSUME NEW q \in Procs, pc'[q] \in Registering
                 PROVE  target[q] \in 1..issued /\ target[q] \in Tokens /\ toks'[target[q]] = "none"
      OBVIOUS
    <3>1. pc[q] \in Registering BY Zenon, <2>1, <1>o
    <3>2. target[q] \in 1..issued /\ toks[target[q]] = "none" BY Zenon, <3>1 DEF IInv, RegisterInv
    <3>3. target[q] \in Tokens BY SMTT(60), <3>2 DEF IInv, TypeOK
    <3> QED BY Zenon, <3>2, <3>3, <1>s, <1>g
  <2> QED BY <2>1, <2>2, <1>o, <1>f DEF IInv, RegisterInv
<1>3. IssuedInv'
  <2>1. \A t \in Tokens : toks'[t] # "none" <=> toks[t] # "none" BY <1>s, <1>g
  <2>2. \A q \in Procs : pc'[q] \in {"produce", "token"} => q # p BY Zenon, <1>p
  <2>3. \A q \in Procs : pc'[q] \in {"produce", "token"} =>
                           target'[q] \in Tokens /\ toks'[target'[q]] # "none"
    BY Zenon, <2>1, <2>2, <1>o DEF IInv, IssuedInv
  <2>4. \A t \in mailed : toks'[t] # "none" BY Zenon, <2>1 DEF IInv, TypeOK, IssuedInv
  <2>5. \A t \in Tokens : toks'[t] # "none" => t <= issued BY Zenon, <2>1 DEF IInv, IssuedInv
  <2> QED BY Zenon, <2>3, <2>4, <2>5, <1>f DEF IssuedInv
<1>4. HeldInv'
  <2> SUFFICES ASSUME NEW q \in Procs, pc'[q] \in Completing
               PROVE  target'[q] \in Tokens /\ tlock'[target'[q]] = q /\ toks'[target'[q]] = "live"
    BY DEF HeldInv
  <2>1. q # p BY Zenon, <1>p DEF Completing
  <2>2. target[q] \in Tokens /\ tlock[target[q]] = q /\ toks[target[q]] = "live"
    BY Zenon, <2>1, <1>o DEF IInv, HeldInv
  <2>3. target[q] # n BY Zenon, <2>1, <2>2, <1>g
  <2> QED BY Zenon, <2>1, <2>2, <2>3, <1>o, <1>s, <1>e
<1>5. CreatedInv'
  <2>1. created[n] = 0 BY Zenon, <1>g DEF IInv, CreatedInv
  <2> QED BY SMTT(60), <2>1, <1>e, <1>s, <1>g DEF IInv, TypeOK, CreatedInv
<1>6. OlderInv'
  <2>1. \A t \in Tokens : (toks'[t] = "none" <=> toks[t] = "none") /\ (toks'[t] = "live" => toks[t] = "live")
    BY Zenon, <1>s, <1>g
  <2> QED BY Zenon, <2>1, <1>f DEF IInv, TypeOK, OlderInv, SupersededIsDead
<1>7. ChosenInv'
  <2> SUFFICES ASSUME NEW q \in Procs, pc'[q] \in {"rows", "store"}
               PROVE  /\ \A u \in older[target'[q]] : toks'[u] = "live" => u \in todo'[q] \/ tlock'[u] = q
                      /\ pc'[q] = "store" => todo'[q] = {}
    BY <1>f DEF ChosenInv
  <2>1. q # p BY Zenon, <1>p
  <2>2. target[q] \in Tokens BY SMTT(60), <2>1, <1>o DEF IInv, TypeOK, RegisterInv, Registering
  <2>3. older[target[q]] \subseteq Tokens BY <2>2 DEF IInv, TypeOK
  <2>4. \A u \in older[target[q]] : toks'[u] = "live" => toks[u] = "live" BY Zenon, <2>3, <1>s
  <2>5. \A u \in older[target[q]] : tlock[u] = q => tlock'[u] = q BY Zenon, <2>1, <2>3, <1>e
  <2> QED BY Zenon, <2>1, <2>4, <2>5, <1>o DEF IInv, ChosenInv
<1> QED BY <1>1, <1>2, <1>3, <1>4, <1>5, <1>6, <1>7 DEF Rest

\* Deletion of the account, expiry and stuttering leave tokens and requests alone.
LEMMA QuietStep ==
  ASSUME IInv, DeleteAccount \/ (\E t \in Tokens : TokenExpires(t)) \/ UNCHANGED vars
  PROVE  TypeOK' /\ Rest'
<1>f. UNCHANGED <<toks, tlock, insert, pc, target, todo, issued, requests, mailed, created, older, by>>
  BY Zenon DEF DeleteAccount, TokenExpires, vars, dbVars, lockVars, reqVars, countVars, histVars
<1>a. account \in BOOLEAN /\ expired \subseteq Tokens /\ deletes \in 0..MaxDeletes
  BY DEF IInv, TypeOK
<1>e. account' \in BOOLEAN /\ expired' \subseteq Tokens /\ deletes' \in 0..MaxDeletes
  <2>1. CASE DeleteAccount
    <3>1. account' = FALSE /\ UNCHANGED expired BY <2>1 DEF DeleteAccount
    <3>2. deletes' \in 0..MaxDeletes BY SMTT(60), <1>a, <2>1 DEF DeleteAccount
    <3> QED BY Zenon, <3>1, <3>2, <1>a
  <2>2. ASSUME NEW t \in Tokens, TokenExpires(t)
        PROVE  account' \in BOOLEAN /\ expired' \subseteq Tokens /\ deletes' \in 0..MaxDeletes
    BY <1>a, <2>2 DEF TokenExpires, countVars
  <2>3. CASE UNCHANGED vars BY <1>a, <2>3 DEF vars, dbVars, countVars
  <2> QED BY <2>1, <2>2, <2>3
<1>1. TypeOK' BY <1>f, <1>e, Zenon DEF IInv, TypeOK
<1>2. RegisterInv' /\ IssuedInv' BY Zenon, <1>f DEF IInv, RegisterInv, IssuedInv
<1>3. HeldInv' /\ CreatedInv' BY Zenon, <1>f DEF IInv, HeldInv, CreatedInv
<1>4. ChosenInv' BY Zenon, <1>f DEF IInv, ChosenInv
<1>5. OlderInv' BY <1>f DEF IInv, OlderInv, SupersededIsDead
<1> QED BY Zenon, <1>1, <1>2, <1>3, <1>4, <1>5 DEF Rest

\* Every step keeps the invariant.
LEMMA NextIInv == IInv /\ [Next]_vars => IInv'
<1> SUFFICES ASSUME IInv, [Next]_vars PROVE TypeOK' /\ Rest' BY DEF IInv, Rest
<1>1. ASSUME NEW p \in Procs, Fail(p) \/ DeadlockAbort(p) PROVE TypeOK' /\ Rest'
  BY Zenon, <1>1, RollbackStep DEF Fail, DeadlockAbort
<1>2. ASSUME NEW p \in Procs, Step(p) PROVE TypeOK' /\ Rest'
  BY <1>2, SelectStep, RowStep, RegisterCommitStep, ProduceStep, CompleteTokenStep,
     CompleteInsertStep, CompleteCommitStep DEF Step
<1> QED BY <1>1, <1>2, LookupStep, CompleteBeginStep, QuietStep DEF Next

\* The invariant holds throughout.
LEMMA Invariance == Spec => []IInv
  BY InitIInv, NextIInv, PTL DEF Spec

\* A registration token creates at most one account, also when the account is
\* deleted and the email free again (CompleteRegistration).
THEOREM TokenAppliedOnce == Spec => []AppliedOnce
<1>1. IInv => AppliedOnce BY DEF IInv, CreatedInv, AppliedOnce
<1> QED BY <1>1, Invariance, PTL

\* A committed invitation leaves no invitation usable that was stored when it
\* chose what to revoke (Register).
THEOREM SupersededStaysDead == Spec => []SupersededIsDead
<1>1. IInv => SupersededIsDead BY Zenon DEF IInv, OlderInv
<1> QED BY <1>1, Invariance, PTL

\* A request knows the token it is making as its own; past its choice of what
\* to revoke, the live tokens it made before are among those it found; and of
\* the live tokens no two were made by the same process.
ByInv ==
    /\ \A p \in Procs : pc[p] \in Registering => by[target[p]] = p
    /\ \A p \in Procs : pc[p] \in {"rows", "store"} =>
          \A t \in Tokens : toks[t] = "live" /\ by[t] = p => t \in older[target[p]]
    /\ \A t \in Tokens : toks[t] = "live" => by[t] \in Procs
    /\ \A t, u \in Tokens : toks[t] = "live" /\ toks[u] = "live" /\ by[t] = by[u] => t = u

\* Steps that make no token live and leave the requests that are registering
\* where they are, or end them.
LEMMA ByKept ==
  ASSUME ByInv, UNCHANGED <<older, by>>,
         \A t \in Tokens : toks'[t] = "live" => toks[t] = "live",
         \A p \in Procs : pc'[p] \in Registering =>
            target'[p] = target[p] /\ pc[p] \in Registering
              /\ (pc'[p] \in {"rows", "store"} => pc[p] \in {"rows", "store"})
  PROVE  ByInv'
  BY Zenon DEF ByInv, Registering

\* Register draws its token.
LEMMA ByLookup ==
  ASSUME IInv, ByInv, NEW p \in Procs, RegisterLookup(p)
  PROVE  ByInv'
<1>e. /\ issued + 1 \in Tokens
      /\ pc' = [pc EXCEPT ![p] = "select"]
      /\ target' = [target EXCEPT ![p] = issued + 1]
      /\ by' = [by EXCEPT ![issued + 1] = p]
      /\ UNCHANGED <<toks, older>>
  BY Zenon DEF RegisterLookup, dbVars
<1>1. toks[issued + 1] = "none" BY SMTT(60), <1>e DEF IInv, TypeOK, IssuedInv
<1>2. \A q \in Procs : pc[q] \in Registering => target[q] \in 1..issued
  BY Zenon DEF IInv, RegisterInv
<1>3. \A t \in Tokens : toks[t] = "live" => by'[t] = by[t] BY Zenon, <1>e, <1>1 DEF IInv, TypeOK
<1>4. \A q \in Procs : pc'[q] \in Registering => by'[target'[q]] = q
  <2> SUFFICES ASSUME NEW q \in Procs, pc'[q] \in Registering PROVE by'[target'[q]] = q BY Zenon
  <2>1. CASE q = p BY Zenon, <2>1, <1>e DEF IInv, TypeOK
  <2>2. CASE q # p
    <3>1. pc[q] \in Registering /\ target'[q] = target[q] BY Zenon, <2>2, <1>e DEF IInv, TypeOK
    <3>2. target[q] # issued + 1 /\ target[q] \in Tokens
      BY SMTT(60), <3>1, <1>2 DEF IInv, TypeOK
    <3> QED BY Zenon, <3>1, <3>2, <1>e DEF IInv, TypeOK, ByInv
  <2> QED BY <2>1, <2>2
<1>5. \A q \in Procs : pc'[q] \in {"rows", "store"} => pc[q] = pc'[q] /\ target'[q] = target[q]
  BY Zenon, <1>e DEF IInv, TypeOK
<1>6. \A q \in Procs : pc'[q] \in {"rows", "store"} =>
        \A t \in Tokens : toks[t] = "live" /\ by'[t] = q => t \in older[target'[q]]
  BY Zenon, <1>3, <1>5 DEF ByInv
<1> QED BY Zenon, <1>3, <1>4, <1>6, <1>e DEF ByInv

\* It finds every token stored, its own older ones included.
LEMMA BySelect ==
  ASSUME IInv, ByInv, NEW p \in Procs, RegisterSelect(p)
  PROVE  ByInv'
<1>e. /\ pc[p] = "select" /\ pc' \in [Procs -> {"idle", "produce"} \cup InTx]
      /\ \A q \in Procs \ {p} : pc'[q] = pc[q]
      /\ older' = [older EXCEPT ![target[p]] = {t \in Tokens : toks[t] # "none"}]
      /\ UNCHANGED <<toks, by, target>>
  BY Zenon DEF RegisterSelect, dbVars, IInv, TypeOK, InTx
<1>1. target[p] \in Tokens BY <1>e DEF IInv, TypeOK, RegisterInv, Registering
<1>2. older'[target[p]] = {t \in Tokens : toks[t] # "none"} BY Zenon, <1>e, <1>1 DEF IInv, TypeOK
<1>3. \A q \in Procs \ {p} : pc[q] \in Registering => older'[target[q]] = older[target[q]]
  <2> SUFFICES ASSUME NEW q \in Procs \ {p}, pc[q] \in Registering
               PROVE  older'[target[q]] = older[target[q]]
    BY Zenon
  <2>1. target[q] # target[p] BY Zenon, <1>e DEF IInv, RegisterInv, Registering
  <2>2. target[q] \in Tokens BY SMTT(60) DEF IInv, TypeOK, RegisterInv
  <2> QED BY Zenon, <2>1, <2>2, <1>e DEF IInv, TypeOK
<1>4. \A q \in Procs : pc'[q] \in {"rows", "store"} =>
        \A t \in Tokens : toks[t] = "live" /\ by[t] = q => t \in older'[target[q]]
  BY SMTT(60), <1>2, <1>3, <1>e DEF ByInv, Registering
<1>5. \A q \in Procs : pc'[q] \in Registering => by[target[q]] = q
  BY Zenon, <1>e DEF ByInv, Registering
<1> QED BY Zenon, <1>4, <1>5, <1>e DEF ByInv

\* Its commit revokes every token it found, so the one it makes live is the only
\* one of its own.
LEMMA ByCommit ==
  ASSUME IInv, IInv', ByInv, NEW p \in Procs, NEW told \in BOOLEAN, RegisterCommit(p, told)
  PROVE  ByInv'
<1> DEFINE n == target[p]
<1>e. /\ pc[p] = "store"
      /\ toks' = [t \in Tokens |->
                    IF t = n THEN "live"
                    ELSE IF tlock[t] = p /\ toks[t] = "live" THEN "revoked" ELSE toks[t]]
      /\ UNCHANGED <<older, by>>
  BY ZenonT(90) DEF RegisterCommit, histVars
<1>o. /\ \A q \in Procs \ {p} : pc'[q] = pc[q] /\ target'[q] = target[q]
      /\ pc'[p] \notin Registering
  BY ZenonT(90) DEF RegisterCommit, Goto, Return, IInv, TypeOK, Registering
<1>n. n \in Tokens /\ by[n] = p /\ toks'[n] = "live"
  BY SMTT(60), <1>e DEF IInv, TypeOK, RegisterInv, ByInv, Registering
<1>1. \A t \in Tokens : toks'[t] = "live" => t = n \/ toks[t] = "live" BY <1>e
<1>2. \A u \in Tokens : toks'[u] = "live" /\ by[u] = p => u = n
  <2> SUFFICES ASSUME NEW u \in Tokens, toks'[u] = "live", by[u] = p, u # n PROVE FALSE BY Zenon
  <2>1. u \in older[n] BY Zenon, <1>1, <1>e DEF ByInv
  <2> QED BY Zenon, <2>1, <1>n, <1>e DEF IInv, OlderInv, SupersededIsDead
<1>3. \A t, u \in Tokens : toks'[t] = "live" /\ toks'[u] = "live" /\ by[t] = by[u] => t = u
  BY Zenon, <1>1, <1>2, <1>n DEF ByInv
<1>4. \A t \in Tokens : toks'[t] = "live" => by[t] \in Procs BY Zenon, <1>1, <1>n DEF ByInv
<1>5. \A q \in Procs : pc'[q] \in {"rows", "store"} =>
        \A t \in Tokens : toks'[t] = "live" /\ by[t] = q => t \in older[target'[q]]
  BY SMTT(60), <1>1, <1>n, <1>o DEF ByInv, Registering
<1>6. \A q \in Procs : pc'[q] \in Registering => by[target'[q]] = q
  BY <1>o DEF ByInv
<1> QED BY SMTT(60), <1>3, <1>4, <1>5, <1>6, <1>e DEF ByInv

\* Every step keeps ByInv.
LEMMA NextByInv == IInv /\ IInv' /\ ByInv /\ [Next]_vars => ByInv'
<1> SUFFICES ASSUME IInv, IInv', ByInv, [Next]_vars PROVE ByInv' BY Zenon
<1>1. ASSUME NEW p \in Procs, Rollback(p) PROVE ByInv'
  <2>1. UNCHANGED <<toks, older, by>> BY Zenon, <1>1 DEF Rollback, dbVars, histVars
  <2>2. \A q \in Procs : pc'[q] \in Registering => pc'[q] = pc[q] /\ target'[q] = target[q]
    BY Zenon, <1>1 DEF Rollback, Return, IInv, TypeOK, Registering
  <2> QED BY <2>1, <2>2, ByKept
<1>2. ASSUME NEW p \in Procs, NEW t \in Tokens, RegisterRow(p, t) PROVE ByInv'
  <2>1. UNCHANGED <<toks, older, by, target>> BY Zenon, <1>2 DEF RegisterRow, dbVars, histVars
  <2>2. \A q \in Procs : pc'[q] \in Registering => pc[q] \in Registering
                            /\ (pc'[q] \in {"rows", "store"} => pc[q] \in {"rows", "store"})
    BY Zenon, <1>2 DEF RegisterRow, IInv, TypeOK, Registering
  <2> QED BY Zenon, <2>1, <2>2, ByKept
<1>3. ASSUME NEW p \in Procs, NEW sent \in BOOLEAN, RegisterProduce(p, sent) PROVE ByInv'
  <2>1. UNCHANGED <<toks, older, by>> BY ZenonT(90), <1>3 DEF RegisterProduce, dbVars, histVars
  <2>2. \A q \in Procs : pc'[q] \in Registering => pc'[q] = pc[q] /\ target'[q] = target[q]
    BY SMTT(60), <1>3 DEF RegisterProduce, Return, IInv, TypeOK, Registering
  <2> QED BY ZenonT(90), <2>1, <2>2, ByKept
<1>4. ASSUME NEW p \in Procs, NEW t \in Tokens, CompleteBegin(p, t) PROVE ByInv'
  <2>1. UNCHANGED <<toks, older, by>> BY Zenon, <1>4 DEF CompleteBegin, dbVars, histVars
  <2>2. \A q \in Procs : pc'[q] \in Registering => pc'[q] = pc[q] /\ target'[q] = target[q]
    BY SMTT(60), <1>4 DEF CompleteBegin, IInv, TypeOK, Registering
  <2> QED BY Zenon, <2>1, <2>2, ByKept
<1>5. ASSUME NEW p \in Procs, CompleteToken(p) \/ CompleteInsert(p), ~Rollback(p) PROVE ByInv'
  <2>1. UNCHANGED <<toks, older, by, target>>
    BY ZenonT(90), <1>5 DEF CompleteToken, CompleteInsert, Goto, dbVars, histVars
  <2>2. \A q \in Procs : pc'[q] \in Registering => pc'[q] = pc[q]
    BY Zenon, <1>5 DEF CompleteToken, CompleteInsert, Goto, IInv, TypeOK, Registering
  <2> QED BY ZenonT(90), <2>1, <2>2, ByKept
<1>6. ASSUME NEW p \in Procs, CompleteCommit(p) PROVE ByInv'
  <2>1. UNCHANGED <<older, by>> BY Zenon, <1>6 DEF CompleteCommit
  <2>2. \A q \in Procs : pc'[q] \in Registering => pc'[q] = pc[q] /\ target'[q] = target[q]
    BY Zenon, <1>6 DEF CompleteCommit, Return, IInv, TypeOK, Registering
  <2>3. \A t \in Tokens : toks'[t] = "live" => toks[t] = "live"
    BY Zenon, <1>6 DEF CompleteCommit, IInv, TypeOK
  <2> QED BY Zenon, <2>1, <2>2, <2>3, ByKept
<1>7. ASSUME DeleteAccount \/ (\E t \in Tokens : TokenExpires(t)) \/ UNCHANGED vars PROVE ByInv'
  <2>1. UNCHANGED <<toks, older, by, pc, target>>
    BY <1>7 DEF DeleteAccount, TokenExpires, vars, dbVars, reqVars, histVars
  <2> QED BY Zenon, <2>1, ByKept
<1>8. ASSUME NEW p \in Procs, Fail(p) \/ DeadlockAbort(p) PROVE ByInv'
  BY <1>8, <1>1 DEF Fail, DeadlockAbort
<1>9. ASSUME NEW p \in Procs, Step(p) PROVE ByInv'
  BY <1>9, <1>1, <1>2, <1>3, <1>5, <1>6, BySelect, ByCommit DEF Step
<1> QED BY <1>4, <1>7, <1>8, <1>9, ByLookup DEF Next

\* ByInv holds throughout.
LEMMA ByInvariance == Spec => []ByInv
<1>1. Init => ByInv BY DEF Init, ByInv, Registering
<1> QED BY <1>1, Invariance, NextByInv, PTL DEF Spec

\* At no time are more invitations usable than there are concurrent requests:
\* the live tokens were made by as many processes (RevokeRegistrationTokens).
THEOREM LinksBounded == Spec => []LiveLinksBounded
<1>1. ByInv => LiveLinksBounded
  <2> SUFFICES ASSUME ByInv PROVE LiveLinksBounded OBVIOUS
  <2> DEFINE live == {t \in Tokens : toks[t] = "live"}
             maker == [t \in live |-> by[t]]
  <2>1. maker \in [live -> Procs] BY DEF ByInv
  <2>2. \A t, u \in live : maker[t] = maker[u] => t = u BY DEF ByInv
  <2>3. maker \in Injection(live, Procs) BY <2>1, <2>2 DEF Injection, IsInjective
  <2> HIDE DEF live, maker
  <2>4. Cardinality(live) <= Cardinality(Procs) BY <2>3, FS_Injection
  <2> QED BY <2>4 DEF LiveLinksBounded, live
<1> QED BY <1>1, ByInvariance, PTL

\* Type correctness.
THEOREM RegistrationTypeCorrect == Spec => []TypeOK
<1>1. IInv => TypeOK BY DEF IInv
<1> QED BY <1>1, Invariance, PTL
=============================================================================
