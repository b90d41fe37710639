-------------------------- MODULE ConnectionsProofs --------------------------
(***************************************************************************)
(* What each operation of the store makes of a row, and, for any number of *)
(* workers, accounts and tokens: the rows keep their types, one worker at  *)
(* a time renews a connection, and no answer of a provider clears a stored *)
(* refresh token.                                                          *)
(***************************************************************************)
EXTENDS Connections, TLAPS

-----------------------------------------------------------------------------
(* Rows *)

(* A refresh token is stored with the version of its key, or not at all. *)
Tidy(row) == row.refresh.n = NULL <=> row.refresh.key = NULL

LEMMA CurrentIsKey ==
    ASSUME TypeOK, NEW p \in Processes
    PROVE  /\ Current(p) \in 1..2 /\ Current(p) \in ring[p]
           /\ ring[p] \in Keyrings /\ (2 \in ring[p] <=> Current(p) = 2)
BY DEF TypeOK, Current, Keyrings

LEMMA NoTokenTyped == NoToken \in Stored
BY ConnectionsAssumption DEF NoToken, NULL, Stored

LEMMA PersistFields ==
    ASSUME NEW row \in Row, Tidy(row), NEW n \in 0..MaxTokens, NEW c \in 1..2
    PROVE  LET new == PersistTokens(row, n, c)
           IN /\ new \in Row /\ Tidy(new)
              /\ new.status = row.status /\ new.access = c /\ new.version = c
              /\ n = NULL => new.refresh = row.refresh
              /\ n # NULL => new.refresh.n = n /\ new.refresh.key = c /\ new.refresh # NoToken
<1> DEFINE ref == IF n = NULL THEN row.refresh ELSE [n |-> n, key |-> c]
<1>1. c \in {1, 2} /\ c \in 0..2
  OBVIOUS
<1>2. ref \in Stored
  BY <1>1 DEF Row, Stored
<1>3. ref.n = NULL <=> ref.key = NULL
  BY <1>1 DEF Tidy, NULL
<1>4. n # NULL => ref.n = n /\ ref.key = c /\ ref # NoToken
  BY DEF NoToken
<1>5. n = NULL => ref = row.refresh
  OBVIOUS
<1>6. PersistTokens(row, n, c) = [row EXCEPT !.access = c, !.fresh = TRUE,
                                          !.version = c, !.refresh = ref]
  BY DEF PersistTokens, Row
<1> HIDE DEF ref
<1> DEFINE new == [row EXCEPT !.access = c, !.fresh = TRUE, !.version = c,
                             !.refresh = ref]
<1>7. new \in Row
  BY <1>1, <1>2 DEF Row
<1>8. /\ new.status = row.status /\ new.access = c
      /\ new.version = c /\ new.refresh = ref
  BY DEF Row
<1> HIDE DEF new
<1> QED
  BY <1>3, <1>4, <1>5, <1>6, <1>7, <1>8 DEF Tidy, new

LEMMA RotatedFields ==
    ASSUME NEW row \in Row, Tidy(row)
    PROVE  LET new == Rotated(row)
           IN /\ new \in Row /\ Tidy(new)
              /\ new.status = row.status /\ new.version = 2
              /\ new.access = (IF row.access = NULL THEN NULL ELSE 2)
              /\ row.refresh = NoToken => new.refresh = NoToken
              /\ row.refresh # NoToken => new.refresh.key = 2 /\ new.refresh # NoToken
              /\ new.refresh.n = row.refresh.n
<1> DEFINE ref == IF row.refresh = NoToken THEN row.refresh
                  ELSE [row.refresh EXCEPT !.key = 2]
           acc == IF row.access = NULL THEN row.access ELSE 2
<1>1. 2 \in 1..2 /\ 2 \in 0..2
  OBVIOUS
<1>2. row.refresh \in Stored
  BY DEF Row
<1>3. row.refresh = NoToken <=> row.refresh.key = NULL
  BY <1>2 DEF Tidy, NoToken, Stored
<1>4. /\ ref \in Stored /\ ref.n = row.refresh.n
      /\ row.refresh = NoToken => ref = NoToken
      /\ row.refresh # NoToken => ref.key = 2
  BY <1>1, <1>2 DEF Stored
<1>5. row.refresh # NoToken => ref # NoToken
  BY <1>1, <1>4 DEF NoToken, NULL
<1>6. ref.n = NULL <=> ref.key = NULL
  BY <1>1, <1>3, <1>4 DEF Tidy, NULL
<1>7. acc \in 0..2 /\ acc = (IF row.access = NULL THEN NULL ELSE 2)
  BY <1>1 DEF Row, NULL
<1>8. Rotated(row) = [row EXCEPT !.version = 2, !.access = acc, !.refresh = ref]
  BY DEF Rotated, Row
<1> HIDE DEF ref, acc
<1> DEFINE new == [row EXCEPT !.version = 2, !.access = acc, !.refresh = ref]
<1>9. new \in Row
  BY <1>1, <1>4, <1>7 DEF Row
<1>10. /\ new.status = row.status /\ new.access = acc
       /\ new.version = 2 /\ new.refresh = ref
  BY DEF Row
<1> HIDE DEF new
<1> QED
  BY <1>4, <1>5, <1>6, <1>7, <1>8, <1>9, <1>10 DEF Tidy, new

LEMMA DisconnectedFields ==
    ASSUME NEW row \in Row
    PROVE  LET new == Disconnected(row)
           IN /\ new \in Row /\ Tidy(new) /\ new.status = "needs_reconnect"
              /\ new.access = NULL /\ new.refresh = NoToken /\ new.version = row.version
<1> DEFINE new == [row EXCEPT !.access = NULL, !.refresh = NoToken, !.fresh = FALSE,
                             !.status = "needs_reconnect"]
<1>1. NULL \in 0..2 /\ NoToken.n = NULL /\ NoToken.key = NULL
  BY DEF NULL, NoToken
<1>2. new \in Row
  BY <1>1, NoTokenTyped DEF Row
<1>3. /\ new.status = "needs_reconnect" /\ new.access = NULL /\ new.refresh = NoToken
      /\ new.version = row.version
  BY DEF Row
<1>4. Disconnected(row) = new
  BY DEF Disconnected
<1> HIDE DEF new
<1> QED
  BY <1>1, <1>2, <1>3, <1>4 DEF Tidy

LEMMA MarkSuccessKeeps == ASSUME NEW row \in Row PROVE MarkSuccess(row) = row
BY DEF MarkSuccess, Row

LEMMA IdleTyped == Idle \in Local /\ NobodyThere \in Owner
<1>1. (CHOOSE a \in Accounts : TRUE) \in Accounts
  BY ConnectionsAssumption
<1> QED
  BY <1>1, ConnectionsAssumption DEF Idle, Local, NobodyThere, Owner, NULL, Holding

LEMMA IdleIs ==
    Idle.pc = "idle" /\ Idle.sent = NULL /\ Idle.got = NULL /\ NobodyThere.pc = "idle"
    /\ NobodyThere.got = NULL
BY DEF Idle, NobodyThere

-----------------------------------------------------------------------------
(* What each step does, field by field *)

OtherWorkers(w) == \A v \in Workers : v # w => loc'[v] = loc[v]
OtherRows(a) == \A b \in Accounts : b # a => conn'[b] = conn[b]
OtherGrants(a) == \A b \in Accounts : b # a => grants'[b] = grants[b]
OtherPasts(a) == \A b \in Accounts : b # a => past'[b] = past[b]

LEMMA RowsTyped ==
    ASSUME TypeOK, NEW a \in Accounts, NEW row \in Row, Tidy(row),
           conn' = [conn EXCEPT ![a] = row]
    PROVE  /\ conn' \in [Accounts -> Row] /\ \A b \in Accounts : Tidy(conn'[b])
           /\ conn'[a] = row /\ OtherRows(a)
BY DEF TypeOK, Tidy, OtherRows

LEMMA LocalTyped ==
    ASSUME TypeOK, NEW w \in Workers, NEW l \in Local, Become(w, l)
    PROVE  loc' \in [Workers -> Local] /\ loc'[w] = l /\ OtherWorkers(w)
BY DEF TypeOK, Become, OtherWorkers

LEMMA RowTyped ==
    ASSUME TypeOK, NEW a \in Accounts
    PROVE  conn[a] \in Row /\ Tidy(conn[a]) /\ grants[a] \in Grants /\ past[a] \in Past
BY DEF TypeOK, Tidy

LEMMA WorkerTyped == ASSUME TypeOK, NEW w \in Workers PROVE loc[w] \in Local
BY DEF TypeOK

(* A worker begins. *)
LEMMA BeginDoes ==
    ASSUME TypeOK, NEW w \in Workers, NEW a \in Accounts, Begin(w, a)
    PROVE  /\ TypeOK'
           /\ loc'[w].pc = "get" /\ loc'[w].acct = a /\ loc'[w].got = NULL
           /\ OtherWorkers(w)
<1> DEFINE l == [Idle EXCEPT !.pc = "get", !.acct = a]
<1>1. l \in Local
  BY IdleTyped DEF Local
<1>2. l.pc = "get" /\ l.acct = a /\ l.got = NULL
  BY IdleTyped, IdleIs DEF Local
<1>3. Become(w, l)
  BY DEF Begin
<1> HIDE DEF l
<1>4. loc' \in [Workers -> Local] /\ loc'[w] = l /\ OtherWorkers(w)
  BY <1>1, <1>3, LocalTyped
<1> QED
  BY <1>2, <1>4 DEF Begin, TypeOK

(* Under the lock a worker takes the stored token, or the refresh token to *)
(* renew it with, or gives up.                                             *)
LEMMA GetTokenDoes ==
    ASSUME TypeOK, NEW w \in Workers, GetToken(w)
    PROVE  LET a == loc[w].acct
           IN /\ TypeOK' /\ OtherWorkers(w)
              /\ \/ loc'[w] = Idle
                 \/ /\ loc'[w].pc = "call" /\ loc'[w].acct = a /\ loc'[w].got = loc[w].got
                 \/ /\ loc'[w].pc = "refresh" /\ loc'[w].acct = a /\ loc'[w].got = loc[w].got
                    /\ loc'[w].sent = conn[a].refresh.n
                    /\ Gmail(a) /\ conn[a].refresh.key \in ring[RunsIn[w]]
<1> DEFINE a == loc[w].acct
           next == Decision(conn[a], Gmail(a), ring[RunsIn[w]])
           s == IF next = "refresh" THEN conn[a].refresh.n ELSE NULL
           l == [loc[w] EXCEPT !.pc = next, !.sent = s]
<1>1. loc[w] \in Local /\ a \in Accounts
  BY WorkerTyped DEF Local
<1>2. next \in {"idle", "call", "refresh"}
      /\ (next = "refresh" => Gmail(a) /\ conn[a].refresh.key \in ring[RunsIn[w]])
  BY DEF Decision, Opens
<1>3. conn[a].refresh \in Stored
  BY <1>1, RowTyped DEF Row
<1>4. s \in 0..MaxTokens
  BY <1>3, ConnectionsAssumption DEF Stored, NULL
<1>5. next = "refresh" => s = conn[a].refresh.n
  OBVIOUS
<1>6. IF next = "idle" THEN Become(w, Idle) ELSE Become(w, l)
  BY DEF GetToken
<1> HIDE DEF next, s
<1>7. next # "idle" => l \in Local
  BY <1>1, <1>2, <1>4 DEF Local, Holding
<1>8. l.pc = next /\ l.acct = a /\ l.got = loc[w].got /\ l.sent = s
  BY <1>1 DEF Local
<1> HIDE DEF l
<1>9. CASE next = "idle"
  <2>1. loc' \in [Workers -> Local] /\ loc'[w] = Idle /\ OtherWorkers(w)
    BY <1>6, <1>9, IdleTyped, LocalTyped
  <2> QED
    BY <2>1 DEF GetToken, TypeOK
<1>10. CASE next # "idle"
  <2>1. loc' \in [Workers -> Local] /\ loc'[w] = l /\ OtherWorkers(w)
    BY <1>6, <1>7, <1>10, LocalTyped
  <2>2. TypeOK'
    BY <2>1 DEF GetToken, TypeOK
  <2> QED
    BY <1>2, <1>5, <1>8, <1>10, <2>1, <2>2
<1> QED
  BY <1>9, <1>10

(* A worker that goes on and touches nothing else. *)
LEMMA GoesTo ==
    ASSUME TypeOK, NEW w \in Workers, NEW pc \in {"get", "call", "expire", "book"} \cup Holding,
           Become(w, [loc[w] EXCEPT !.pc = pc])
    PROVE  /\ loc' \in [Workers -> Local] /\ OtherWorkers(w)
           /\ loc'[w].pc = pc /\ loc'[w].acct = loc[w].acct
           /\ loc'[w].got = loc[w].got /\ loc'[w].sent = loc[w].sent
<1> DEFINE l == [loc[w] EXCEPT !.pc = pc]
<1>1. l \in Local
  BY WorkerTyped DEF Local
<1>2. l.pc = pc /\ l.acct = loc[w].acct /\ l.got = loc[w].got /\ l.sent = loc[w].sent
  BY WorkerTyped DEF Local
<1> HIDE DEF l
<1>3. Become(w, l)
  BY DEF l
<1>4. loc' \in [Workers -> Local] /\ loc'[w] = l /\ OtherWorkers(w)
  BY <1>1, <1>3, LocalTyped
<1> QED
  BY <1>2, <1>4

(* The history of one account. *)
LEMMA RacedDoes ==
    ASSUME TypeOK, NEW a \in Accounts, NEW x \in BOOLEAN,
           past' = [past EXCEPT ![a].raced = x]
    PROVE  /\ past' \in [Accounts -> Past] /\ OtherPasts(a)
           /\ past'[a].raced = x /\ past'[a].repaired = past[a].repaired
           /\ past'[a].dropped = past[a].dropped /\ past'[a].patched = past[a].patched
BY DEF TypeOK, Past, OtherPasts

(* A refresh that is granted supersedes the token shown, if it brings a    *)
(* new one; the worker has the answer, or it is lost.                      *)
LEMMA RefreshGrantedDoes ==
    ASSUME TypeOK, NEW w \in Workers, RefreshGranted(w)
    PROVE  LET a == loc[w].acct
           IN /\ TypeOK' /\ OtherWorkers(w) /\ OtherGrants(a) /\ OtherPasts(a)
              /\ loc[w].sent \in grants[a].valid
              /\ past[a].raced => past'[a].raced
              /\ past'[a].repaired = past[a].repaired /\ past'[a].dropped = past[a].dropped
              /\ past'[a].patched = past[a].patched
              /\ grants'[a].consented = grants[a].consented
              /\ \E new \in 0..MaxTokens :
                   /\ new = NULL => grants'[a] = grants[a]
                   /\ new # NULL =>
                        /\ new = grants[a].issued + 1 /\ grants'[a].issued = new
                        /\ grants'[a].used = grants[a].used \cup {loc[w].sent}
                        /\ grants'[a].valid = (grants[a].valid \ {loc[w].sent}) \cup {new}
                   /\ \/ /\ loc'[w].pc = "persist" /\ loc'[w].acct = a /\ loc'[w].got = new
                         /\ loc'[w].sent = loc[w].sent /\ past' = past
                      \/ /\ loc'[w] = Idle
                         /\ new # NULL => past'[a].raced
<1> DEFINE a == loc[w].acct
           g == grants[a]
<1>1. loc[w] \in Local /\ a \in Accounts /\ g \in Grants /\ past[a] \in Past
  BY WorkerTyped, RowTyped DEF Local
<1>2. loc[w].sent \in g.valid
  BY DEF RefreshGranted
<1>3. PICK new \in {NULL, g.issued + 1} :
         /\ new <= MaxTokens
         /\ grants' = IF new = NULL THEN grants
                      ELSE [grants EXCEPT ![a] =
                              [g EXCEPT !.issued = new, !.used = @ \cup {loc[w].sent},
                                        !.valid = (@ \ {loc[w].sent}) \cup {new}]]
         /\ \/ /\ Become(w, [loc[w] EXCEPT !.pc = "persist", !.got = new])
               /\ UNCHANGED past
            \/ /\ Become(w, Idle)
               /\ past' = [past EXCEPT ![a].raced = @ \/ new # NULL]
  BY DEF RefreshGranted
<1>4. g.issued \in 0..MaxTokens /\ g.valid \subseteq Tokens /\ g.used \subseteq Tokens
  BY <1>1 DEF Grants
<1>5. new \in 0..MaxTokens /\ (new # NULL => new = g.issued + 1 /\ new \in Tokens)
  BY <1>3, <1>4, ConnectionsAssumption DEF NULL, Tokens
<1>6. grants' \in [Accounts -> Grants] /\ OtherGrants(a) /\ grants'[a].consented = g.consented
      /\ (new = NULL => grants'[a] = g)
      /\ (new # NULL => /\ grants'[a].issued = new
                        /\ grants'[a].used = g.used \cup {loc[w].sent}
                        /\ grants'[a].valid = (g.valid \ {loc[w].sent}) \cup {new})
  <2>1. CASE new = NULL
    BY <1>3, <2>1 DEF TypeOK, OtherGrants
  <2>2. CASE new # NULL
    <3> DEFINE u == g.used \cup {loc[w].sent}
               v == (g.valid \ {loc[w].sent}) \cup {new}
               h == [g EXCEPT !.issued = new, !.used = u, !.valid = v]
    <3>1. u \in SUBSET Tokens /\ v \in SUBSET Tokens
      BY <1>2, <1>4, <1>5, <2>2
    <3>2. grants' = [grants EXCEPT ![a] = h]
      BY <1>1, <1>3, <2>2 DEF Grants
    <3> HIDE DEF u, v
    <3>3. h \in Grants /\ h.issued = new /\ h.used = u /\ h.valid = v
          /\ h.consented = g.consented
      BY <1>1, <1>5, <3>1 DEF Grants
    <3> HIDE DEF h
    <3>4. grants' \in [Accounts -> Grants] /\ OtherGrants(a) /\ grants'[a] = h
      BY <1>1, <3>2, <3>3 DEF TypeOK, OtherGrants
    <3> QED BY <2>2, <3>3, <3>4 DEF u, v
  <2> QED
    BY <2>1, <2>2
<1>7. CASE Become(w, [loc[w] EXCEPT !.pc = "persist", !.got = new]) /\ UNCHANGED past
  <2> DEFINE l == [loc[w] EXCEPT !.pc = "persist", !.got = new]
  <2>1. l \in Local
    BY <1>1, <1>5 DEF Local, Holding
  <2>2. l.pc = "persist" /\ l.acct = a /\ l.got = new /\ l.sent = loc[w].sent
    BY <1>1 DEF Local
  <2>3. Become(w, l)
    BY <1>7
  <2> HIDE DEF l
  <2>4. loc' \in [Workers -> Local] /\ loc'[w] = l /\ OtherWorkers(w)
    BY <2>1, <2>3, LocalTyped
  <2>5. TypeOK' /\ OtherPasts(a)
    BY <1>6, <1>7, <2>4 DEF RefreshGranted, TypeOK, OtherPasts
  <2> QED
    BY <1>2, <1>5, <1>6, <1>7, <2>2, <2>4, <2>5
<1>8. CASE Become(w, Idle) /\ past' = [past EXCEPT ![a].raced = @ \/ new # NULL]
  <2>1. loc' \in [Workers -> Local] /\ loc'[w] = Idle /\ OtherWorkers(w)
    BY <1>8, IdleTyped, LocalTyped
  <2>2. PICK x \in BOOLEAN : x = (past[a].raced \/ new # NULL)
    OBVIOUS
  <2>3. past' = [past EXCEPT ![a].raced = x]
    BY <1>8, <2>2
  <2>4. /\ past' \in [Accounts -> Past] /\ OtherPasts(a)
        /\ past'[a].raced = x /\ past'[a].repaired = past[a].repaired
        /\ past'[a].dropped = past[a].dropped /\ past'[a].patched = past[a].patched
    BY <1>1, <2>3, RacedDoes
  <2>5. TypeOK'
    BY <1>6, <2>1, <2>4 DEF RefreshGranted, TypeOK
  <2> QED
    BY <1>2, <1>5, <1>6, <2>1, <2>2, <2>4, <2>5
<1> QED
  BY <1>3, <1>7, <1>8

LEMMA RefreshBareDoes ==
    ASSUME TypeOK, NEW w \in Workers, RefreshBare(w)
    PROVE  /\ TypeOK' /\ OtherWorkers(w)
           /\ loc'[w].pc = "persist_bare" /\ loc'[w].acct = loc[w].acct
           /\ loc'[w].got = loc[w].got /\ loc'[w].sent = loc[w].sent
BY GoesTo DEF RefreshBare, Holding, TypeOK

(* A refusal ends the worker's try, or has it mark the row; the grant is   *)
(* revoked only if the token shown had been superseded.                    *)
LEMMA RefreshRefusedDoes ==
    ASSUME TypeOK, NEW w \in Workers, NEW code \in Codes, RefreshRefused(w, code)
    PROVE  LET a == loc[w].acct
           IN /\ TypeOK' /\ OtherWorkers(w) /\ OtherGrants(a)
              /\ grants'[a].issued = grants[a].issued /\ grants'[a].used = grants[a].used
              /\ grants'[a].consented = grants[a].consented
              /\ \/ grants'[a].valid = grants[a].valid
                 \/ grants'[a].valid = {} /\ loc[w].sent \in grants[a].used
              /\ \/ loc'[w] = Idle
                 \/ /\ loc'[w].pc = "mark" /\ loc'[w].acct = a
                    /\ loc'[w].got = loc[w].got /\ loc'[w].sent = loc[w].sent
                    /\ loc[w].sent \notin grants[a].valid
<1> DEFINE a == loc[w].acct
           g == grants[a]
<1>1. loc[w] \in Local /\ a \in Accounts /\ g \in Grants
  BY WorkerTyped, RowTyped DEF Local
<1>2. /\ grants' \in [Accounts -> Grants] /\ OtherGrants(a)
      /\ grants'[a].issued = g.issued /\ grants'[a].used = g.used
      /\ grants'[a].consented = g.consented
      /\ \/ grants'[a].valid = g.valid
         \/ grants'[a].valid = {} /\ loc[w].sent \in g.used
  <2>1. CASE grants' = grants
    BY <1>1, <2>1 DEF TypeOK, OtherGrants
  <2>2. CASE grants' # grants
    <3>1. loc[w].sent \in g.used /\ grants' = [grants EXCEPT ![a] = [g EXCEPT !.valid = {}]]
      BY <2>2 DEF RefreshRefused
    <3> DEFINE h == [g EXCEPT !.valid = {}]
    <3>2. h \in Grants /\ h.issued = g.issued /\ h.used = g.used /\ h.valid = {}
          /\ h.consented = g.consented
      BY <1>1 DEF Grants
    <3> HIDE DEF h
    <3>3. grants' = [grants EXCEPT ![a] = h]
      BY <3>1 DEF h
    <3> QED BY <1>1, <3>1, <3>2, <3>3 DEF TypeOK, OtherGrants
  <2> QED
    BY <2>1, <2>2
<1>3. CASE RefreshClass(code) = "needs_reconnect"
  <2>1. code = "invalid_grant"
    BY <1>3 DEF RefreshClass, Codes
  <2>2. Become(w, [loc[w] EXCEPT !.pc = "mark"]) /\ loc[w].sent \notin g.valid
    BY <1>3, <2>1 DEF RefreshRefused
  <2>3. /\ loc' \in [Workers -> Local] /\ OtherWorkers(w)
        /\ loc'[w].pc = "mark" /\ loc'[w].acct = a
        /\ loc'[w].got = loc[w].got /\ loc'[w].sent = loc[w].sent
    BY <2>2, GoesTo DEF Holding
  <2>4. TypeOK'
    BY <1>2, <2>3 DEF RefreshRefused, TypeOK
  <2> QED
    BY <1>2, <2>2, <2>3, <2>4
<1>4. CASE RefreshClass(code) # "needs_reconnect"
  <2>1. Become(w, Idle)
    BY <1>4 DEF RefreshRefused
  <2>2. loc' \in [Workers -> Local] /\ loc'[w] = Idle /\ OtherWorkers(w)
    BY <2>1, IdleTyped, LocalTyped
  <2>3. TypeOK'
    BY <1>2, <2>2 DEF RefreshRefused, TypeOK
  <2> QED
    BY <1>2, <2>2, <2>3
<1> QED
  BY <1>3, <1>4

(* One column of a row. *)
LEMMA ColumnFields ==
    ASSUME NEW row \in Row, Tidy(row)
    PROVE  /\ \A s \in {"active", "needs_reconnect"} :
                LET new == [row EXCEPT !.status = s]
                IN /\ new \in Row /\ Tidy(new) /\ new.status = s /\ new.access = row.access
                   /\ new.refresh = row.refresh /\ new.version = row.version
           /\ LET new == [row EXCEPT !.fresh = FALSE]
              IN /\ new \in Row /\ Tidy(new) /\ new.status = row.status
                 /\ new.access = row.access /\ new.refresh = row.refresh
                 /\ new.version = row.version
           /\ \A v \in 1..2 :
                LET new == [row EXCEPT !.version = v]
                IN /\ new \in Row /\ Tidy(new) /\ new.status = row.status
                   /\ new.access = row.access /\ new.refresh = row.refresh
                   /\ new.version = v
<1>1. ASSUME NEW s \in {"active", "needs_reconnect"}
      PROVE  LET new == [row EXCEPT !.status = s]
             IN /\ new \in Row /\ Tidy(new) /\ new.status = s /\ new.access = row.access
                /\ new.refresh = row.refresh /\ new.version = row.version
  <2> DEFINE new == [row EXCEPT !.status = s]
  <2>1. /\ new \in Row /\ new.status = s /\ new.access = row.access
        /\ new.refresh = row.refresh /\ new.version = row.version
    BY DEF Row
  <2> HIDE DEF new
  <2>2. Tidy(new)
    BY <2>1 DEF Tidy
  <2> QED
    BY <2>1, <2>2 DEF new
<1>2. LET new == [row EXCEPT !.fresh = FALSE]
      IN /\ new \in Row /\ Tidy(new) /\ new.status = row.status /\ new.access = row.access
         /\ new.refresh = row.refresh /\ new.version = row.version
  <2> DEFINE new == [row EXCEPT !.fresh = FALSE]
  <2>1. /\ new \in Row /\ new.status = row.status /\ new.access = row.access
        /\ new.refresh = row.refresh /\ new.version = row.version
    BY DEF Row
  <2> HIDE DEF new
  <2>2. Tidy(new)
    BY <2>1 DEF Tidy
  <2> QED
    BY <2>1, <2>2 DEF new
<1>3. ASSUME NEW v \in 1..2
      PROVE  LET new == [row EXCEPT !.version = v]
             IN /\ new \in Row /\ Tidy(new) /\ new.status = row.status
                /\ new.access = row.access /\ new.refresh = row.refresh /\ new.version = v
  <2> DEFINE new == [row EXCEPT !.version = v]
  <2>1. /\ new \in Row /\ new.status = row.status /\ new.access = row.access
        /\ new.refresh = row.refresh /\ new.version = v
    BY DEF Row
  <2> HIDE DEF new
  <2>2. Tidy(new)
    BY <2>1 DEF Tidy
  <2> QED
    BY <2>1, <2>2 DEF new
<1> QED
  BY <1>1, <1>2, <1>3

(* What a worker writes when it holds an answer: the new tokens under the  *)
(* key of its process, or the version alone.                               *)
LEMMA PersistDoes ==
    ASSUME TypeOK, NEW w \in Workers, Persist(w)
    PROVE  LET a == loc[w].acct
               c == Current(RunsIn[w])
           IN /\ TypeOK' /\ OtherWorkers(w) /\ OtherRows(a) /\ OtherPasts(a)
              /\ conn'[a].status = conn[a].status /\ conn'[a].version = c
              /\ \/ /\ loc[w].pc = "persist" /\ conn'[a].access = c
                    /\ loc[w].got = NULL => conn'[a].refresh = conn[a].refresh
                    /\ loc[w].got # NULL => /\ conn'[a].refresh.n = loc[w].got
                                            /\ conn'[a].refresh.key = c
                                            /\ conn'[a].refresh # NoToken
                    /\ loc'[w].pc = "call" /\ loc'[w].acct = a /\ loc'[w].got = NULL
                 \/ /\ loc[w].pc = "persist_bare" /\ conn'[a].access = conn[a].access
                    /\ conn'[a].refresh = conn[a].refresh
                    /\ loc'[w] = Idle
              /\ past'[a].patched = Patches(conn[a], loc[w].got, c)
              /\ past'[a].raced = past[a].raced /\ past'[a].repaired = past[a].repaired
              /\ past'[a].dropped = past[a].dropped
<1> DEFINE a == loc[w].acct
           c == Current(RunsIn[w])
<1>0. c \in 1..2
  BY CurrentIsKey, ConnectionsAssumption
<1>1. /\ loc[w] \in Local /\ a \in Accounts /\ conn[a] \in Row /\ Tidy(conn[a])
      /\ loc[w].got \in 0..MaxTokens
  BY WorkerTyped, RowTyped DEF Local
<1>2. /\ past' \in [Accounts -> Past] /\ OtherPasts(a)
      /\ past'[a].patched = Patches(conn[a], loc[w].got, c)
      /\ past'[a].raced = past[a].raced /\ past'[a].repaired = past[a].repaired
      /\ past'[a].dropped = past[a].dropped
  <2>1. PICK x \in BOOLEAN : x = Patches(conn[a], loc[w].got, c)
    BY DEF Patches
  <2>2. past' = [past EXCEPT ![a].patched = x]
    BY <2>1 DEF Persist
  <2> QED
    BY <1>1, <2>1, <2>2 DEF TypeOK, Past, OtherPasts
<1>3. CASE loc[w].pc = "persist"
  <2> DEFINE row == PersistTokens(conn[a], loc[w].got, c)
             l == [loc[w] EXCEPT !.pc = "call", !.sent = NULL, !.got = NULL]
  <2>1. conn' = [conn EXCEPT ![a] = row] /\ Become(w, l)
    BY <1>3 DEF Persist
  <2>2. /\ row \in Row /\ Tidy(row)
        /\ row.status = conn[a].status /\ row.access = c /\ row.version = c
        /\ loc[w].got = NULL => row.refresh = conn[a].refresh
        /\ loc[w].got # NULL => /\ row.refresh.n = loc[w].got /\ row.refresh.key = c
                                /\ row.refresh # NoToken
    BY <1>0, <1>1, PersistFields
  <2>3. NULL \in 0..MaxTokens
    BY ConnectionsAssumption DEF NULL
  <2>4. l \in Local /\ l.pc = "call" /\ l.acct = a /\ l.got = NULL
    BY <1>1, <2>3 DEF Local
  <2> HIDE DEF row, l
  <2>5. loc' \in [Workers -> Local] /\ loc'[w] = l /\ OtherWorkers(w)
    BY <2>1, <2>4, LocalTyped
  <2>6. /\ conn' \in [Accounts -> Row] /\ \A b \in Accounts : Tidy(conn'[b])
        /\ conn'[a] = row /\ OtherRows(a)
    BY <1>1, <2>1, <2>2, RowsTyped
  <2>7. TypeOK'
    BY <1>2, <2>5, <2>6 DEF Persist, TypeOK, Tidy
  <2> QED
    BY <1>2, <1>3, <2>2, <2>4, <2>5, <2>6, <2>7
<1>4. CASE loc[w].pc # "persist"
  <2> DEFINE row == [conn[a] EXCEPT !.version = c]
  <2>1. loc[w].pc = "persist_bare" /\ conn' = [conn EXCEPT ![a] = row] /\ Become(w, Idle)
    BY <1>4 DEF Persist
  <2>2. /\ row \in Row /\ Tidy(row) /\ row.status = conn[a].status
        /\ row.access = conn[a].access /\ row.refresh = conn[a].refresh
        /\ row.version = c
    BY <1>0, <1>1, ColumnFields
  <2> HIDE DEF row
  <2>3. loc' \in [Workers -> Local] /\ loc'[w] = Idle /\ OtherWorkers(w)
    BY <2>1, IdleTyped, LocalTyped
  <2>4. /\ conn' \in [Accounts -> Row] /\ \A b \in Accounts : Tidy(conn'[b])
        /\ conn'[a] = row /\ OtherRows(a)
    BY <1>1, <2>1, <2>2, RowsTyped
  <2>5. TypeOK'
    BY <1>2, <2>3, <2>4 DEF Persist, TypeOK, Tidy
  <2> QED
    BY <1>2, <2>1, <2>2, <2>3, <2>4, <2>5
<1> QED
  BY <1>3, <1>4

LEMMA MarkNeedsReconnectDoes ==
    ASSUME TypeOK, NEW w \in Workers, MarkNeedsReconnect(w)
    PROVE  LET a == loc[w].acct
           IN /\ TypeOK' /\ OtherWorkers(w) /\ OtherRows(a) /\ loc'[w] = Idle
              /\ conn'[a].status = "needs_reconnect" /\ conn'[a].access = conn[a].access
              /\ conn'[a].refresh = conn[a].refresh /\ conn'[a].version = conn[a].version
<1> DEFINE a == loc[w].acct
           row == [conn[a] EXCEPT !.status = "needs_reconnect"]
<1>1. a \in Accounts /\ conn[a] \in Row /\ Tidy(conn[a])
  BY WorkerTyped, RowTyped DEF Local
<1>2. conn' = [conn EXCEPT ![a] = row] /\ Become(w, Idle)
  BY DEF MarkNeedsReconnect
<1>3. /\ row \in Row /\ Tidy(row) /\ row.status = "needs_reconnect"
      /\ row.access = conn[a].access /\ row.refresh = conn[a].refresh
      /\ row.version = conn[a].version
  BY <1>1, ColumnFields
<1> HIDE DEF row
<1>4. loc' \in [Workers -> Local] /\ loc'[w] = Idle /\ OtherWorkers(w)
  BY <1>2, IdleTyped, LocalTyped
<1>5. /\ conn' \in [Accounts -> Row] /\ \A b \in Accounts : Tidy(conn'[b])
      /\ conn'[a] = row /\ OtherRows(a)
  BY <1>1, <1>2, <1>3, RowsTyped
<1>6. TypeOK'
  BY <1>4, <1>5 DEF MarkNeedsReconnect, TypeOK, Tidy
<1> QED
  BY <1>3, <1>4, <1>5, <1>6

LEMMA CallProviderDoes ==
    ASSUME TypeOK, NEW w \in Workers, CallProvider(w)
    PROVE  /\ TypeOK' /\ OtherWorkers(w)
           /\ \/ loc'[w] = Idle
              \/ /\ loc'[w].pc \in {"book", "expire"} /\ loc'[w].acct = loc[w].acct
                 /\ loc'[w].got = loc[w].got
<1>1. CASE Become(w, Idle)
  BY <1>1, IdleTyped, LocalTyped DEF CallProvider, TypeOK
<1>2. ASSUME NEW pc \in {"book", "expire"}, Become(w, [loc[w] EXCEPT !.pc = pc])
      PROVE  /\ TypeOK' /\ OtherWorkers(w)
             /\ \/ loc'[w] = Idle
                \/ /\ loc'[w].pc \in {"book", "expire"} /\ loc'[w].acct = loc[w].acct
                   /\ loc'[w].got = loc[w].got
  BY <1>2, GoesTo DEF CallProvider, TypeOK
<1> QED
  BY <1>1, <1>2 DEF CallProvider

LEMMA ExpireAccessTokenDoes ==
    ASSUME TypeOK, NEW w \in Workers, ExpireAccessToken(w)
    PROVE  LET a == loc[w].acct
           IN /\ TypeOK' /\ OtherWorkers(w) /\ OtherRows(a)
              /\ loc'[w].pc = "get" /\ loc'[w].acct = a /\ loc'[w].got = loc[w].got
              /\ conn'[a].status = conn[a].status /\ conn'[a].access = conn[a].access
              /\ conn'[a].refresh = conn[a].refresh /\ conn'[a].version = conn[a].version
<1> DEFINE a == loc[w].acct
           row == [conn[a] EXCEPT !.fresh = FALSE]
           l == [loc[w] EXCEPT !.pc = "get", !.retried = TRUE]
<1>1. loc[w] \in Local /\ a \in Accounts /\ conn[a] \in Row /\ Tidy(conn[a])
  BY WorkerTyped, RowTyped DEF Local
<1>2. conn' = [conn EXCEPT ![a] = row] /\ Become(w, l)
  BY DEF ExpireAccessToken
<1>3. /\ row \in Row /\ Tidy(row) /\ row.status = conn[a].status
      /\ row.access = conn[a].access /\ row.refresh = conn[a].refresh
      /\ row.version = conn[a].version
  BY <1>1, ColumnFields
<1>4. l \in Local /\ l.pc = "get" /\ l.acct = a /\ l.got = loc[w].got
  BY <1>1 DEF Local
<1> HIDE DEF row, l
<1>5. loc' \in [Workers -> Local] /\ loc'[w] = l /\ OtherWorkers(w)
  BY <1>2, <1>4, LocalTyped
<1>6. /\ conn' \in [Accounts -> Row] /\ \A b \in Accounts : Tidy(conn'[b])
      /\ conn'[a] = row /\ OtherRows(a)
  BY <1>1, <1>2, <1>3, RowsTyped
<1>7. TypeOK'
  BY <1>5, <1>6 DEF ExpireAccessToken, TypeOK, Tidy
<1> QED
  BY <1>3, <1>4, <1>5, <1>6, <1>7

(* A success changes nothing that is told apart here. *)
LEMMA RecordSuccessDoes ==
    ASSUME TypeOK, NEW w \in Workers, RecordSuccess(w)
    PROVE  TypeOK' /\ OtherWorkers(w) /\ loc'[w] = Idle /\ conn' = conn
<1>1. loc[w].acct \in Accounts /\ conn[loc[w].acct] \in Row
  BY WorkerTyped, RowTyped DEF Local
<1>2. conn' = conn
  BY <1>1, MarkSuccessKeeps DEF RecordSuccess, TypeOK
<1>3. loc' \in [Workers -> Local] /\ loc'[w] = Idle /\ OtherWorkers(w)
  BY IdleTyped, LocalTyped DEF RecordSuccess
<1> QED
  BY <1>2, <1>3 DEF RecordSuccess, TypeOK

LEMMA CrashDoes ==
    ASSUME TypeOK, NEW w \in Workers, Crash(w)
    PROVE  LET a == loc[w].acct
           IN /\ TypeOK' /\ OtherWorkers(w) /\ OtherPasts(a) /\ loc'[w] = Idle
              /\ past'[a].raced = (past[a].raced \/ (loc[w].pc = "persist" /\ loc[w].got # NULL))
              /\ past'[a].repaired = past[a].repaired /\ past'[a].dropped = past[a].dropped
              /\ past'[a].patched = past[a].patched
<1> DEFINE a == loc[w].acct
<1>1. a \in Accounts
  BY WorkerTyped DEF Local
<1>2. PICK x \in BOOLEAN : x = (past[a].raced \/ (loc[w].pc = "persist" /\ loc[w].got # NULL))
  OBVIOUS
<1>3. past' = [past EXCEPT ![a].raced = x] /\ Become(w, Idle)
  BY <1>2 DEF Crash
<1>4. /\ past' \in [Accounts -> Past] /\ OtherPasts(a)
      /\ past'[a].raced = x /\ past'[a].repaired = past[a].repaired
      /\ past'[a].dropped = past[a].dropped /\ past'[a].patched = past[a].patched
  BY <1>1, <1>3, RacedDoes
<1>5. loc' \in [Workers -> Local] /\ loc'[w] = Idle /\ OtherWorkers(w)
  BY <1>3, IdleTyped, LocalTyped
<1>6. TypeOK'
  BY <1>4, <1>5 DEF Crash, TypeOK
<1> QED
  BY <1>2, <1>4, <1>5, <1>6

(* The owner's browser is sent to the provider. *)
LEMMA AuthorizeDoes ==
    ASSUME TypeOK, NEW s \in Servers, NEW a \in Accounts, NEW reconnecting \in BOOLEAN,
           Authorize(s, a, reconnecting)
    PROVE  /\ TypeOK' /\ owner'.pc = "consent" /\ owner'.acct = a /\ owner'.got = NULL
           /\ owner'.forced = ShouldForceConsent(ProviderOf[a], reconnecting)
<1> DEFINE f == ShouldForceConsent(ProviderOf[a], reconnecting)
<1>0. Current(s) \in 1..2
  BY CurrentIsKey, ConnectionsAssumption
<1>1. f \in BOOLEAN
  BY DEF ShouldForceConsent
<1>2. owner' = [pc |-> "consent", acct |-> a, got |-> NULL, signed |-> Current(s),
               at |-> NULL, forced |-> f]
  BY DEF Authorize, Begun
<1> HIDE DEF f
<1>3. NULL \in 0..MaxTokens
  BY ConnectionsAssumption DEF NULL
<1>4. owner' \in Owner
  BY <1>1, <1>2, <1>3, <1>0 DEF Owner
<1>5. TypeOK'
  BY <1>2, <1>4 DEF Authorize, TypeOK
<1> QED
  BY <1>2, <1>5 DEF f

(* The code is exchanged: a forced or a first consent brings a new token. *)
LEMMA ExchangeCodeDoes ==
    ASSUME TypeOK, NEW s \in Servers, ExchangeCode(s)
    PROVE  LET a == owner.acct
           IN /\ TypeOK' /\ OtherGrants(a) /\ a \in Accounts
              /\ owner'.pc = "land" /\ owner'.acct = a /\ owner'.forced = owner.forced
              /\ owner'.got \in 0..MaxTokens
              /\ Gmail(a) /\ owner.forced => owner'.got # NULL
              /\ grants'[a].used = grants[a].used
              /\ owner'.got = NULL => /\ grants'[a].issued = grants[a].issued
                                      /\ grants'[a].valid = grants[a].valid
              /\ owner'.got # NULL => /\ owner'.got = grants[a].issued + 1
                                      /\ grants'[a].issued = owner'.got
                                      /\ grants'[a].valid = grants[a].valid \cup {owner'.got}
<1> DEFINE a == owner.acct
           g == grants[a]
           n == ConsentToken(a)
<1>1. owner \in Owner /\ a \in Accounts /\ g \in Grants
  BY RowTyped DEF TypeOK, Owner
<1>2. g.issued \in 0..MaxTokens /\ g.valid \subseteq Tokens
  BY <1>1 DEF Grants
<1>3. /\ n \in 0..MaxTokens /\ (n # NULL => n = g.issued + 1 /\ n \in Tokens)
      /\ Gmail(a) /\ owner.forced => n # NULL
  BY <1>2, ConnectionsAssumption DEF ExchangeCode, ConsentToken, NULL, Tokens
<1>4. owner' = [owner EXCEPT !.pc = "land", !.at = s, !.got = n]
  BY DEF ExchangeCode
<1>5. grants' = [grants EXCEPT ![a] =
                   IF n = NULL THEN [g EXCEPT !.consented = TRUE]
                   ELSE [g EXCEPT !.consented = TRUE, !.issued = n, !.valid = @ \cup {n}]]
  BY DEF ExchangeCode
<1> HIDE DEF n
<1>6. /\ owner' \in Owner /\ owner'.pc = "land" /\ owner'.acct = a
      /\ owner'.forced = owner.forced /\ owner'.got = n /\ owner'.at = s
  BY <1>1, <1>3, <1>4 DEF Owner
<1>7. CASE n = NULL
  <2> DEFINE h == [g EXCEPT !.consented = TRUE]
  <2>1. h \in Grants /\ h.issued = g.issued /\ h.valid = g.valid /\ h.used = g.used
    BY <1>1 DEF Grants
  <2>2. grants' = [grants EXCEPT ![a] = h]
    BY <1>5, <1>7
  <2> HIDE DEF h
  <2>3. grants' \in [Accounts -> Grants] /\ OtherGrants(a) /\ grants'[a] = h
    BY <1>1, <2>1, <2>2 DEF TypeOK, OtherGrants
  <2>4. TypeOK'
    BY <1>6, <2>3 DEF ExchangeCode, TypeOK
  <2> QED
    BY <1>1, <1>3, <1>6, <1>7, <2>1, <2>3, <2>4
<1>8. CASE n # NULL
  <2> DEFINE v == g.valid \cup {n}
             h == [g EXCEPT !.consented = TRUE, !.issued = n, !.valid = v]
  <2>1. v \in SUBSET Tokens
    BY <1>2, <1>3, <1>8
  <2>2. grants' = [grants EXCEPT ![a] = h]
    BY <1>1, <1>5, <1>8 DEF Grants
  <2> HIDE DEF v
  <2>3. h \in Grants /\ h.issued = n /\ h.valid = v /\ h.used = g.used
    BY <1>1, <1>3, <2>1 DEF Grants
  <2> HIDE DEF h
  <2>4. grants' \in [Accounts -> Grants] /\ OtherGrants(a) /\ grants'[a] = h
    BY <1>1, <2>2, <2>3 DEF TypeOK, OtherGrants
  <2>5. TypeOK'
    BY <1>6, <2>4 DEF ExchangeCode, TypeOK
  <2> QED
    BY <1>1, <1>3, <1>6, <1>8, <2>3, <2>4, <2>5 DEF v
<1> QED
  BY <1>7, <1>8

LEMMA AbandonDoes ==
    ASSUME TypeOK, AbandonAuthorization
    PROVE  TypeOK' /\ owner' = NobodyThere
BY IdleTyped, IdleIs DEF AbandonAuthorization, TypeOK

(* An authorization lands: the row is active, with what came. *)
LEMMA LandDoes ==
    ASSUME TypeOK, Land
    PROVE  LET a == owner.acct
               c == Current(owner.at)
           IN /\ TypeOK' /\ OtherRows(a) /\ OtherPasts(a) /\ owner' = NobodyThere
              /\ a \in Accounts /\ owner.at \in Processes /\ conn'[a].status = "active"
              /\ conn'[a].access = c /\ conn'[a].version = c
              /\ owner.got = NULL => conn'[a].refresh = conn[a].refresh
              /\ owner.got # NULL => /\ conn'[a].refresh.n = owner.got
                                     /\ conn'[a].refresh.key = c
                                     /\ conn'[a].refresh # NoToken
              /\ past'[a].raced = (\/ ~LockFree(a)
                                   \/ past[a].dropped /\ ~owner.forced
                                   \/ past[a].raced /\ owner.got = NULL)
              /\ past'[a].dropped = FALSE
              /\ past'[a].repaired = (\/ owner.got \in grants[a].valid
                                      \/ past[a].repaired /\ owner.got = NULL)
              /\ past'[a].patched = Patches(conn[a], owner.got, c)
<1> DEFINE a == owner.acct
           c == Current(owner.at)
           old == [conn[a] EXCEPT !.status = "active"]
           row == PersistTokens(old, owner.got, c)
<1>1. /\ owner \in Owner /\ a \in Accounts /\ conn[a] \in Row /\ Tidy(conn[a])
      /\ owner.got \in 0..MaxTokens /\ past[a] \in Past
  BY RowTyped DEF TypeOK, Owner
<1>0. owner.at \in Processes /\ c \in 1..2
  BY CurrentIsKey, ConnectionsAssumption DEF Land, TypeOK
<1>2. old \in Row /\ Tidy(old) /\ old.status = "active" /\ old.refresh = conn[a].refresh
  BY <1>1, ColumnFields
<1>3. conn' = [conn EXCEPT ![a] = row]
  BY DEF Land, Upsert
<1> HIDE DEF old
<1>4. /\ row \in Row /\ Tidy(row) /\ row.status = "active"
      /\ row.access = c /\ row.version = c
      /\ owner.got = NULL => row.refresh = conn[a].refresh
      /\ owner.got # NULL => /\ row.refresh.n = owner.got /\ row.refresh.key = c
                             /\ row.refresh # NoToken
  BY <1>0, <1>1, <1>2, PersistFields
<1> HIDE DEF row
<1>5. /\ conn' \in [Accounts -> Row] /\ \A b \in Accounts : Tidy(conn'[b])
      /\ conn'[a] = row /\ OtherRows(a)
  BY <1>1, <1>3, <1>4, RowsTyped
<1>6. order' \in Seq(Accounts)
  <2>1. order' = order \/ order' = Append(order, a)
    BY DEF Land, Upsert
  <2>2. order \in Seq(Accounts)
    BY DEF TypeOK
  <2> QED
    BY <1>1, <2>1, <2>2
<1> DEFINE x == \/ ~LockFree(a)
                \/ past[a].dropped /\ ~owner.forced
                \/ past[a].raced /\ owner.got = NULL
           y == owner.got \in grants[a].valid \/ (past[a].repaired /\ owner.got = NULL)
           z == Patches(conn[a], owner.got, c)
           p == [past[a] EXCEPT !.raced = x, !.dropped = FALSE, !.repaired = y, !.patched = z]
<1>7. x \in BOOLEAN /\ y \in BOOLEAN /\ z \in BOOLEAN
  BY DEF Patches
<1>10. past' = [past EXCEPT ![a] = p]
  BY DEF Land
<1> HIDE DEF x, y, z
<1>11. /\ p \in Past /\ p.raced = x /\ p.dropped = FALSE /\ p.repaired = y /\ p.patched = z
  BY <1>1, <1>7 DEF Past
<1> HIDE DEF p
<1>12. past' \in [Accounts -> Past] /\ OtherPasts(a) /\ past'[a] = p
  BY <1>1, <1>10, <1>11 DEF TypeOK, OtherPasts
<1>13. owner' = NobodyThere
  BY DEF Land
<1>14. TypeOK'
  BY <1>5, <1>6, <1>12, <1>13, IdleTyped, IdleIs DEF Land, TypeOK, Tidy
<1> QED
  BY <1>0, <1>1, <1>4, <1>5, <1>11, <1>12, <1>13, <1>14 DEF x, y, z

LEMMA DisconnectDoes ==
    ASSUME TypeOK, NEW a \in Accounts, Disconnect(a)
    PROVE  /\ TypeOK' /\ OtherRows(a) /\ OtherPasts(a)
           /\ conn'[a].status = "needs_reconnect" /\ conn'[a].access = NULL
           /\ conn'[a].refresh = NoToken /\ conn'[a].version = conn[a].version
           /\ past'[a].raced = ~LockFree(a) /\ past'[a].dropped = TRUE
           /\ past'[a].repaired = FALSE /\ past'[a].patched = FALSE
<1> DEFINE row == Disconnected(conn[a])
<1>1. conn[a] \in Row /\ past[a] \in Past
  BY RowTyped
<1>2. /\ row \in Row /\ Tidy(row) /\ row.status = "needs_reconnect"
      /\ row.access = NULL /\ row.refresh = NoToken /\ row.version = conn[a].version
  BY <1>1, DisconnectedFields
<1>3. conn' = [conn EXCEPT ![a] = row]
  BY DEF Disconnect
<1> HIDE DEF row
<1>4. /\ conn' \in [Accounts -> Row] /\ \A b \in Accounts : Tidy(conn'[b])
      /\ conn'[a] = row /\ OtherRows(a)
  BY <1>2, <1>3, RowsTyped
<1>5. PICK x \in BOOLEAN : x = ~LockFree(a)
  OBVIOUS
<1> DEFINE p == [past[a] EXCEPT !.raced = x, !.dropped = TRUE, !.repaired = FALSE,
                                !.patched = FALSE]
<1>6. past' = [past EXCEPT ![a] = p]
  BY <1>5 DEF Disconnect
<1>7. p \in Past /\ p.raced = x /\ p.dropped = TRUE /\ p.repaired = FALSE /\ p.patched = FALSE
  BY <1>1 DEF Past
<1> HIDE DEF p
<1>8. past' \in [Accounts -> Past] /\ OtherPasts(a) /\ past'[a] = p
  BY <1>6, <1>7 DEF TypeOK, OtherPasts
<1>9. TypeOK'
  BY <1>4, <1>8 DEF Disconnect, TypeOK, Tidy
<1> QED
  BY <1>2, <1>4, <1>5, <1>7, <1>8, <1>9

LEMMA RevokeDoes ==
    ASSUME TypeOK, NEW a \in Accounts, Revoke(a)
    PROVE  /\ TypeOK' /\ OtherGrants(a) /\ OtherPasts(a)
           /\ grants'[a].issued = grants[a].issued /\ grants'[a].used = grants[a].used
           /\ grants'[a].valid = {}
           /\ past'[a].raced = past[a].raced /\ past'[a].dropped = past[a].dropped
           /\ past'[a].repaired = FALSE /\ past'[a].patched = past[a].patched
<1>1. grants[a] \in Grants /\ past[a] \in Past
  BY RowTyped
<1>2. PICK c \in BOOLEAN :
         grants' = [grants EXCEPT ![a] = [grants[a] EXCEPT !.valid = {}, !.consented = c]]
  BY DEF Revoke
<1> DEFINE h == [grants[a] EXCEPT !.valid = {}, !.consented = c]
<1>3. h \in Grants /\ h.issued = grants[a].issued /\ h.used = grants[a].used /\ h.valid = {}
  BY <1>1 DEF Grants
<1> HIDE DEF h
<1>4. grants' \in [Accounts -> Grants] /\ OtherGrants(a) /\ grants'[a] = h
  BY <1>2, <1>3 DEF TypeOK, OtherGrants, h
<1>5. /\ past' \in [Accounts -> Past] /\ OtherPasts(a)
      /\ past'[a].raced = past[a].raced /\ past'[a].dropped = past[a].dropped
      /\ past'[a].repaired = FALSE /\ past'[a].patched = past[a].patched
  BY DEF Revoke, TypeOK, Past, OtherPasts
<1>6. TypeOK'
  BY <1>4, <1>5 DEF Revoke, TypeOK
<1> QED
  BY <1>3, <1>4, <1>5, <1>6

LEMMA AccessExpiresDoes ==
    ASSUME TypeOK, NEW a \in Accounts, AccessExpires(a)
    PROVE  /\ TypeOK' /\ OtherRows(a)
           /\ conn'[a].status = conn[a].status /\ conn'[a].access = conn[a].access
           /\ conn'[a].refresh = conn[a].refresh /\ conn'[a].version = conn[a].version
<1> DEFINE row == [conn[a] EXCEPT !.fresh = FALSE]
<1>1. /\ row \in Row /\ Tidy(row) /\ row.status = conn[a].status
      /\ row.access = conn[a].access /\ row.refresh = conn[a].refresh
      /\ row.version = conn[a].version
  BY RowTyped, ColumnFields
<1>2. conn' = [conn EXCEPT ![a] = row]
  BY DEF AccessExpires
<1> HIDE DEF row
<1>3. /\ conn' \in [Accounts -> Row] /\ \A b \in Accounts : Tidy(conn'[b])
      /\ conn'[a] = row /\ OtherRows(a)
  BY <1>1, <1>2, RowsTyped
<1>4. TypeOK'
  BY <1>3 DEF AccessExpires, TypeOK, Tidy
<1> QED
  BY <1>1, <1>3, <1>4

LEMMA RotateDoes ==
    ASSUME TypeOK, NEW a \in Accounts, Rotate(a)
    PROVE  /\ TypeOK' /\ OtherRows(a)
           /\ conn'[a].status = conn[a].status /\ conn'[a].version = 2
           /\ conn'[a].access = (IF conn[a].access = NULL THEN NULL ELSE 2)
           /\ conn[a].refresh = NoToken => conn'[a].refresh = NoToken
           /\ conn[a].refresh # NoToken => /\ conn'[a].refresh.key = 2
                                           /\ conn'[a].refresh # NoToken
           /\ conn'[a].refresh.n = conn[a].refresh.n
<1> DEFINE row == Rotated(conn[a])
<1>1. /\ row \in Row /\ Tidy(row)
      /\ row.status = conn[a].status /\ row.version = 2
      /\ row.access = (IF conn[a].access = NULL THEN NULL ELSE 2)
      /\ conn[a].refresh = NoToken => row.refresh = NoToken
      /\ conn[a].refresh # NoToken => row.refresh.key = 2 /\ row.refresh # NoToken
      /\ row.refresh.n = conn[a].refresh.n
  BY RowTyped, RotatedFields
<1>2. conn' = [conn EXCEPT ![a] = row]
  BY DEF Rotate
<1> HIDE DEF row
<1>3. /\ conn' \in [Accounts -> Row] /\ \A b \in Accounts : Tidy(conn'[b])
      /\ conn'[a] = row /\ OtherRows(a)
  BY <1>1, <1>2, RowsTyped
<1>4. TypeOK'
  BY <1>3 DEF Rotate, TypeOK, Tidy
<1> QED
  BY <1>1, <1>3, <1>4

LEMMA KeysDo ==
    ASSUME TypeOK, AddKey \/ Report \/ DropKey \/ \E p \in Processes : Restart(p)
    PROVE  TypeOK' /\ UNCHANGED <<conn, order, grants, loc, owner, past>>
BY DEF AddKey, Restart, Report, DropKey, TypeOK, Keyrings, Reports

-----------------------------------------------------------------------------
(* Types *)

LEMMA InitTyped == Init => TypeOK
<1> SUFFICES ASSUME Init PROVE TypeOK
  OBVIOUS
<1>1. NULL \in 0..2 /\ NULL \in 0..MaxTokens /\ 0 \in 0..MaxTokens
  BY ConnectionsAssumption DEF NULL
<1>2. NoRow \in Row /\ NoRow.refresh = NoToken
  BY <1>1, NoTokenTyped DEF NoRow, Row
<1>3. conn \in [Accounts -> Row] /\ \A a \in Accounts : conn[a].refresh = NoToken
  BY <1>2 DEF Init
<1>4. \A a \in Accounts : conn[a].refresh.n = NULL <=> conn[a].refresh.key = NULL
  BY <1>3 DEF NoToken
<1>5. grants \in [Accounts -> Grants]
  BY <1>1 DEF Init, Grants
<1>6. past \in [Accounts -> Past]
  BY DEF Init, Past
<1>7. loc \in [Workers -> Local] /\ owner \in Owner
  BY IdleTyped DEF Init
<1>8. ring \in [Processes -> Keyrings]
  BY DEF Init, Keyrings
<1>9. owner.pc # "land"
  BY IdleIs DEF Init
<1> QED
  BY <1>3, <1>4, <1>5, <1>6, <1>7, <1>8, <1>9 DEF Init, TypeOK, Keyrings, Reports

LEMMA NextTyped == TypeOK /\ [Next]_vars => TypeOK'
<1> SUFFICES ASSUME TypeOK, [Next]_vars PROVE TypeOK'
  OBVIOUS
<1>1. ASSUME NEW w \in Workers, NEW a \in Accounts, Begin(w, a) PROVE TypeOK'
  BY <1>1, BeginDoes
<1>2. ASSUME NEW w \in Workers, GetToken(w) PROVE TypeOK'
  BY <1>2, GetTokenDoes
<1>3. ASSUME NEW w \in Workers, Work(w) PROVE TypeOK'
  BY <1>3, RefreshGrantedDoes, RefreshBareDoes, RefreshRefusedDoes, PersistDoes,
     MarkNeedsReconnectDoes, CallProviderDoes, ExpireAccessTokenDoes, RecordSuccessDoes
     DEF Work
<1>4. ASSUME NEW w \in Workers, Crash(w) PROVE TypeOK'
  BY <1>4, CrashDoes
<1>5. ASSUME NEW s \in Servers, NEW a \in Accounts, NEW reconnecting \in BOOLEAN,
             Authorize(s, a, reconnecting)
      PROVE  TypeOK'
  BY <1>5, AuthorizeDoes
<1>6. ASSUME NEW a \in Accounts, Disconnect(a) \/ Revoke(a) \/ AccessExpires(a) \/ Rotate(a)
      PROVE  TypeOK'
  BY <1>6, DisconnectDoes, RevokeDoes, AccessExpiresDoes, RotateDoes
<1>7. ASSUME \/ \E s \in Servers : ExchangeCode(s)
             \/ AbandonAuthorization \/ Land \/ AddKey \/ Report \/ DropKey
             \/ \E p \in Processes : Restart(p)
      PROVE  TypeOK'
  BY <1>7, ExchangeCodeDoes, AbandonDoes, LandDoes, KeysDo
<1>8. CASE UNCHANGED vars
  BY <1>8 DEF vars, TypeOK
<1> QED
  BY <1>1, <1>2, <1>3, <1>4, <1>5, <1>6, <1>7, <1>8 DEF Next

(* The rows have the types of the schema, a refresh token is stored with   *)
(* the version of its key or not at all, and the keyring is never empty,   *)
(* whatever workers, owner, provider and rotation do to a row in turn.     *)
THEOREM ConnectionsTyped == Spec => []TypeOK
BY InitTyped, NextTyped, PTL DEF Spec

-----------------------------------------------------------------------------
(* Refresh tokens are kept *)

(* No answer of a provider clears a stored refresh token: persist_tokens   *)
(* keeps what the response omits, the rotation re-encrypts what is there,  *)
(* and only a disconnect, which drops all tokens and shows it, takes it.   *)
THEOREM RefreshTokenKept == Spec => NeverNulled
<1> DEFINE Kept == \A a \in Accounts :
                     conn[a].refresh # NoToken /\ conn'[a].refresh = NoToken
                       => conn'[a].access = NULL /\ conn'[a].status = "needs_reconnect"
<1>1. TypeOK /\ [Next]_vars => [Kept]_vars
  <2> SUFFICES ASSUME TypeOK, Next, NEW a \in Accounts,
                      conn[a].refresh # NoToken, conn'[a].refresh = NoToken
               PROVE  conn'[a].access = NULL /\ conn'[a].status = "needs_reconnect"
    OBVIOUS
  <2>1. ASSUME NEW w \in Workers, Persist(w) PROVE FALSE
    <3>1. OtherRows(loc[w].acct) /\ conn[loc[w].acct].refresh # NoToken
              => conn'[loc[w].acct].refresh # NoToken
      BY <2>1, PersistDoes
    <3> QED BY <2>1, <3>1, PersistDoes DEF OtherRows
  <2>2. ASSUME NEW w \in Workers, MarkNeedsReconnect(w) \/ ExpireAccessToken(w)
        PROVE  conn'[a].refresh = conn[a].refresh
    <3>1. OtherRows(loc[w].acct) /\ conn'[loc[w].acct].refresh = conn[loc[w].acct].refresh
      BY <2>2, MarkNeedsReconnectDoes, ExpireAccessTokenDoes
    <3> QED BY <3>1 DEF OtherRows
  <2>3. ASSUME NEW w \in Workers, RecordSuccess(w) PROVE conn' = conn
    BY <2>3, RecordSuccessDoes
  <2>4. ASSUME Land PROVE FALSE
    <3>1. OtherRows(owner.acct) /\ (conn[owner.acct].refresh # NoToken
              => conn'[owner.acct].refresh # NoToken)
      BY <2>4, LandDoes
    <3> QED BY <3>1 DEF OtherRows
  <2>5. ASSUME NEW b \in Accounts, AccessExpires(b) \/ Rotate(b) PROVE FALSE
    <3>1. OtherRows(b) /\ (conn[b].refresh # NoToken => conn'[b].refresh # NoToken)
      BY <2>5, AccessExpiresDoes, RotateDoes
    <3> QED BY <3>1 DEF OtherRows
  <2>6. ASSUME NEW b \in Accounts, Disconnect(b)
        PROVE  conn'[a].access = NULL /\ conn'[a].status = "needs_reconnect"
    <3>1. /\ OtherRows(b) /\ conn'[b].access = NULL /\ conn'[b].status = "needs_reconnect"
      BY <2>6, DisconnectDoes
    <3> QED BY <3>1 DEF OtherRows
  <2>7. conn' # conn
    OBVIOUS
  <2> QED
    BY <2>1, <2>2, <2>3, <2>4, <2>5, <2>6, <2>7
       DEF Next, Work, Begin, GetToken, RefreshGranted, RefreshBare, RefreshRefused,
           CallProvider, Crash, Authorize, ExchangeCode, AbandonAuthorization, Revoke,
           AddKey, Restart, Report, DropKey
<1> QED
  BY <1>1, InitTyped, NextTyped, PTL DEF Spec, NeverNulled
=============================================================================
