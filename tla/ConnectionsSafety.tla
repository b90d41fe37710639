-------------------------- MODULE ConnectionsSafety --------------------------
(***************************************************************************)
(* What the lock, the order of the owner's acts and the rule for consent   *)
(* guarantee for any number of workers, accounts and tokens: a superseded  *)
(* refresh token is never shown again, a repaired connection stays         *)
(* repaired, a disconnected one stays empty, a rotation loses nothing that *)
(* it is answerable for, and an active account can renew its token.        *)
(***************************************************************************)
EXTENDS ConnectionsProofs

-----------------------------------------------------------------------------
(* The lock *)

Holds(w, a) == loc[w].acct = a /\ loc[w].pc \in Holding

(* One worker at a time is between reading a row and writing it. *)
Exclusive == \A a \in Accounts, v, w \in Workers : Holds(v, a) /\ Holds(w, a) => v = w

(* A worker acts on a row that exists, renews only Google's tokens, and    *)
(* has a new refresh token only on its way to the row.                     *)
InHand(w) ==
    /\ loc[w].pc # "idle" => Exists(loc[w].acct)
    /\ loc[w].pc \in Holding => Gmail(loc[w].acct)
    /\ loc[w].pc # "persist" => loc[w].got = NULL

LockInv == TypeOK /\ Exclusive /\ \A w \in Workers : InHand(w)

(* Rows are never deleted. *)
LEMMA RowsStay ==
    ASSUME TypeOK, [Next]_vars, NEW a \in Accounts, Exists(a)
    PROVE  Exists(a)'
<1>1. ASSUME NEW w \in Workers, Persist(w) \/ MarkNeedsReconnect(w) \/ ExpireAccessToken(w)
      PROVE  Exists(a)'
  <2>1. /\ OtherRows(loc[w].acct)
        /\ conn'[loc[w].acct].status \in {conn[loc[w].acct].status, "needs_reconnect"}
    BY <1>1, PersistDoes, MarkNeedsReconnectDoes, ExpireAccessTokenDoes
  <2> QED
    BY <2>1 DEF OtherRows, Exists
<1>2. ASSUME NEW w \in Workers, RecordSuccess(w) PROVE conn' = conn
  BY <1>2, RecordSuccessDoes
<1>3. ASSUME Land PROVE Exists(a)'
  <2>1. OtherRows(owner.acct) /\ conn'[owner.acct].status = "active"
    BY <1>3, LandDoes
  <2> QED
    BY <2>1 DEF OtherRows, Exists
<1>4. ASSUME NEW b \in Accounts, Disconnect(b) \/ AccessExpires(b) \/ Rotate(b)
      PROVE  Exists(a)'
  <2>1. OtherRows(b) /\ conn'[b].status \in {conn[b].status, "needs_reconnect"}
    BY <1>4, DisconnectDoes, AccessExpiresDoes, RotateDoes
  <2> QED
    BY <2>1 DEF OtherRows, Exists
<1>5. CASE conn' = conn
  BY <1>5 DEF Exists
<1> QED
  BY <1>1, <1>2, <1>3, <1>4, <1>5
     DEF Next, Work, Begin, GetToken, RefreshGranted, RefreshBare, RefreshRefused,
         CallProvider, Crash, Authorize, ExchangeCode, AbandonAuthorization, Revoke,
         AddKey, Restart, Report, DropKey, vars

(* A worker's step keeps the lock if it takes it only when it is free. *)
LEMMA LockKept ==
    ASSUME LockInv, TypeOK', [Next]_vars, NEW w \in Workers, OtherWorkers(w), InHand(w)',
           \A a \in Accounts : Holds(w, a)' => Holds(w, a) \/ LockFree(a)
    PROVE  LockInv'
<1>1. ASSUME NEW v \in Workers, v # w PROVE InHand(v)'
  <2>1. loc'[v] = loc[v] /\ InHand(v) /\ loc[v].acct \in Accounts
    BY <1>1, WorkerTyped DEF OtherWorkers, LockInv, Local
  <2>2. Exists(loc[v].acct) => Exists(loc[v].acct)'
    BY <2>1, RowsStay DEF LockInv
  <2>3. Exists(loc[v].acct)' <=> conn'[loc[v].acct].status # "none"
    BY <2>1 DEF Exists
  <2> QED
    BY <2>1, <2>2, <2>3 DEF InHand, Gmail, Exists
<1>2. Exclusive'
  <2> SUFFICES ASSUME NEW a \in Accounts, NEW v \in Workers, v # w,
                      Holds(v, a)', Holds(w, a)'
               PROVE  FALSE
    <3> SUFFICES ASSUME NEW a \in Accounts, NEW u \in Workers, NEW v \in Workers,
                        Holds(u, a)', Holds(v, a)', u # v
                 PROVE  FALSE
      BY DEF Exclusive
    <3>1. CASE u # w /\ v # w
      BY <3>1 DEF OtherWorkers, Holds, LockInv, Exclusive
    <3> QED BY <3>1
  <2>1. Holds(v, a)
    BY DEF OtherWorkers, Holds
  <2> QED
    BY <2>1 DEF LockInv, Exclusive, LockFree, Holds
<1> QED
  BY <1>1, <1>2 DEF LockInv

LEMMA LockNext == LockInv /\ [Next]_vars => LockInv'
<1> SUFFICES ASSUME LockInv, [Next]_vars PROVE LockInv'
  OBVIOUS
<1>t. TypeOK /\ TypeOK'
  BY NextTyped DEF LockInv
<1>w. \A w \in Workers : loc[w] \in Local /\ InHand(w) /\ loc[w].acct \in Accounts
  BY <1>t, WorkerTyped DEF LockInv, Local
<1>i. ASSUME NEW w \in Workers, OtherWorkers(w), loc'[w] = Idle PROVE LockInv'
  <2>1. InHand(w)' /\ \A a \in Accounts : ~Holds(w, a)'
    BY <1>i, IdleIs DEF InHand, Holds, Holding
  <2> QED
    BY <1>t, <1>i, <2>1, LockKept
<1>m. ASSUME NEW w \in Workers, OtherWorkers(w), loc[w].pc # "idle",
             loc'[w].acct = loc[w].acct, loc'[w].got = NULL,
             loc'[w].pc \in {"get", "call", "expire", "book"}
      PROVE  LockInv'
  <2>1. Exists(loc[w].acct)'
    BY <1>t, <1>w, <1>m, RowsStay DEF InHand
  <2>2. InHand(w)' /\ \A a \in Accounts : ~Holds(w, a)'
    BY <1>m, <2>1 DEF InHand, Holds, Holding, Exists
  <2> QED
    BY <1>t, <1>m, <2>2, LockKept
<1>h. ASSUME NEW w \in Workers, OtherWorkers(w), loc'[w].acct = loc[w].acct,
             loc[w].pc # "idle", loc'[w].pc \in Holding, Gmail(loc[w].acct),
             loc'[w].pc # "persist" => loc'[w].got = NULL,
             loc[w].pc \in Holding \/ LockFree(loc[w].acct)
      PROVE  LockInv'
  <2>1. Exists(loc[w].acct)'
    BY <1>t, <1>w, <1>h, RowsStay DEF InHand
  <2>2. InHand(w)'
    BY <1>h, <2>1 DEF InHand, Exists, Gmail
  <2>3. \A a \in Accounts : Holds(w, a)' => Holds(w, a) \/ LockFree(a)
    BY <1>h DEF Holds
  <2> QED
    BY <1>t, <1>h, <2>2, <2>3, LockKept
<1>o. ASSUME UNCHANGED loc PROVE LockInv'
  <2>1. ASSUME NEW w \in Workers PROVE InHand(w)'
    <3>1. Exists(loc[w].acct) => Exists(loc[w].acct)'
      BY <1>t, <1>w, <1>o, RowsStay
    <3> QED BY <1>o, <1>w, <3>1 DEF InHand, Exists, Gmail
  <2>2. Exclusive'
    BY <1>o DEF LockInv, Exclusive, Holds
  <2> QED
    BY <1>t, <2>1, <2>2 DEF LockInv
<1>1. ASSUME NEW w \in Workers, NEW a \in Accounts, Begin(w, a) PROVE LockInv'
  <2>1. /\ loc'[w].pc = "get" /\ loc'[w].acct = a /\ loc'[w].got = NULL /\ OtherWorkers(w)
    BY <1>t, <1>1, BeginDoes
  <2>2. Exists(a)'
    BY <1>1 DEF Begin, Exists
  <2>3. InHand(w)' /\ \A b \in Accounts : ~Holds(w, b)'
    BY <2>1, <2>2 DEF InHand, Holds, Holding, Exists
  <2> QED
    BY <1>t, <2>1, <2>3, LockKept
<1>2. ASSUME NEW w \in Workers, GetToken(w) PROVE LockInv'
  <2>1. loc[w].pc = "get" /\ loc[w].got = NULL /\ LockFree(loc[w].acct)
    BY <1>w, <1>2 DEF GetToken, InHand
  <2> QED
    BY <1>t, <1>2, <1>i, <1>m, <1>h, <2>1, GetTokenDoes DEF Holding
<1>3. ASSUME NEW w \in Workers, RefreshGranted(w) PROVE LockInv'
  <2>1. loc[w].pc = "refresh" /\ Gmail(loc[w].acct)
    BY <1>w, <1>3 DEF RefreshGranted, InHand, Holding
  <2>2. OtherWorkers(w) /\ \/ loc'[w] = Idle
                           \/ loc'[w].pc = "persist" /\ loc'[w].acct = loc[w].acct
    BY <1>t, <1>3, RefreshGrantedDoes
  <2> QED
    BY <1>i, <1>h, <2>1, <2>2 DEF Holding
<1>4. ASSUME NEW w \in Workers, RefreshBare(w) PROVE LockInv'
  <2>1. loc[w].pc = "refresh" /\ Gmail(loc[w].acct) /\ loc[w].got = NULL
    BY <1>w, <1>4 DEF RefreshBare, InHand, Holding
  <2> QED
    BY <1>t, <1>4, <1>h, <2>1, RefreshBareDoes DEF Holding
<1>5. ASSUME NEW w \in Workers, NEW c \in Codes, RefreshRefused(w, c) PROVE LockInv'
  <2>1. loc[w].pc = "refresh" /\ Gmail(loc[w].acct) /\ loc[w].got = NULL
    BY <1>w, <1>5 DEF RefreshRefused, InHand, Holding
  <2>2. OtherWorkers(w) /\ \/ loc'[w] = Idle
                           \/ /\ loc'[w].pc = "mark" /\ loc'[w].acct = loc[w].acct
                              /\ loc'[w].got = loc[w].got
    BY <1>t, <1>5, RefreshRefusedDoes
  <2> QED
    BY <1>i, <1>h, <2>1, <2>2 DEF Holding
<1>6. ASSUME NEW w \in Workers, Persist(w) PROVE LockInv'
  <2>1. loc[w].pc # "idle"
    BY <1>6 DEF Persist
  <2>2. OtherWorkers(w) /\ \/ loc'[w] = Idle
                           \/ /\ loc'[w].pc = "call" /\ loc'[w].acct = loc[w].acct
                              /\ loc'[w].got = NULL
    BY <1>t, <1>6, PersistDoes
  <2> QED
    BY <1>i, <1>m, <2>1, <2>2
<1>7. ASSUME NEW w \in Workers, MarkNeedsReconnect(w) \/ RecordSuccess(w) \/ Crash(w)
      PROVE  LockInv'
  BY <1>t, <1>7, <1>i, MarkNeedsReconnectDoes, RecordSuccessDoes, CrashDoes
<1>8. ASSUME NEW w \in Workers, CallProvider(w) PROVE LockInv'
  <2>1. loc[w].pc # "idle" /\ loc[w].got = NULL
    BY <1>w, <1>8 DEF CallProvider, InHand
  <2> QED
    BY <1>t, <1>8, <1>i, <1>m, <2>1, CallProviderDoes
<1>9. ASSUME NEW w \in Workers, ExpireAccessToken(w) PROVE LockInv'
  <2>1. loc[w].pc # "idle" /\ loc[w].got = NULL
    BY <1>w, <1>9 DEF ExpireAccessToken, InHand
  <2> QED
    BY <1>t, <1>9, <1>m, <2>1, ExpireAccessTokenDoes
<1> QED
  BY <1>1, <1>2, <1>3, <1>4, <1>5, <1>6, <1>7, <1>8, <1>9, <1>o
     DEF Next, Work, Authorize, ExchangeCode, AbandonAuthorization, Land, Disconnect,
         Revoke, AccessExpires, Rotate, AddKey, Restart, Report, DropKey, vars

LEMMA LockInit == Init => LockInv
<1> SUFFICES ASSUME Init PROVE LockInv
  OBVIOUS
<1>1. \A w \in Workers : loc[w] = Idle
  BY DEF Init
<1> QED
  BY <1>1, InitTyped, IdleIs DEF LockInv, Exclusive, Holds, Holding, InHand

-----------------------------------------------------------------------------
(* Refresh tokens, repairs and disconnections *)

(* A worker on its way to the row with a refresh token that superseded the *)
(* one stored; the owner's browser, with the one from his consent.         *)
Carries(w, a) == loc[w].acct = a /\ loc[w].pc = "persist" /\ loc[w].got # NULL
Brings(a) == owner.acct = a /\ owner.got # NULL

(* Every token that anyone knows was issued. *)
IssuedAt(a) ==
    /\ conn[a].refresh.n <= grants[a].issued
    /\ grants[a].used \subseteq 1..grants[a].issued
    /\ grants[a].valid \subseteq 1..grants[a].issued
    /\ \A w \in Workers : Holds(w, a) => /\ loc[w].sent <= grants[a].issued
                                         /\ loc[w].got <= grants[a].issued

(* The token that the owner brings is in nobody else's hands. *)
OwnAt(a) ==
    Brings(a) => /\ owner.pc = "land" /\ owner.got <= grants[a].issued
                 /\ owner.got \notin grants[a].used /\ conn[a].refresh.n # owner.got
                 /\ \A w \in Workers : Holds(w, a) => /\ loc[w].sent # owner.got
                                                      /\ loc[w].got # owner.got

(* Unless there was a race, a stored token that is superseded is about to  *)
(* be replaced, and whoever renews does so with the token that is stored.  *)
StoredAt(a) ==
    /\ \A w \in Workers : Carries(w, a) => loc[w].got \notin grants[a].used
    /\ ~past[a].raced
         => /\ conn[a].refresh.n \in grants[a].used => \E w \in Workers : Carries(w, a)
            /\ \A w \in Workers : loc[w].acct = a /\ loc[w].pc = "refresh"
                                    => loc[w].sent = conn[a].refresh.n

(* A repaired connection has a live token or is about to store one, and    *)
(* nobody is about to mark it.                                             *)
RepairAt(a) ==
    past[a].repaired /\ ~past[a].raced
      => /\ conn[a].status = "active"
         /\ conn[a].refresh.n \in grants[a].valid \/ \E w \in Workers : Carries(w, a)
         /\ \A w \in Workers : Carries(w, a) => loc[w].got \in grants[a].valid
         /\ \A w \in Workers : ~(loc[w].acct = a /\ loc[w].pc = "mark")

(* A dropped connection has no tokens, so that nobody can renew them. *)
DropAt(a) ==
    past[a].dropped
      => /\ conn[a].status = "needs_reconnect"
         /\ ~past[a].raced => /\ conn[a].access = NULL /\ conn[a].refresh = NoToken
                              /\ LockFree(a)

CareAt(a) == IssuedAt(a) /\ OwnAt(a) /\ StoredAt(a) /\ RepairAt(a) /\ DropAt(a)

CareInv == LockInv /\ \A a \in Accounts : CareAt(a)

(* A step that matters to none of this, at account a: nobody takes its     *)
(* lock, and whoever carries a token goes on carrying it, unless its loss  *)
(* goes on record.                                                         *)
RowKept(a) ==
    /\ conn'[a].status = conn[a].status /\ conn'[a].refresh.n = conn[a].refresh.n
    /\ conn[a].access = NULL => conn'[a].access = NULL
    /\ conn[a].refresh = NoToken => conn'[a].refresh = NoToken
GrantKept(a) ==
    /\ grants'[a].issued = grants[a].issued /\ grants'[a].used = grants[a].used
    /\ grants'[a].valid = grants[a].valid
PastKept(a) ==
    /\ past[a].raced => past'[a].raced
    /\ past'[a].repaired = past[a].repaired /\ past'[a].dropped = past[a].dropped
HandsKept(a) ==
    /\ \A w \in Workers :
         Holds(w, a)' => /\ Holds(w, a) /\ loc'[w].sent = loc[w].sent
                         /\ loc'[w].got = loc[w].got
                         /\ \/ loc'[w].pc = loc[w].pc \/ loc'[w].pc = "persist_bare"
                            \/ loc'[w].pc = "persist" /\ loc'[w].got = NULL
    /\ past'[a].raced \/ \A w \in Workers : Carries(w, a) => loc'[w] = loc[w]
Kept(a) ==
    RowKept(a) /\ GrantKept(a) /\ PastKept(a) /\ HandsKept(a) /\ (Brings(a)' => owner' = owner)

LEMMA LockStaysFree ==
    ASSUME NEW a \in Accounts, LockFree(a), \A w \in Workers : Holds(w, a)' => Holds(w, a)
    PROVE  LockFree(a)'
BY DEF LockFree, Holds

LEMMA KeptCare ==
    ASSUME NEW a \in Accounts, CareAt(a), Kept(a)
    PROVE  CareAt(a)'
<1>1. IssuedAt(a)'
  BY DEF CareAt, IssuedAt, Kept, RowKept, GrantKept, HandsKept
<1>2. OwnAt(a)'
  BY DEF CareAt, OwnAt, Kept, RowKept, GrantKept, HandsKept, Brings
<1>3. \A w \in Workers : Carries(w, a)' => Carries(w, a) /\ loc'[w].got = loc[w].got
  BY DEF Kept, HandsKept, Carries, Holds, Holding
<1>4. past'[a].raced \/ \A w \in Workers : Carries(w, a) => Carries(w, a)'
  BY DEF Kept, HandsKept, Carries
<1>5. StoredAt(a)'
  <2>1. \A w \in Workers : loc'[w].acct = a /\ loc'[w].pc = "refresh"
                             => /\ loc[w].acct = a /\ loc[w].pc = "refresh"
                                /\ loc'[w].sent = loc[w].sent
    BY DEF Kept, HandsKept, Holds, Holding
  <2> QED
    BY <1>3, <1>4, <2>1 DEF CareAt, StoredAt, Kept, RowKept, GrantKept, PastKept
<1>6. RepairAt(a)'
  <2>1. \A w \in Workers : loc'[w].acct = a /\ loc'[w].pc = "mark"
                             => loc[w].acct = a /\ loc[w].pc = "mark"
    BY DEF Kept, HandsKept, Holds, Holding
  <2> QED
    BY <1>3, <1>4, <2>1 DEF CareAt, RepairAt, Kept, RowKept, GrantKept, PastKept
<1>7. DropAt(a)'
  <2>1. LockFree(a) => LockFree(a)'
    BY LockStaysFree DEF Kept, HandsKept
  <2> QED
    BY <2>1 DEF CareAt, DropAt, Kept, RowKept, PastKept
<1> QED
  BY <1>1, <1>2, <1>5, <1>6, <1>7 DEF CareAt

(* What a worker does to one account is nothing to the others. *)
LEMMA KeptElsewhere ==
    ASSUME TypeOK, NEW w \in Workers, OtherWorkers(w),
           NEW b \in Accounts, OtherRows(b), OtherGrants(b), OtherPasts(b), owner' = owner,
           \A a \in Accounts : a # b => ~Holds(w, a) /\ ~Holds(w, a)',
           NEW a \in Accounts, a # b
    PROVE  Kept(a)
<1>1. RowKept(a) /\ GrantKept(a) /\ PastKept(a)
  BY DEF OtherRows, OtherGrants, OtherPasts, RowKept, GrantKept, PastKept
<1>2. HandsKept(a)
  <2>1. \A v \in Workers : v # w => loc'[v] = loc[v]
    BY DEF OtherWorkers
  <2>2. ~Holds(w, a) /\ ~Holds(w, a)'
    OBVIOUS
  <2>3. \A v \in Workers : Carries(v, a) => Holds(v, a)
    BY DEF Carries, Holds, Holding
  <2>4. \A v \in Workers : Holds(v, a)' => v # w /\ Holds(v, a)
    BY <2>1, <2>2 DEF Holds
  <2> QED
    BY <2>1, <2>2, <2>3, <2>4 DEF HandsKept
<1> QED
  BY <1>1, <1>2 DEF Kept

LEMMA QuietWorker ==
    ASSUME TypeOK, NEW w \in Workers, OtherWorkers(w), owner' = owner,
           NEW a \in Accounts, RowKept(a), GrantKept(a), PastKept(a),
           Carries(w, a) => past'[a].raced,
           Holds(w, a)' => /\ Holds(w, a) /\ loc'[w].sent = loc[w].sent
                           /\ loc'[w].got = loc[w].got
                           /\ \/ loc'[w].pc = "persist_bare"
                              \/ loc'[w].pc = "persist" /\ loc'[w].got = NULL
    PROVE  Kept(a)
<1>1. \A v \in Workers : v # w => loc'[v] = loc[v]
  BY DEF OtherWorkers
<1>2. HandsKept(a)
  BY <1>1 DEF HandsKept, Holds
<1> QED
  BY <1>2 DEF Kept

(* Who holds the lock is alone with the row. *)
LEMMA Alone ==
    ASSUME LockInv, NEW w \in Workers, NEW a \in Accounts, Holds(w, a), OtherWorkers(w),
           NEW v \in Workers, v # w
    PROVE  /\ ~Holds(v, a) /\ ~Carries(v, a)
           /\ ~Holds(v, a)' /\ ~Carries(v, a)'
           /\ ~(loc'[v].acct = a /\ loc'[v].pc \in {"refresh", "mark"})
<1>1. ~Holds(v, a)
  BY DEF LockInv, Exclusive
<1>2. loc'[v] = loc[v]
  BY DEF OtherWorkers
<1> QED
  BY <1>1, <1>2 DEF Holds, Carries, Holding

LEMMA Unlocked ==
    ASSUME NEW a \in Accounts, LockFree(a), NEW v \in Workers
    PROVE  ~Holds(v, a) /\ ~Carries(v, a) /\ ~(loc[v].acct = a /\ loc[v].pc \in {"refresh", "mark"})
BY DEF LockFree, Holds, Carries, Holding

(* The numbers that the steps compare. *)
LEMMA Numbers ==
    ASSUME TypeOK, NEW a \in Accounts
    PROVE  /\ conn[a].refresh.n \in 0..MaxTokens /\ grants[a].issued \in 0..MaxTokens
           /\ grants[a].used \subseteq Tokens /\ grants[a].valid \subseteq Tokens
           /\ NULL \notin grants[a].used /\ NULL \notin grants[a].valid
           /\ conn[a].refresh = NoToken => conn[a].refresh.n = NULL /\ conn[a].refresh.key = NULL
           /\ owner.got \in 0..MaxTokens /\ owner.acct \in Accounts
           /\ \A w \in Workers : loc[w].sent \in 0..MaxTokens /\ loc[w].got \in 0..MaxTokens
           /\ MaxTokens \in Nat
<1>1. conn[a] \in Row /\ grants[a] \in Grants /\ owner \in Owner
  BY RowTyped DEF TypeOK
<1>2. conn[a].refresh \in Stored
  BY <1>1 DEF Row
<1>3. conn[a].refresh.n \in 0..MaxTokens
  BY <1>2 DEF Stored
<1>4. /\ grants[a].issued \in 0..MaxTokens /\ grants[a].used \subseteq Tokens
      /\ grants[a].valid \subseteq Tokens
  BY <1>1 DEF Grants
<1>5. NULL \notin Tokens
  BY DEF NULL, Tokens
<1>6. conn[a].refresh = NoToken => conn[a].refresh.n = NULL /\ conn[a].refresh.key = NULL
  BY DEF NoToken
<1>7. owner.got \in 0..MaxTokens /\ owner.acct \in Accounts
  BY <1>1 DEF Owner
<1>8. \A w \in Workers : loc[w].sent \in 0..MaxTokens /\ loc[w].got \in 0..MaxTokens
  BY WorkerTyped DEF Local
<1> QED
  BY <1>3, <1>4, <1>5, <1>6, <1>7, <1>8, ConnectionsAssumption

(* A worker reads the row under the lock and goes to renew its token. *)
LEMMA CareGetToken ==
    ASSUME CareInv, NEW w \in Workers, GetToken(w), LockInv'
    PROVE  \A a \in Accounts : CareAt(a)'
<1>b. PICK b \in Accounts : b = loc[w].acct
  BY WorkerTyped DEF CareInv, LockInv, Local
<1>t. TypeOK /\ TypeOK' /\ LockInv /\ OtherWorkers(w) /\ LockFree(b)
  BY <1>b, GetTokenDoes DEF CareInv, LockInv, GetToken
<1>u. UNCHANGED <<conn, grants, owner, past>>
  BY DEF GetToken
<1>k. \A a \in Accounts : RowKept(a) /\ GrantKept(a) /\ PastKept(a)
  BY <1>u DEF RowKept, GrantKept, PastKept
<1>h. \A a \in Accounts : ~Holds(w, a) /\ ~Carries(w, a)
  BY DEF GetToken, Holds, Carries, Holding
<1>1. CASE \A a \in Accounts : ~Holds(w, a)'
  <2>1. \A a \in Accounts : Kept(a)
    BY <1>1, <1>t, <1>u, <1>k, <1>h, QuietWorker
  <2> QED
    BY <2>1, KeptCare DEF CareInv
<1>2. CASE \E a \in Accounts : Holds(w, a)'
  <2>1. /\ loc'[w].pc = "refresh" /\ loc'[w].acct = b /\ loc'[w].got = loc[w].got
        /\ loc'[w].sent = conn[b].refresh.n /\ conn[b].refresh.key \in ring[RunsIn[w]]
    <3>1. loc'[w] # Idle /\ loc'[w].pc # "call"
      BY <1>2, IdleIs DEF Holds, Holding
    <3> QED BY <1>b, <3>1, <1>t, GetTokenDoes
  <2>2. loc[w].got = NULL
    BY <1>t DEF LockInv, InHand, GetToken
  <2>3. ASSUME NEW a \in Accounts, a # b PROVE CareAt(a)'
    <3>1. ~Holds(w, a)'
      BY <2>1, <2>3 DEF Holds
    <3>2. Kept(a)
      BY <1>t, <1>u, <1>k, <1>h, <3>1, QuietWorker
    <3> QED BY <3>2, KeptCare DEF CareInv
  <2>4. ASSUME NEW v \in Workers, v # w
        PROVE  /\ ~Holds(v, b)' /\ ~Carries(v, b)' /\ ~Carries(v, b)
               /\ ~(loc'[v].acct = b /\ loc'[v].pc \in {"refresh", "mark"})
    <3>1. loc'[v] = loc[v]
      BY <1>t, <2>4 DEF OtherWorkers
    <3>2. ~Holds(v, b) /\ ~Carries(v, b) /\ ~(loc[v].acct = b /\ loc[v].pc \in {"refresh", "mark"})
      BY <1>t, Unlocked
    <3> QED BY <3>1, <3>2 DEF Holds, Carries
  <2>5. ~Carries(w, b)' /\ ~Carries(w, b)
    BY <1>h, <1>t, <2>1 DEF Carries
  <2>6. CareAt(b) /\ NULL \notin grants[b].used /\ NULL \notin grants[b].valid
        /\ grants[b].issued \in Nat /\ NULL = 0
    BY <1>t, Numbers DEF CareInv, NULL
  <2>7. IssuedAt(b)'
    BY <1>u, <2>1, <2>2, <2>4, <2>6 DEF CareAt, IssuedAt, Holds
  <2>8. OwnAt(b)'
    BY <1>u, <2>1, <2>2, <2>4, <2>6 DEF CareAt, OwnAt, Brings, Holds
  <2>9. StoredAt(b)'
    BY <1>u, <2>1, <2>4, <2>5, <2>6 DEF CareAt, StoredAt
  <2>10. RepairAt(b)'
    BY <1>u, <2>1, <2>4, <2>5, <2>6 DEF CareAt, RepairAt
  <2>11. DropAt(b)'
    <3>1. ring[RunsIn[w]] \in Keyrings
      BY <1>t, CurrentIsKey, ConnectionsAssumption
    <3>2. conn[b].refresh # NoToken
      BY <2>1, <3>1 DEF Keyrings, NoToken, NULL
    <3> QED BY <1>u, <2>6, <3>2 DEF CareAt, DropAt
  <2> QED
    BY <2>3, <2>7, <2>8, <2>9, <2>10, <2>11 DEF CareAt
<1> QED
  BY <1>1, <1>2

(* A worker that holds the lock, and what it leaves alone. *)
LEMMA HolderElsewhere ==
    ASSUME CareInv, NEW w \in Workers, NEW b \in Accounts, Holds(w, b),
           OtherWorkers(w), OtherRows(b), OtherGrants(b), OtherPasts(b), owner' = owner,
           loc'[w] = Idle \/ loc'[w].acct = b,
           NEW a \in Accounts, a # b
    PROVE  CareAt(a)'
<1>1. \A c \in Accounts : c # b => ~Holds(w, c) /\ ~Holds(w, c)'
  BY IdleIs DEF Holds, Holding
<1>2. Kept(a)
  BY <1>1, KeptElsewhere DEF CareInv, LockInv
<1> QED
  BY <1>2, KeptCare DEF CareInv

(* Who renews a token without a race renews the one that is stored; it was *)
(* not superseded, and it is live if the connection is repaired.           *)
LEMMA Renewing ==
    ASSUME CareInv, NEW w \in Workers, NEW b \in Accounts,
           loc[w].acct = b, loc[w].pc = "refresh", ~past[b].raced
    PROVE  /\ loc[w].sent = conn[b].refresh.n /\ loc[w].sent \notin grants[b].used
           /\ ~past[b].dropped
           /\ past[b].repaired => loc[w].sent \in grants[b].valid
<1>1. CareAt(b) /\ LockInv /\ Holds(w, b)
  BY DEF CareInv, Holds, Holding
<1>2. \A v \in Workers : ~Carries(v, b)
  <2>1. ASSUME NEW v \in Workers, Carries(v, b) PROVE FALSE
    <3>1. Holds(v, b) /\ v # w
      BY <2>1 DEF Carries, Holds, Holding
    <3> QED BY <1>1, <3>1 DEF LockInv, Exclusive
  <2> QED
    BY <2>1
<1>3. ~LockFree(b)
  BY <1>1 DEF LockFree, Holds
<1> QED
  BY <1>1, <1>2, <1>3 DEF CareAt, StoredAt, RepairAt, DropAt

(* The provider answers with a new token, which the worker carries to the  *)
(* row, or which is lost and that goes on record; or without one.          *)
LEMMA CareRefreshGranted ==
    ASSUME CareInv, NEW w \in Workers, RefreshGranted(w), LockInv'
    PROVE  \A a \in Accounts : CareAt(a)'
<1>b. PICK b \in Accounts : b = loc[w].acct
  BY WorkerTyped DEF CareInv, LockInv, Local
<1>t. TypeOK /\ LockInv /\ CareAt(b) /\ UNCHANGED <<conn, owner>>
  BY DEF CareInv, LockInv, RefreshGranted
<1>h. Holds(w, b) /\ loc[w].pc = "refresh" /\ loc[w].got = NULL
  BY <1>b, <1>t DEF RefreshGranted, Holds, Holding, LockInv, InHand
<1>d. /\ OtherWorkers(w) /\ OtherGrants(b) /\ OtherPasts(b)
      /\ loc[w].sent \in grants[b].valid
      /\ past[b].raced => past'[b].raced
      /\ past'[b].repaired = past[b].repaired /\ past'[b].dropped = past[b].dropped
  BY <1>b, <1>t, RefreshGrantedDoes
<1>1. PICK new \in 0..MaxTokens :
        /\ new = NULL => grants'[b] = grants[b]
        /\ new # NULL =>
             /\ new = grants[b].issued + 1 /\ grants'[b].issued = new
             /\ grants'[b].used = grants[b].used \cup {loc[w].sent}
             /\ grants'[b].valid = (grants[b].valid \ {loc[w].sent}) \cup {new}
        /\ \/ /\ loc'[w].pc = "persist" /\ loc'[w].acct = b /\ loc'[w].got = new
              /\ loc'[w].sent = loc[w].sent /\ past' = past
           \/ /\ loc'[w] = Idle
              /\ new # NULL => past'[b].raced
  BY <1>b, <1>t, RefreshGrantedDoes
<1>2. ASSUME NEW a \in Accounts, a # b PROVE CareAt(a)'
  BY <1>t, <1>h, <1>d, <1>1, <1>2, HolderElsewhere DEF OtherRows
<1>3. CASE new = NULL
  <2>1. RowKept(b) /\ GrantKept(b) /\ PastKept(b)
    BY <1>t, <1>d, <1>1, <1>3 DEF RowKept, GrantKept, PastKept
  <2>2. Holds(w, b)' => loc'[w].pc = "persist" /\ loc'[w].sent = loc[w].sent /\ loc'[w].got = NULL
    BY <1>1, <1>3, IdleIs DEF Holds, Holding
  <2>3. ~Carries(w, b)
    BY <1>h DEF Carries
  <2>4. Kept(b)
    BY <1>t, <1>h, <1>d, <2>1, <2>2, <2>3, QuietWorker
  <2> QED
    BY <1>2, <1>t, <2>4, KeptCare
<1>4. CASE new # NULL
  <2>n. /\ NULL \notin grants[b].used /\ NULL \notin grants[b].valid /\ NULL = 0
        /\ grants[b].issued \in Nat /\ conn[b].refresh.n \in Nat /\ owner.got \in Nat
        /\ loc[w].sent \in Nat /\ new \in Nat
    BY <1>t, Numbers DEF NULL
  <2>o. ASSUME NEW v \in Workers, v # w
        PROVE  /\ ~Holds(v, b)' /\ ~Carries(v, b)' /\ ~Carries(v, b)
               /\ ~(loc'[v].acct = b /\ loc'[v].pc \in {"refresh", "mark"})
    BY <1>t, <1>h, <1>d, <2>o, Alone
  <2>s. loc[w].sent \in 1..grants[b].issued /\ loc[w].sent <= grants[b].issued
    BY <1>t, <1>d, <2>n DEF CareAt, IssuedAt
  <2>w. /\ Holds(w, b)' => loc'[w].sent = loc[w].sent /\ loc'[w].got = new
        /\ Carries(w, b)' => loc'[w].got = new
        /\ Carries(w, b)' \/ past'[b].raced
        /\ ~(loc'[w].acct = b /\ loc'[w].pc \in {"refresh", "mark"})
    BY <1>1, <1>4, IdleIs DEF Holds, Carries, Holding
  <2>1. IssuedAt(b)'
    <3>1. grants'[b].used \subseteq 1..grants'[b].issued /\ grants'[b].valid \subseteq 1..grants'[b].issued
      BY <1>t, <1>1, <1>4, <2>n, <2>s DEF CareAt, IssuedAt
    <3>2. conn'[b].refresh.n <= grants'[b].issued
      BY <1>t, <1>1, <1>4, <2>n DEF CareAt, IssuedAt
    <3>3. ASSUME NEW v \in Workers, Holds(v, b)'
          PROVE  loc'[v].sent <= grants'[b].issued /\ loc'[v].got <= grants'[b].issued
      BY <1>1, <1>4, <2>n, <2>o, <2>s, <2>w, <3>3
    <3> QED BY <3>1, <3>2, <3>3 DEF IssuedAt
  <2>2. OwnAt(b)'
    <3> SUFFICES ASSUME Brings(b) PROVE OwnAt(b)'
      BY <1>t DEF OwnAt, Brings
    <3>1. /\ owner.pc = "land" /\ owner.got <= grants[b].issued /\ owner.got # loc[w].sent
          /\ owner.got \notin grants[b].used /\ conn[b].refresh.n # owner.got
      BY <1>t, <1>h DEF CareAt, OwnAt
    <3>2. owner.got # new /\ owner.got <= grants'[b].issued
      BY <1>1, <1>4, <2>n, <3>1
    <3> QED BY <1>t, <1>1, <1>4, <2>o, <2>w, <3>1, <3>2 DEF OwnAt
  <2>3. StoredAt(b)'
    <3>1. new \notin grants'[b].used
      BY <1>t, <1>1, <1>4, <2>n, <2>s DEF CareAt, IssuedAt
    <3> QED BY <2>o, <2>w, <3>1 DEF StoredAt
  <2>4. RepairAt(b)'
    <3>1. new \in grants'[b].valid
      BY <1>1, <1>4
    <3>2. past'[b].repaired /\ ~past'[b].raced => conn'[b].status = "active"
      BY <1>t, <1>d DEF CareAt, RepairAt
    <3> QED BY <2>o, <2>w, <3>1, <3>2 DEF RepairAt
  <2>5. DropAt(b)'
    <3>1. ~LockFree(b)
      BY <1>h DEF LockFree, Holds
    <3> QED BY <1>t, <1>d, <3>1 DEF CareAt, DropAt
  <2> QED
    BY <1>2, <2>1, <2>2, <2>3, <2>4, <2>5 DEF CareAt
<1> QED
  BY <1>3, <1>4

(* A refusal: of a live token it is no refusal of the grant. *)
LEMMA CareRefreshRefused ==
    ASSUME CareInv, NEW w \in Workers, NEW c \in Codes, RefreshRefused(w, c), LockInv'
    PROVE  \A a \in Accounts : CareAt(a)'
<1>b. PICK b \in Accounts : b = loc[w].acct
  BY WorkerTyped DEF CareInv, LockInv, Local
<1>t. TypeOK /\ LockInv /\ CareAt(b) /\ UNCHANGED <<conn, owner, past>>
  BY DEF CareInv, LockInv, RefreshRefused
<1>h. Holds(w, b) /\ loc[w].pc = "refresh" /\ loc[w].acct = b
  BY <1>b DEF RefreshRefused, Holds, Holding
<1>d. /\ OtherWorkers(w) /\ OtherGrants(b)
      /\ grants'[b].issued = grants[b].issued /\ grants'[b].used = grants[b].used
      /\ \/ grants'[b].valid = grants[b].valid
         \/ grants'[b].valid = {} /\ loc[w].sent \in grants[b].used
      /\ \/ loc'[w] = Idle
         \/ /\ loc'[w].pc = "mark" /\ loc'[w].acct = b
            /\ loc'[w].got = loc[w].got /\ loc'[w].sent = loc[w].sent
            /\ loc[w].sent \notin grants[b].valid
  BY <1>b, <1>t, RefreshRefusedDoes
<1>2. ASSUME NEW a \in Accounts, a # b PROVE CareAt(a)'
  BY <1>t, <1>h, <1>d, <1>2, HolderElsewhere DEF OtherRows, OtherPasts
<1>o. ASSUME NEW v \in Workers, v # w
      PROVE  /\ ~Holds(v, b)' /\ ~Carries(v, b)' /\ ~Carries(v, b)
             /\ ~(loc'[v].acct = b /\ loc'[v].pc \in {"refresh", "mark"})
  BY <1>t, <1>h, <1>d, <1>o, Alone
<1>w. /\ Holds(w, b)' => loc'[w].sent = loc[w].sent /\ loc'[w].got = loc[w].got
      /\ ~Carries(w, b)' /\ loc'[w].pc # "refresh"
  BY <1>d, IdleIs DEF Holds, Carries, Holding
<1>r. ~past[b].raced => /\ loc[w].sent = conn[b].refresh.n /\ loc[w].sent \notin grants[b].used
                        /\ ~past[b].dropped
                        /\ past[b].repaired => loc[w].sent \in grants[b].valid
  BY <1>h, Renewing
<1>3. IssuedAt(b)'
  BY <1>t, <1>h, <1>d, <1>o, <1>w DEF CareAt, IssuedAt
<1>4. OwnAt(b)'
  BY <1>t, <1>h, <1>d, <1>o, <1>w DEF CareAt, OwnAt, Brings
<1>5. StoredAt(b)'
  BY <1>t, <1>d, <1>o, <1>w, <1>r DEF StoredAt
<1>6. RepairAt(b)'
  <2> SUFFICES ASSUME past[b].repaired, ~past[b].raced PROVE RepairAt(b)'
    BY <1>t DEF RepairAt
  <2>1. loc'[w].pc # "mark" /\ grants'[b].valid = grants[b].valid
    BY <1>d, <1>r, IdleIs
  <2>2. conn[b].status = "active" /\ conn[b].refresh.n \in grants[b].valid
    BY <1>t, <1>r DEF CareAt, RepairAt
  <2> QED
    BY <1>t, <1>o, <1>w, <2>1, <2>2 DEF RepairAt
<1>7. DropAt(b)'
  BY <1>t, <1>r DEF CareAt, DropAt
<1> QED
  BY <1>2, <1>3, <1>4, <1>5, <1>6, <1>7 DEF CareAt

(* The worker writes what it carries, and the row has the token again that *)
(* the provider takes.                                                     *)
LEMMA CarePersist ==
    ASSUME CareInv, NEW w \in Workers, Persist(w), LockInv'
    PROVE  \A a \in Accounts : CareAt(a)'
<1>b. PICK b \in Accounts : b = loc[w].acct
  BY WorkerTyped DEF CareInv, LockInv, Local
<1>t. TypeOK /\ LockInv /\ CareAt(b) /\ UNCHANGED <<grants, owner>>
  BY DEF CareInv, LockInv, Persist
<1>h. Holds(w, b) /\ loc[w].acct = b
  BY <1>b DEF Persist, Holds, Holding
<1>d. /\ OtherWorkers(w) /\ OtherRows(b) /\ OtherPasts(b)
      /\ conn'[b].status = conn[b].status
      /\ \/ /\ loc[w].pc = "persist"
            /\ loc[w].got = NULL => conn'[b].refresh = conn[b].refresh
            /\ loc[w].got # NULL => conn'[b].refresh.n = loc[w].got
            /\ loc'[w].pc = "call" /\ loc'[w].acct = b
         \/ /\ loc[w].pc = "persist_bare" /\ conn'[b].access = conn[b].access
            /\ conn'[b].refresh = conn[b].refresh
            /\ loc'[w] = Idle
      /\ past'[b].raced = past[b].raced /\ past'[b].repaired = past[b].repaired
      /\ past'[b].dropped = past[b].dropped
  BY <1>b, <1>t, PersistDoes
<1>2. ASSUME NEW a \in Accounts, a # b PROVE CareAt(a)'
  BY <1>t, <1>h, <1>d, <1>2, HolderElsewhere DEF OtherGrants
<1>w. ~Holds(w, b)' /\ ~Carries(w, b)' /\ loc'[w].pc \notin {"refresh", "mark"}
  BY <1>d, IdleIs DEF Holds, Carries, Holding
<1>o. ASSUME NEW v \in Workers, v # w
      PROVE  /\ ~Holds(v, b)' /\ ~Carries(v, b)' /\ ~Carries(v, b)
             /\ ~(loc'[v].acct = b /\ loc'[v].pc \in {"refresh", "mark"})
  BY <1>t, <1>h, <1>d, <1>o, Alone
<1>g. Carries(w, b) <=> loc[w].pc = "persist" /\ loc[w].got # NULL
  BY <1>h DEF Carries
<1>3. IssuedAt(b)'
  BY <1>t, <1>h, <1>d, <1>o, <1>w DEF CareAt, IssuedAt
<1>4. OwnAt(b)'
  BY <1>t, <1>h, <1>d, <1>o, <1>w DEF CareAt, OwnAt, Brings
<1>5. StoredAt(b)'
  BY <1>t, <1>d, <1>g, <1>o, <1>w DEF CareAt, StoredAt
<1>6. RepairAt(b)'
  BY <1>t, <1>d, <1>g, <1>o, <1>w DEF CareAt, RepairAt
<1>7. DropAt(b)'
  <2>1. ~LockFree(b)
    BY <1>h DEF LockFree, Holds
  <2> QED
    BY <1>t, <1>d, <2>1 DEF CareAt, DropAt
<1> QED
  BY <1>2, <1>3, <1>4, <1>5, <1>6, <1>7 DEF CareAt

(* A worker marks the row, which was not repaired or lost a race. *)
LEMMA CareMarkNeedsReconnect ==
    ASSUME CareInv, NEW w \in Workers, MarkNeedsReconnect(w), LockInv'
    PROVE  \A a \in Accounts : CareAt(a)'
<1>b. PICK b \in Accounts : b = loc[w].acct
  BY WorkerTyped DEF CareInv, LockInv, Local
<1>t. TypeOK /\ LockInv /\ CareAt(b) /\ UNCHANGED <<grants, owner, past>>
  BY DEF CareInv, LockInv, MarkNeedsReconnect
<1>h. Holds(w, b) /\ loc[w].acct = b /\ loc[w].pc = "mark"
  BY <1>b DEF MarkNeedsReconnect, Holds, Holding
<1>d. /\ OtherWorkers(w) /\ OtherRows(b) /\ loc'[w] = Idle
      /\ conn'[b].status = "needs_reconnect"
      /\ conn'[b].refresh = conn[b].refresh
  BY <1>b, <1>t, MarkNeedsReconnectDoes
<1>2. ASSUME NEW a \in Accounts, a # b PROVE CareAt(a)'
  BY <1>t, <1>h, <1>d, <1>2, HolderElsewhere DEF OtherGrants, OtherPasts
<1>w. ~Holds(w, b)' /\ ~Carries(w, b)' /\ ~Carries(w, b) /\ loc'[w].pc \notin {"refresh", "mark"}
  BY <1>h, <1>d, IdleIs DEF Holds, Carries, Holding
<1>o. ASSUME NEW v \in Workers, v # w
      PROVE  /\ ~Holds(v, b)' /\ ~Carries(v, b)' /\ ~Carries(v, b)
             /\ ~(loc'[v].acct = b /\ loc'[v].pc \in {"refresh", "mark"})
  BY <1>t, <1>h, <1>d, <1>o, Alone
<1>3. IssuedAt(b)'
  BY <1>t, <1>d, <1>o, <1>w DEF CareAt, IssuedAt
<1>4. OwnAt(b)'
  BY <1>t, <1>d, <1>o, <1>w DEF CareAt, OwnAt, Brings
<1>5. StoredAt(b)'
  BY <1>t, <1>d, <1>o, <1>w DEF CareAt, StoredAt
<1>6. RepairAt(b)'
  BY <1>t, <1>h DEF CareAt, RepairAt
<1>7. DropAt(b)'
  <2>1. ~LockFree(b)
    BY <1>h DEF LockFree, Holds
  <2> QED
    BY <1>t, <1>d, <2>1 DEF CareAt, DropAt
<1> QED
  BY <1>2, <1>3, <1>4, <1>5, <1>6, <1>7 DEF CareAt

(* The steps of a worker that change nothing of this. *)
LEMMA CareOtherWork ==
    ASSUME CareInv, NEW w \in Workers, LockInv',
           \/ \E a \in Accounts : Begin(w, a)
           \/ RefreshBare(w) \/ CallProvider(w) \/ ExpireAccessToken(w)
           \/ RecordSuccess(w) \/ Crash(w)
    PROVE  \A a \in Accounts : CareAt(a)'
<1>b. PICK b \in Accounts : b = loc[w].acct
  BY WorkerTyped DEF CareInv, LockInv, Local
<1>t. TypeOK /\ LockInv /\ UNCHANGED <<grants, owner>>
  BY DEF CareInv, LockInv, Begin, RefreshBare, CallProvider, ExpireAccessToken,
         RecordSuccess, Crash
<1>d. OtherWorkers(w)
  BY <1>t, BeginDoes, RefreshBareDoes, CallProviderDoes, ExpireAccessTokenDoes,
     RecordSuccessDoes, CrashDoes
<1> SUFFICES ASSUME NEW a \in Accounts PROVE CareAt(a)'
  OBVIOUS
<1>g. GrantKept(a)
  BY <1>t DEF GrantKept
<1>r. RowKept(a)
  <2>1. CASE conn' = conn
    BY <2>1 DEF RowKept
  <2>2. CASE ExpireAccessToken(w)
    <3>1. /\ OtherRows(b) /\ conn'[b].status = conn[b].status
          /\ conn'[b].access = conn[b].access /\ conn'[b].refresh = conn[b].refresh
      BY <1>b, <1>t, <2>2, ExpireAccessTokenDoes
    <3> QED BY <3>1 DEF OtherRows, RowKept
  <2> QED
    BY <1>t, <2>1, <2>2, RecordSuccessDoes DEF Begin, RefreshBare, CallProvider, Crash
<1>p. PastKept(a) /\ (Carries(w, a) => past'[a].raced)
  <2>1. CASE Crash(w)
    <3>1. /\ OtherPasts(b)
          /\ past'[b].raced = (past[b].raced \/ (loc[w].pc = "persist" /\ loc[w].got # NULL))
          /\ past'[b].repaired = past[b].repaired /\ past'[b].dropped = past[b].dropped
      BY <1>b, <1>t, <2>1, CrashDoes
    <3>2. Carries(w, a) => a = b /\ loc[w].pc = "persist" /\ loc[w].got # NULL
      BY <1>b DEF Carries
    <3>3. CASE a = b
      BY <3>1, <3>2, <3>3 DEF PastKept
    <3>4. CASE a # b
      BY <3>1, <3>2, <3>4 DEF PastKept, OtherPasts
    <3> QED BY <3>3, <3>4
  <2>2. CASE ~Crash(w)
    <3>1. past' = past
      BY <2>2 DEF Begin, RefreshBare, CallProvider, ExpireAccessToken, RecordSuccess
    <3>2. ~Carries(w, a)
      BY <2>2 DEF Carries, Begin, RefreshBare, CallProvider, ExpireAccessToken, RecordSuccess
    <3> QED BY <3>1, <3>2 DEF PastKept
  <2> QED
    BY <2>1, <2>2
<1>h. Holds(w, a)' => /\ Holds(w, a) /\ loc'[w].pc = "persist_bare"
                      /\ loc'[w].sent = loc[w].sent /\ loc'[w].got = loc[w].got
  <2>1. CASE RefreshBare(w)
    BY <1>t, <2>1, RefreshBareDoes DEF RefreshBare, Holds, Holding
  <2>2. CASE ~RefreshBare(w)
    <3>1. loc'[w].pc \in {"idle", "get", "book", "expire"}
      BY <1>t, <2>2, BeginDoes, CallProviderDoes, ExpireAccessTokenDoes, RecordSuccessDoes,
         CrashDoes, IdleIs
    <3> QED BY <3>1 DEF Holds, Holding
  <2> QED
    BY <2>1, <2>2
<1>k. Kept(a)
  BY <1>t, <1>d, <1>g, <1>r, <1>p, <1>h, QuietWorker
<1> QED
  BY <1>k, KeptCare DEF CareInv

(* What the owner, the provider or a rotation leaves alone. *)
LEMMA KeptHands ==
    ASSUME UNCHANGED loc, NEW a \in Accounts, CareAt(a), RowKept(a), GrantKept(a),
           PastKept(a), Brings(a)' => owner' = owner
    PROVE  CareAt(a)'
<1>1. HandsKept(a)
  BY DEF HandsKept, Holds
<1> QED
  BY <1>1, KeptCare DEF Kept

LEMMA OwnerElsewhere ==
    ASSUME CareInv, UNCHANGED loc, NEW b \in Accounts,
           OtherRows(b), OtherGrants(b), OtherPasts(b),
           NEW a \in Accounts, a # b, Brings(a)' => owner' = owner
    PROVE  CareAt(a)'
<1>1. RowKept(a) /\ GrantKept(a) /\ PastKept(a)
  BY DEF OtherRows, OtherGrants, OtherPasts, RowKept, GrantKept, PastKept
<1> QED
  BY <1>1, KeptHands DEF CareInv

LEMMA SameHands ==
    ASSUME UNCHANGED loc, NEW w \in Workers, NEW a \in Accounts
    PROVE  /\ Holds(w, a)' <=> Holds(w, a)
           /\ Carries(w, a)' <=> Carries(w, a)
           /\ loc'[w] = loc[w]
BY DEF Holds, Carries

(* The token of a consent is newer than all that anyone knows. *)
LEMMA CareExchangeCode ==
    ASSUME CareInv, NEW s \in Servers, ExchangeCode(s)
    PROVE  \A a \in Accounts : CareAt(a)'
<1>b. PICK b \in Accounts : b = owner.acct
  BY DEF CareInv, LockInv, TypeOK, Owner
<1>t. TypeOK /\ CareAt(b) /\ UNCHANGED <<conn, loc, past>>
  BY DEF CareInv, LockInv, ExchangeCode
<1>d. /\ OtherGrants(b) /\ owner'.pc = "land" /\ owner'.acct = b
      /\ owner'.got \in 0..MaxTokens
      /\ grants'[b].used = grants[b].used
      /\ owner'.got = NULL => /\ grants'[b].issued = grants[b].issued
                              /\ grants'[b].valid = grants[b].valid
      /\ owner'.got # NULL => /\ owner'.got = grants[b].issued + 1
                              /\ grants'[b].issued = owner'.got
                              /\ grants'[b].valid = grants[b].valid \cup {owner'.got}
  BY <1>b, <1>t, ExchangeCodeDoes
<1>2. ASSUME NEW a \in Accounts, a # b PROVE CareAt(a)'
  <2>1. ~Brings(a)'
    BY <1>d, <1>2 DEF Brings
  <2> QED
    BY <1>t, <1>d, <1>2, <2>1, OwnerElsewhere DEF OtherRows, OtherPasts
<1>3. CASE owner'.got = NULL
  <2>1. RowKept(b) /\ GrantKept(b) /\ PastKept(b) /\ ~Brings(b)'
    BY <1>t, <1>d, <1>3 DEF RowKept, GrantKept, PastKept, Brings
  <2> QED
    BY <1>2, <1>t, <2>1, KeptHands
<1>4. CASE owner'.got # NULL
  <2>n. /\ grants[b].issued \in Nat /\ conn[b].refresh.n \in Nat /\ owner'.got \in Nat
        /\ \A v \in Workers : loc[v].sent \in Nat /\ loc[v].got \in Nat
    BY <1>t, <1>d, Numbers
  <2>s. \A v \in Workers : /\ Holds(v, b)' <=> Holds(v, b)
                           /\ Carries(v, b)' <=> Carries(v, b) /\ loc'[v] = loc[v]
    BY <1>t, SameHands
  <2>1. IssuedAt(b)'
    <3>1. 1..grants[b].issued \subseteq 1..grants'[b].issued /\ owner'.got \in 1..grants'[b].issued
      BY <1>d, <1>4, <2>n
    <3>2. grants'[b].used \subseteq 1..grants'[b].issued /\ grants'[b].valid \subseteq 1..grants'[b].issued
      BY <1>t, <1>d, <1>4, <3>1 DEF CareAt, IssuedAt
    <3>3. conn'[b].refresh.n <= grants'[b].issued
      BY <1>t, <1>d, <1>4, <2>n DEF CareAt, IssuedAt
    <3>4. ASSUME NEW v \in Workers, Holds(v, b)'
          PROVE  loc'[v].sent <= grants'[b].issued /\ loc'[v].got <= grants'[b].issued
      BY <1>t, <1>d, <1>4, <2>n, <2>s, <3>4 DEF CareAt, IssuedAt
    <3> QED BY <3>2, <3>3, <3>4 DEF IssuedAt
  <2>2. OwnAt(b)'
    <3>1. owner'.got \notin grants'[b].used /\ conn'[b].refresh.n # owner'.got
      BY <1>t, <1>d, <1>4, <2>n DEF CareAt, IssuedAt
    <3>2. ASSUME NEW v \in Workers, Holds(v, b)'
          PROVE  loc'[v].sent # owner'.got /\ loc'[v].got # owner'.got
      BY <1>t, <1>d, <1>4, <2>n, <2>s, <3>2 DEF CareAt, IssuedAt
    <3>3. owner'.got <= grants'[b].issued
      BY <1>d, <1>4, <2>n
    <3> QED BY <1>d, <3>1, <3>2, <3>3 DEF OwnAt
  <2>3. StoredAt(b)'
    BY <1>t, <1>d, <2>s DEF CareAt, StoredAt
  <2>4. RepairAt(b)'
    BY <1>t, <1>d, <1>4, <2>s DEF CareAt, RepairAt
  <2>5. DropAt(b)'
    BY <1>t DEF CareAt, DropAt, LockFree
  <2> QED
    BY <1>2, <2>1, <2>2, <2>3, <2>4, <2>5 DEF CareAt
<1> QED
  BY <1>3, <1>4

(* An authorization lands while nobody renews, or it is a race. *)
LEMMA CareLand ==
    ASSUME CareInv, Land
    PROVE  \A a \in Accounts : CareAt(a)'
<1>b. PICK b \in Accounts : b = owner.acct
  BY DEF CareInv, LockInv, TypeOK, Owner
<1>t. TypeOK /\ CareAt(b) /\ UNCHANGED <<grants, loc>>
  BY DEF CareInv, LockInv, Land
<1>d. /\ OtherRows(b) /\ OtherPasts(b) /\ owner' = NobodyThere
      /\ conn'[b].status = "active"
      /\ owner.got = NULL => conn'[b].refresh = conn[b].refresh
      /\ owner.got # NULL => conn'[b].refresh.n = owner.got
      /\ ~past'[b].raced => LockFree(b) /\ (owner.got = NULL => ~past[b].raced)
      /\ past'[b].dropped = FALSE
      /\ past'[b].repaired => \/ owner.got \in grants[b].valid
                              \/ past[b].repaired /\ owner.got = NULL
  BY <1>b, <1>t, LandDoes
<1>2. ASSUME NEW a \in Accounts, a # b PROVE CareAt(a)'
  <2>1. ~Brings(a)'
    BY <1>d, IdleIs DEF Brings
  <2> QED
    BY <1>t, <1>d, <1>2, <2>1, OwnerElsewhere DEF OtherGrants
<1>s. \A v \in Workers : /\ Holds(v, b)' <=> Holds(v, b)
                         /\ Carries(v, b)' <=> Carries(v, b) /\ loc'[v] = loc[v]
  BY <1>t, SameHands
<1>f. ~past'[b].raced =>
        \A v \in Workers : /\ ~Carries(v, b)
                           /\ ~(loc[v].acct = b /\ loc[v].pc \in {"refresh", "mark"})
  BY <1>d, Unlocked
<1>o. owner.got # NULL => owner.got <= grants[b].issued /\ owner.got \notin grants[b].used
  BY <1>b, <1>t DEF CareAt, OwnAt, Brings
<1>n. NULL \notin grants[b].valid
  BY <1>t, Numbers
<1>3. IssuedAt(b)'
  BY <1>t, <1>d, <1>s, <1>o DEF CareAt, IssuedAt
<1>4. OwnAt(b)'
  BY <1>d, IdleIs DEF OwnAt, Brings
<1>5. StoredAt(b)'
  BY <1>t, <1>d, <1>s, <1>f, <1>o DEF CareAt, StoredAt
<1>6. RepairAt(b)'
  BY <1>t, <1>d, <1>s, <1>f, <1>n DEF CareAt, RepairAt
<1>7. DropAt(b)'
  BY <1>d DEF DropAt
<1> QED
  BY <1>2, <1>3, <1>4, <1>5, <1>6, <1>7 DEF CareAt

(* A disconnect while nobody renews leaves nothing to renew. *)
LEMMA CareDisconnect ==
    ASSUME CareInv, NEW b \in Accounts, Disconnect(b)
    PROVE  \A a \in Accounts : CareAt(a)'
<1>t. TypeOK /\ CareAt(b) /\ UNCHANGED <<grants, loc, owner>>
  BY DEF CareInv, LockInv, Disconnect
<1>d. /\ OtherRows(b) /\ OtherPasts(b)
      /\ conn'[b].status = "needs_reconnect" /\ conn'[b].access = NULL
      /\ conn'[b].refresh = NoToken
      /\ past'[b].raced = ~LockFree(b)
      /\ past'[b].repaired = FALSE
  BY <1>t, DisconnectDoes
<1>2. ASSUME NEW a \in Accounts, a # b PROVE CareAt(a)'
  BY <1>t, <1>d, <1>2, OwnerElsewhere DEF OtherGrants
<1>s. \A v \in Workers : /\ Holds(v, b)' <=> Holds(v, b)
                         /\ Carries(v, b)' <=> Carries(v, b) /\ loc'[v] = loc[v]
  BY <1>t, SameHands
<1>f. ~past'[b].raced => /\ LockFree(b) /\ LockFree(b)'
                         /\ \A v \in Workers : ~(loc[v].acct = b /\ loc[v].pc \in {"refresh", "mark"})
  BY <1>t, <1>d, Unlocked DEF LockFree
<1>n. /\ conn'[b].refresh.n = NULL /\ NULL \notin grants[b].used /\ NULL = 0
      /\ grants[b].issued \in Nat
  BY <1>t, <1>d, Numbers DEF NoToken, NULL
<1>3. IssuedAt(b)'
  BY <1>t, <1>s, <1>n DEF CareAt, IssuedAt
<1>4. OwnAt(b)'
  BY <1>t, <1>s, <1>n DEF CareAt, OwnAt, Brings
<1>5. StoredAt(b)'
  BY <1>t, <1>s, <1>f, <1>n DEF CareAt, StoredAt
<1>6. RepairAt(b)'
  BY <1>d DEF RepairAt
<1>7. DropAt(b)'
  BY <1>d, <1>f DEF DropAt
<1> QED
  BY <1>2, <1>3, <1>4, <1>5, <1>6, <1>7 DEF CareAt

LEMMA CareRevoke ==
    ASSUME CareInv, NEW b \in Accounts, Revoke(b)
    PROVE  \A a \in Accounts : CareAt(a)'
<1>t. TypeOK /\ CareAt(b) /\ UNCHANGED <<conn, loc, owner>>
  BY DEF CareInv, LockInv, Revoke
<1>d. /\ OtherGrants(b) /\ OtherPasts(b)
      /\ grants'[b].issued = grants[b].issued /\ grants'[b].used = grants[b].used
      /\ grants'[b].valid = {}
      /\ past'[b].raced = past[b].raced /\ past'[b].dropped = past[b].dropped
      /\ past'[b].repaired = FALSE
  BY <1>t, RevokeDoes
<1>2. ASSUME NEW a \in Accounts, a # b PROVE CareAt(a)'
  BY <1>t, <1>d, <1>2, OwnerElsewhere DEF OtherRows
<1>s. \A v \in Workers : /\ Holds(v, b)' <=> Holds(v, b)
                         /\ Carries(v, b)' <=> Carries(v, b) /\ loc'[v] = loc[v]
  BY <1>t, SameHands
<1>3. IssuedAt(b)'
  BY <1>t, <1>d, <1>s DEF CareAt, IssuedAt
<1>4. OwnAt(b)'
  BY <1>t, <1>d, <1>s DEF CareAt, OwnAt, Brings
<1>5. StoredAt(b)'
  BY <1>t, <1>d, <1>s DEF CareAt, StoredAt
<1>6. RepairAt(b)'
  BY <1>d DEF RepairAt
<1>7. DropAt(b)'
  BY <1>t, <1>d DEF CareAt, DropAt, LockFree
<1> QED
  BY <1>2, <1>3, <1>4, <1>5, <1>6, <1>7 DEF CareAt

(* The steps of the owner, the provider and a rotation that change nothing *)
(* of this.                                                                *)
LEMMA CareOtherSteps ==
    ASSUME CareInv,
           \/ \E a \in Accounts : \/ \E s \in Servers, r \in BOOLEAN : Authorize(s, a, r)
                                  \/ AccessExpires(a) \/ Rotate(a)
           \/ \E p \in Processes : Restart(p)
           \/ AbandonAuthorization \/ AddKey \/ Report \/ DropKey \/ UNCHANGED vars
    PROVE  \A a \in Accounts : CareAt(a)'
<1>t. TypeOK /\ UNCHANGED <<grants, loc, past>>
  BY DEF CareInv, LockInv, Authorize, AccessExpires, Rotate, AbandonAuthorization, AddKey,
         Restart, Report, DropKey, vars
<1>o. owner' = owner \/ owner'.got = NULL
  BY <1>t, AuthorizeDoes, AbandonDoes, IdleIs
     DEF AccessExpires, Rotate, AddKey, Restart, Report, DropKey, vars
<1> SUFFICES ASSUME NEW a \in Accounts PROVE CareAt(a)'
  OBVIOUS
<1>r. RowKept(a)
  <2>1. CASE conn' = conn
    BY <2>1 DEF RowKept
  <2>2. ASSUME NEW b \in Accounts, AccessExpires(b) \/ Rotate(b) PROVE RowKept(a)
    <3>1. /\ OtherRows(b) /\ conn'[b].status = conn[b].status
          /\ conn[b].access = NULL => conn'[b].access = NULL
          /\ conn[b].refresh = NoToken => conn'[b].refresh = NoToken
          /\ conn'[b].refresh.n = conn[b].refresh.n
      BY <1>t, <2>2, AccessExpiresDoes, RotateDoes
    <3> QED BY <3>1 DEF OtherRows, RowKept
  <2> QED
    BY <2>1, <2>2 DEF Authorize, AbandonAuthorization, AddKey, Restart, Report, DropKey, vars
<1>k. GrantKept(a) /\ PastKept(a) /\ (Brings(a)' => owner' = owner)
  BY <1>t, <1>o DEF GrantKept, PastKept, Brings
<1> QED
  BY <1>t, <1>r, <1>k, KeptHands DEF CareInv

LEMMA CareNext == CareInv /\ [Next]_vars => CareInv'
<1> SUFFICES ASSUME CareInv, [Next]_vars PROVE CareInv'
  OBVIOUS
<1>1. LockInv'
  BY LockNext DEF CareInv
<1>2. ASSUME NEW w \in Workers, GetToken(w) \/ Work(w) \/ Crash(w) \/ \E a \in Accounts : Begin(w, a)
      PROVE  \A a \in Accounts : CareAt(a)'
  BY <1>1, <1>2, CareGetToken, CareRefreshGranted, CareRefreshRefused, CarePersist,
     CareMarkNeedsReconnect, CareOtherWork DEF Work
<1>3. ASSUME NEW b \in Accounts, Disconnect(b) \/ Revoke(b) PROVE \A a \in Accounts : CareAt(a)'
  BY <1>3, CareDisconnect, CareRevoke
<1>4. ASSUME Land \/ \E s \in Servers : ExchangeCode(s) PROVE \A a \in Accounts : CareAt(a)'
  BY <1>4, CareExchangeCode, CareLand
<1>5. \A a \in Accounts : CareAt(a)'
  BY <1>2, <1>3, <1>4, CareOtherSteps DEF Next
<1> QED
  BY <1>1, <1>5 DEF CareInv

LEMMA CareInit == Init => CareInv
<1> SUFFICES ASSUME Init PROVE CareInv
  OBVIOUS
<1>1. LockInv
  BY LockInit
<1>2. \A w \in Workers : loc[w] = Idle
  BY DEF Init
<1> SUFFICES ASSUME NEW a \in Accounts PROVE CareAt(a)
  BY <1>1 DEF CareInv
<1>3. \A w \in Workers : ~Holds(w, a) /\ ~Carries(w, a) /\ loc[w].pc = "idle"
  BY <1>2, IdleIs DEF Holds, Carries, Holding
<1>4. /\ conn[a].refresh.n = NULL /\ grants[a].issued = 0 /\ grants[a].used = {}
      /\ grants[a].valid = {} /\ owner.got = NULL /\ NULL = 0
      /\ ~past[a].raced /\ ~past[a].repaired /\ ~past[a].dropped
  BY IdleIs DEF Init, NoRow, NoToken, NULL
<1> QED
  BY <1>3, <1>4 DEF CareAt, IssuedAt, OwnAt, Brings, StoredAt, RepairAt, DropAt

(* A refresh token that the provider has superseded is never shown to it   *)
(* again, however many workers find the access token stale: get_token's    *)
(* advisory lock spans the read, the refresh and the write of the row. An  *)
(* answer that was lost and an owner acting meanwhile (raced) are apart.   *)
THEOREM StampedeCollapses == Spec => []NoReplay
<1>1. CareInv => NoReplay
  <2> SUFFICES ASSUME CareInv, NEW w \in Workers, loc[w].pc = "refresh",
                      ~past[loc[w].acct].raced
               PROVE  loc[w].sent \notin grants[loc[w].acct].used
    BY DEF NoReplay
  <2>1. loc[w].acct \in Accounts
    BY WorkerTyped DEF CareInv, LockInv, Local
  <2> QED
    BY <2>1, Renewing
<1> QED
  BY <1>1, CareInit, CareNext, PTL DEF Spec

(* A connection repaired by a forced consent stays active with a live      *)
(* refresh token, stored or in the hands of the one worker about to store  *)
(* it, until its owner ends it: mark_needs_reconnect follows only a        *)
(* refusal of the grant, and the grant of a live token is not refused.     *)
THEOREM RepairLasts == Spec => []RepairHolds
<1>1. CareInv => RepairHolds
  <2> SUFFICES ASSUME CareInv, NEW a \in Accounts, past[a].repaired, ~past[a].raced
               PROVE  /\ conn[a].status = "active"
                      /\ \/ conn[a].refresh.n \in grants[a].valid
                         \/ \E w \in Workers : /\ loc[w].acct = a /\ loc[w].pc = "persist"
                                                /\ loc[w].got \in grants[a].valid
    BY DEF RepairHolds
  <2> QED
    BY DEF CareInv, CareAt, RepairAt, Carries
<1> QED
  BY <1>1, CareInit, CareNext, PTL DEF Spec

(* What disconnect drops stays dropped until the owner authorizes again:   *)
(* nobody can renew what is not stored, mark_success leaves the status of  *)
(* a row that is not active, and a worker at the row holds its lock.       *)
THEOREM DroppedStaysDropped == Spec => []DisconnectDrops
<1>1. CareInv => DisconnectDrops
  BY DEF CareInv, CareAt, DropAt, DisconnectDrops
<1> QED
  BY <1>1, CareInit, CareNext, PTL DEF Spec

-----------------------------------------------------------------------------
(* Key rotation *)

(* The columns of a row and the version it is labelled with. A row that    *)
(* is labelled with the new key has nothing under the old one but what a   *)
(* write under the new key left there, and Google's access tokens, which   *)
(* can be had again. After an orderly report every row is.                 *)
RotAt(a) ==
    /\ ~Exists(a) => conn[a].access = NULL /\ conn[a].refresh.key = NULL
    /\ conn[a].version = 2 /\ ~past[a].patched => conn[a].refresh.key \in {NULL, 2}
    /\ conn[a].version = 2 /\ ~Gmail(a) => conn[a].access \in {NULL, 2}
    /\ report = "orderly" => ~Remains(a)

(* From an orderly report on, whoever writes does so under the new key. *)
Adopted == report = "orderly" => 2 \in keys /\ \A p \in Processes : 2 \in ring[p]

RotInv == LockInv /\ Adopted /\ \A a \in Accounts : RotAt(a)

LEMMA Columns ==
    ASSUME TypeOK, NEW a \in Accounts
    PROVE  /\ conn[a].version \in 1..2 /\ conn[a].access \in 0..2
           /\ conn[a].refresh.key \in 0..2 /\ NULL = 0
           /\ conn[a].refresh = NoToken => conn[a].refresh.key = NULL
<1>1. conn[a] \in Row
  BY RowTyped
<1>2. conn[a].refresh \in Stored
  BY <1>1 DEF Row
<1> QED
  BY <1>1, <1>2 DEF Row, Stored, NoToken, NULL

LEMMA RotKept ==
    ASSUME NEW a \in Accounts, RotAt(a), report' = report,
           conn'[a].status = conn[a].status, conn'[a].access = conn[a].access,
           conn'[a].refresh = conn[a].refresh, conn'[a].version = conn[a].version,
           past'[a].patched = past[a].patched
    PROVE  RotAt(a)'
BY DEF RotAt, Exists, Remains, Gmail

(* A write under key c that renews the access token, and the refresh token *)
(* or not.                                                                 *)
LEMMA RotWritten ==
    ASSUME TypeOK, NEW a \in Accounts, NEW c \in 1..2, report' = report,
           report = "orderly" => c = 2,
           conn'[a].status # "none", conn'[a].version = c,
           conn'[a].access = c \/ (conn'[a].access = conn[a].access /\ Gmail(a)),
           \/ conn'[a].refresh.key = c
           \/ /\ conn'[a].refresh = conn[a].refresh
              /\ ~past'[a].patched => ~Patches(conn[a], NULL, c)
    PROVE  RotAt(a)'
<1>1. Exists(a)' /\ Gmail(a)' = Gmail(a)
  BY DEF Exists, Gmail
<1>2. /\ conn[a].refresh.key \in 0..2 /\ NULL = 0
      /\ conn[a].refresh = NoToken => conn[a].refresh.key = NULL
  BY Columns
<1>3. c = 2 /\ ~past'[a].patched => conn'[a].refresh.key \in {NULL, 2}
  BY <1>2 DEF Patches
<1>4. report' = "orderly" => ~Remains(a)'
  BY DEF Remains
<1> QED
  BY <1>1, <1>3, <1>4 DEF RotAt

LEMMA RotPersist ==
    ASSUME RotInv, NEW w \in Workers, Persist(w)
    PROVE  \A a \in Accounts : RotAt(a)'
<1>b. PICK b \in Accounts : b = loc[w].acct
  BY WorkerTyped DEF RotInv, LockInv, Local
<1>t. TypeOK /\ report' = report /\ InHand(w) /\ RunsIn[w] \in Processes
  BY ConnectionsAssumption DEF RotInv, LockInv, Persist
<1>c. PICK c \in 1..2 : c = Current(RunsIn[w]) /\ (report = "orderly" => c = 2)
  BY <1>t, CurrentIsKey DEF RotInv, Adopted
<1>h. Exists(b) /\ Gmail(b) /\ (loc[w].pc = "persist_bare" => loc[w].got = NULL)
  BY <1>b, <1>t DEF Persist, InHand, Holding
<1>d. /\ OtherRows(b) /\ OtherPasts(b)
      /\ conn'[b].status = conn[b].status /\ conn'[b].version = c
      /\ \/ /\ loc[w].pc = "persist" /\ conn'[b].access = c
            /\ loc[w].got = NULL => conn'[b].refresh = conn[b].refresh
            /\ loc[w].got # NULL => conn'[b].refresh.key = c
         \/ /\ loc[w].pc = "persist_bare" /\ conn'[b].access = conn[b].access
            /\ conn'[b].refresh = conn[b].refresh
      /\ past'[b].patched = Patches(conn[b], loc[w].got, c)
  BY <1>b, <1>c, <1>t, PersistDoes
<1>1. RotAt(b)'
  <2>1. conn'[b].status # "none"
    BY <1>d, <1>h DEF Exists
  <2>2. conn'[b].access = c \/ (conn'[b].access = conn[b].access /\ Gmail(b))
    BY <1>d, <1>h
  <2>3. \/ conn'[b].refresh.key = c
        \/ /\ conn'[b].refresh = conn[b].refresh
           /\ ~past'[b].patched => ~Patches(conn[b], NULL, c)
    BY <1>d, <1>h
  <2> QED
    BY <1>c, <1>d, <1>t, <2>1, <2>2, <2>3, RotWritten
<1>2. ASSUME NEW a \in Accounts, a # b PROVE RotAt(a)'
  BY <1>d, <1>t, <1>2, RotKept DEF OtherRows, OtherPasts, RotInv
<1> QED
  BY <1>1, <1>2

LEMMA RotLand ==
    ASSUME RotInv, Land
    PROVE  \A a \in Accounts : RotAt(a)'
<1>b. PICK b \in Accounts : b = owner.acct
  BY DEF RotInv, LockInv, TypeOK, Owner
<1>t. TypeOK /\ report' = report /\ owner.at \in Processes
  BY LandDoes DEF RotInv, LockInv, Land
<1>c. PICK c \in 1..2 : c = Current(owner.at) /\ (report = "orderly" => c = 2)
  BY <1>t, CurrentIsKey DEF RotInv, Adopted
<1>d. /\ OtherRows(b) /\ OtherPasts(b)
      /\ conn'[b].status = "active" /\ conn'[b].access = c
      /\ conn'[b].version = c
      /\ owner.got = NULL => conn'[b].refresh = conn[b].refresh
      /\ owner.got # NULL => conn'[b].refresh.key = c
      /\ past'[b].patched = Patches(conn[b], owner.got, c)
  BY <1>b, <1>c, <1>t, LandDoes
<1>1. RotAt(b)'
  BY <1>c, <1>d, <1>t, RotWritten
<1>2. ASSUME NEW a \in Accounts, a # b PROVE RotAt(a)'
  BY <1>d, <1>t, <1>2, RotKept DEF OtherRows, OtherPasts, RotInv
<1> QED
  BY <1>1, <1>2

(* A disconnect, a mark and the rotation itself. *)
LEMMA RotCleared ==
    ASSUME RotInv, NEW b \in Accounts, Disconnect(b)
    PROVE  \A a \in Accounts : RotAt(a)'
<1>t. TypeOK /\ report' = report /\ RotAt(b) /\ Exists(b)
  BY DEF RotInv, LockInv, Disconnect
<1>d. /\ OtherRows(b) /\ OtherPasts(b) /\ conn'[b].status = "needs_reconnect"
      /\ conn'[b].access = NULL /\ conn'[b].refresh = NoToken
      /\ conn'[b].version = conn[b].version
  BY <1>t, DisconnectDoes
<1>1. RotAt(b)'
  <2>1. NoToken.key = NULL
    BY DEF NoToken
  <2> QED
    BY <1>t, <1>d, <2>1 DEF RotAt, Exists, Remains
<1>2. ASSUME NEW a \in Accounts, a # b PROVE RotAt(a)'
  BY <1>d, <1>t, <1>2, RotKept DEF OtherRows, OtherPasts, RotInv
<1> QED
  BY <1>1, <1>2

LEMMA RotMark ==
    ASSUME RotInv, NEW w \in Workers, MarkNeedsReconnect(w)
    PROVE  \A a \in Accounts : RotAt(a)'
<1>b. PICK b \in Accounts : b = loc[w].acct
  BY WorkerTyped DEF RotInv, LockInv, Local
<1>t. TypeOK /\ UNCHANGED <<report, past>> /\ RotAt(b) /\ InHand(w)
  BY DEF RotInv, LockInv, MarkNeedsReconnect
<1>h. Exists(b)
  BY <1>b, <1>t DEF MarkNeedsReconnect, InHand
<1>d. /\ OtherRows(b) /\ conn'[b].status = "needs_reconnect"
      /\ conn'[b].access = conn[b].access
      /\ conn'[b].refresh = conn[b].refresh /\ conn'[b].version = conn[b].version
  BY <1>b, <1>t, MarkNeedsReconnectDoes
<1>1. RotAt(b)'
  BY <1>t, <1>h, <1>d DEF RotAt, Exists, Remains, Gmail
<1>2. ASSUME NEW a \in Accounts, a # b PROVE RotAt(a)'
  BY <1>d, <1>t, <1>2, RotKept DEF OtherRows, RotInv
<1> QED
  BY <1>1, <1>2

LEMMA RotRotate ==
    ASSUME RotInv, NEW b \in Accounts, Rotate(b)
    PROVE  \A a \in Accounts : RotAt(a)'
<1>t. TypeOK /\ UNCHANGED <<report, past>> /\ Exists(b)
  BY DEF RotInv, LockInv, Rotate, Remains
<1>d. /\ OtherRows(b)
      /\ conn'[b].status = conn[b].status /\ conn'[b].version = 2
      /\ conn'[b].access = (IF conn[b].access = NULL THEN NULL ELSE 2)
      /\ conn[b].refresh = NoToken => conn'[b].refresh = NoToken
      /\ conn[b].refresh # NoToken => conn'[b].refresh.key = 2
  BY <1>t, RotateDoes
<1>1. RotAt(b)'
  <2>1. NoToken.key = NULL
    BY DEF NoToken
  <2>2. conn'[b].refresh.key \in {NULL, 2} /\ conn'[b].access \in {NULL, 2}
    BY <1>d, <2>1
  <2> QED
    BY <1>t, <1>d, <2>2 DEF RotAt, Exists, Remains
<1>2. ASSUME NEW a \in Accounts, a # b PROVE RotAt(a)'
  BY <1>d, <1>t, <1>2, RotKept DEF OtherRows, RotInv
<1> QED
  BY <1>1, <1>2

(* A key comes or goes, a process is replaced, or the script reports: an   *)
(* orderly report has counted every row.                                   *)
LEMMA RotKeys ==
    ASSUME RotInv, AddKey \/ Report \/ DropKey \/ \E p \in Processes : Restart(p)
    PROVE  \A a \in Accounts : RotAt(a)'
<1> SUFFICES ASSUME NEW a \in Accounts PROVE RotAt(a)'
  OBVIOUS
<1>t. TypeOK /\ UNCHANGED <<conn, past>> /\ RotAt(a)
  BY KeysDo DEF RotInv, LockInv
<1>1. report' = "orderly" => ~Remains(a)
  BY <1>t DEF AddKey, Report, DropKey, Restart, RotAt
<1> QED
  BY <1>t, <1>1 DEF RotAt, Exists, Remains, Gmail

(* Processes that have read the new key keep it, and the new key is never  *)
(* taken off the mount.                                                    *)
LEMMA RotAdopted ==
    ASSUME RotInv, [Next]_vars
    PROVE  Adopted'
<1>t. Adopted /\ ring \in [Processes -> Keyrings]
  BY DEF RotInv, LockInv, TypeOK
<1>1. ASSUME NEW p \in Processes, Restart(p) PROVE Adopted'
  <2>1. ring' = [ring EXCEPT ![p] = keys] /\ UNCHANGED <<keys, report>>
    BY <1>1 DEF Restart
  <2>2. \A q \in Processes : ring'[q] = IF q = p THEN keys ELSE ring[q]
    BY <1>t, <2>1
  <2> QED
    BY <1>t, <2>1, <2>2 DEF Adopted
<1>2. CASE AddKey \/ Report \/ DropKey
  BY <1>t, <1>2 DEF AddKey, Report, DropKey, Adopted
<1>3. CASE UNCHANGED <<keys, ring, report>>
  BY <1>t, <1>3 DEF Adopted
<1> QED
  BY <1>1, <1>2, <1>3
     DEF Next, Work, Begin, GetToken, RefreshGranted, RefreshBare, RefreshRefused,
         Persist, MarkNeedsReconnect, CallProvider, ExpireAccessToken, RecordSuccess, Crash,
         Authorize, Disconnect, Revoke, AccessExpires, Rotate, ExchangeCode,
         AbandonAuthorization, Land, vars

(* The steps that write nothing under a key. *)
LEMMA RotOtherSteps ==
    ASSUME RotInv, report' = report,
           \/ \E w \in Workers :
                \/ \E a \in Accounts : Begin(w, a)
                \/ GetToken(w) \/ RefreshGranted(w) \/ RefreshBare(w)
                \/ \E c \in Codes : RefreshRefused(w, c)
                \/ CallProvider(w) \/ ExpireAccessToken(w) \/ RecordSuccess(w) \/ Crash(w)
           \/ \E a \in Accounts :
                \/ \E s \in Servers, r \in BOOLEAN : Authorize(s, a, r)
                \/ Revoke(a) \/ AccessExpires(a)
           \/ \E s \in Servers : ExchangeCode(s)
           \/ AbandonAuthorization \/ UNCHANGED vars
    PROVE  \A a \in Accounts : RotAt(a)'
<1> SUFFICES ASSUME NEW a \in Accounts PROVE RotAt(a)'
  OBVIOUS
<1>t. TypeOK /\ RotAt(a)
  BY DEF RotInv, LockInv
<1>1. past'[a].patched = past[a].patched
  <2>1. ASSUME NEW w \in Workers, RefreshGranted(w) \/ Crash(w)
        PROVE  past'[a].patched = past[a].patched
    <3>1. OtherPasts(loc[w].acct) /\ past'[loc[w].acct].patched = past[loc[w].acct].patched
      BY <1>t, <2>1, RefreshGrantedDoes, CrashDoes
    <3> QED BY <3>1 DEF OtherPasts
  <2>2. ASSUME NEW b \in Accounts, Revoke(b) PROVE past'[a].patched = past[a].patched
    BY <1>t, <2>2, RevokeDoes DEF OtherPasts
  <2>3. CASE past' = past
    BY <2>3
  <2> QED
    BY <2>1, <2>2, <2>3
       DEF Begin, GetToken, RefreshBare, RefreshRefused, CallProvider, ExpireAccessToken,
           RecordSuccess, Authorize, AccessExpires, ExchangeCode, AbandonAuthorization, vars
<1>2. /\ conn'[a].status = conn[a].status /\ conn'[a].access = conn[a].access
      /\ conn'[a].refresh = conn[a].refresh /\ conn'[a].version = conn[a].version
  <2>1. ASSUME NEW b \in Accounts, OtherRows(b),
               conn'[b].status = conn[b].status, conn'[b].access = conn[b].access,
               conn'[b].refresh = conn[b].refresh, conn'[b].version = conn[b].version
        PROVE  /\ conn'[a].status = conn[a].status /\ conn'[a].access = conn[a].access
               /\ conn'[a].refresh = conn[a].refresh /\ conn'[a].version = conn[a].version
    BY <2>1 DEF OtherRows
  <2>2. ASSUME NEW w \in Workers, ExpireAccessToken(w)
        PROVE  /\ conn'[a].status = conn[a].status /\ conn'[a].access = conn[a].access
               /\ conn'[a].refresh = conn[a].refresh /\ conn'[a].version = conn[a].version
    <3>1. loc[w].acct \in Accounts
      BY <1>t, WorkerTyped DEF Local
    <3> QED BY <1>t, <2>1, <2>2, <3>1, ExpireAccessTokenDoes
  <2>3. ASSUME NEW b \in Accounts, AccessExpires(b)
        PROVE  /\ conn'[a].status = conn[a].status /\ conn'[a].access = conn[a].access
               /\ conn'[a].refresh = conn[a].refresh /\ conn'[a].version = conn[a].version
    BY <1>t, <2>1, <2>3, AccessExpiresDoes
  <2>4. CASE conn' = conn
    BY <2>4
  <2>5. ASSUME NEW w \in Workers, RecordSuccess(w) PROVE conn' = conn
    BY <1>t, <2>5, RecordSuccessDoes
  <2> QED
    BY <2>2, <2>3, <2>4, <2>5
       DEF Begin, GetToken, RefreshGranted, RefreshBare, RefreshRefused, CallProvider, Crash,
           Authorize, Revoke, ExchangeCode, AbandonAuthorization, vars
<1> QED
  BY <1>t, <1>1, <1>2, RotKept

LEMMA RotNext == RotInv /\ [Next]_vars => RotInv'
<1> SUFFICES ASSUME RotInv, [Next]_vars PROVE RotInv'
  OBVIOUS
<1>1. LockInv' /\ Adopted'
  BY LockNext, RotAdopted DEF RotInv
<1>2. CASE AddKey \/ Report \/ DropKey \/ \E p \in Processes : Restart(p)
  BY <1>1, <1>2, RotKeys DEF RotInv
<1>3. CASE ~(AddKey \/ Report \/ DropKey \/ \E p \in Processes : Restart(p))
  <2>1. report' = report
    BY <1>3 DEF Next, Work, Begin, GetToken, RefreshGranted, RefreshBare, RefreshRefused,
       Persist, MarkNeedsReconnect, CallProvider, ExpireAccessToken, RecordSuccess, Crash,
       Authorize, Disconnect, Revoke, AccessExpires, Rotate, ExchangeCode,
       AbandonAuthorization, Land, vars
  <2>2. \A a \in Accounts : RotAt(a)'
    BY <1>3, <2>1, RotPersist, RotLand, RotCleared, RotMark, RotRotate, RotOtherSteps
       DEF Next, Work
  <2> QED
    BY <1>1, <2>2 DEF RotInv
<1> QED
  BY <1>2, <1>3

LEMMA RotInit == Init => RotInv
<1> SUFFICES ASSUME Init PROVE Adopted /\ \A a \in Accounts : RotAt(a)
  BY LockInit DEF RotInv
<1>1. report = "none"
  BY DEF Init
<1>2. ASSUME NEW a \in Accounts PROVE RotAt(a)
  <2>1. /\ conn[a].status = "none" /\ conn[a].access = NULL /\ conn[a].refresh.key = NULL
        /\ conn[a].version = 1
    BY DEF Init, NoRow, NoToken
  <2> QED
    BY <1>1, <2>1 DEF RotAt, Exists
<1> QED
  BY <1>1, <1>2 DEF Adopted

(* When rotate_keys reports that no row remains, at a moment when it       *)
(* skipped none and every process had been restarted with the new key,     *)
(* then the old key can be dropped at any time: every token that cannot be *)
(* fetched again goes on decrypting under what is mounted, whatever is     *)
(* written before and after. Excepted are the refresh tokens that a write  *)
(* under the new key left under the old one while it labelled the row with *)
(* the new. The report alone, which cannot see a locked row or an old      *)
(* process, guarantees nothing.                                            *)
THEOREM RotationLosesNothing == Spec => []RotationKeeps
<1>1. RotInv => RotationKeeps
  <2> SUFFICES ASSUME RotInv, report = "orderly", NEW a \in Accounts
               PROVE  /\ ~past[a].patched => conn[a].refresh.key \in keys \cup {NULL}
                      /\ ~Gmail(a) => conn[a].access \in keys \cup {NULL}
    BY DEF RotationKeeps
  <2>1. TypeOK /\ RotAt(a) /\ 2 \in keys
    BY DEF RotInv, LockInv, Adopted
  <2>2. conn[a].version \in 1..2
    BY <2>1, Columns
  <2>3. Exists(a) => conn[a].version = 2
    BY <2>1, <2>2 DEF RotAt, Remains
  <2> QED
    BY <2>1, <2>3 DEF RotAt
<1> QED
  BY <1>1, RotInit, RotNext, PTL DEF Spec

-----------------------------------------------------------------------------
(* Consent *)

(* The one Google account of the user. *)
Sole(a) == Gmail(a) /\ \A b \in Accounts \ {a} : Gmail(b) => ~Exists(b)

(* An authorization of it that does not force consent was begun with a     *)
(* refresh token in the row, and one that does brings one.                 *)
ConsentAt(a) ==
    owner.pc # "idle" /\ owner.acct = a /\ Sole(a)
      => IF owner.forced THEN owner.pc = "land" => owner.got # NULL
         ELSE past[a].dropped \/ conn[a].refresh # NoToken

RenewableAt(a) ==
    Sole(a) /\ conn[a].status = "active" /\ ~past[a].raced => conn[a].refresh # NoToken

RenewInv == LockInv /\ \A a \in Accounts : RenewableAt(a) /\ ConsentAt(a)

LEMMA StaysSole ==
    ASSUME TypeOK, [Next]_vars, NEW a \in Accounts, Sole(a)'
    PROVE  Sole(a)
BY RowsStay DEF Sole, Gmail

LEMMA RenewKept ==
    ASSUME RenewInv, [Next]_vars, NEW a \in Accounts,
           conn'[a].status = "active" => conn[a].status = "active",
           conn[a].refresh # NoToken => conn'[a].refresh # NoToken,
           past[a].raced => past'[a].raced, past[a].dropped => past'[a].dropped
    PROVE  /\ RenewableAt(a)'
           /\ owner' = owner \/ owner'.pc = "idle" => ConsentAt(a)'
<1>1. RenewableAt(a) /\ ConsentAt(a) /\ (Sole(a)' => Sole(a))
  BY StaysSole DEF RenewInv, LockInv
<1> QED
  BY <1>1 DEF RenewableAt, ConsentAt

(* Consent is not forced only if the row that decides holds a token, and   *)
(* that is the row of the one account.                                     *)
LEMMA RenewAuthorize ==
    ASSUME RenewInv, [Next]_vars, NEW s \in Servers, NEW b \in Accounts, NEW r \in BOOLEAN,
           Authorize(s, b, r),
           NEW a \in Accounts
    PROVE  RenewableAt(a)' /\ ConsentAt(a)'
<1>t. TypeOK /\ UNCHANGED <<conn, past>>
  BY DEF RenewInv, LockInv, Authorize
<1>1. RenewableAt(a)'
  BY <1>t, RenewKept
<1>2. /\ owner'.pc = "consent" /\ owner'.acct = b
      /\ owner'.forced = ShouldForceConsent(ProviderOf[b], r)
  BY <1>t, AuthorizeDoes
<1>3. CASE a # b
  BY <1>1, <1>2, <1>3 DEF ConsentAt
<1>4. CASE a = b
  <2> SUFFICES ASSUME Sole(a), ~owner'.forced PROVE conn[a].refresh # NoToken
    BY <1>t, <1>1, <1>2, <1>4 DEF ConsentAt, Sole, Exists, Gmail
  <2>1. ProviderOf[a] = "gmail" /\ ~ShouldForceConsent("gmail", r)
    BY <1>2, <1>4 DEF Sole, Gmail
  <2>2. PICK x \in ActiveFor("gmail") : conn[x].refresh # NoToken
    BY <2>1 DEF ShouldForceConsent
  <2>3. x \in Accounts /\ Gmail(x) /\ Exists(x)
    BY <2>2 DEF ActiveFor, Gmail, Exists
  <2> QED
    BY <2>2, <2>3 DEF Sole
<1> QED
  BY <1>3, <1>4

(* A forced consent brings a token. *)
LEMMA RenewExchangeCode ==
    ASSUME RenewInv, [Next]_vars, NEW s \in Servers, ExchangeCode(s), NEW a \in Accounts
    PROVE  RenewableAt(a)' /\ ConsentAt(a)'
<1>t. TypeOK /\ UNCHANGED <<conn, past>> /\ owner.pc # "idle" /\ ConsentAt(a)
  BY DEF RenewInv, LockInv, ExchangeCode
<1>1. RenewableAt(a)'
  BY <1>t, RenewKept
<1>2. /\ owner'.acct = owner.acct /\ owner'.forced = owner.forced
      /\ Gmail(owner.acct) /\ owner.forced => owner'.got # NULL
  BY <1>t, ExchangeCodeDoes
<1>3. Sole(a)' => Sole(a) /\ Gmail(a)
  BY <1>t, StaysSole DEF Sole
<1> QED
  BY <1>t, <1>1, <1>2, <1>3 DEF ConsentAt

(* What lands leaves a token in the row, or follows a disconnect. *)
LEMMA RenewLand ==
    ASSUME RenewInv, [Next]_vars, Land, NEW a \in Accounts
    PROVE  RenewableAt(a)' /\ ConsentAt(a)'
<1>b. PICK b \in Accounts : b = owner.acct
  BY DEF RenewInv, LockInv, TypeOK, Owner
<1>t. TypeOK /\ owner.pc = "land" /\ ConsentAt(b)
  BY DEF RenewInv, LockInv, Land
<1>d. /\ OtherRows(b) /\ OtherPasts(b) /\ owner' = NobodyThere
      /\ owner.got = NULL => conn'[b].refresh = conn[b].refresh
      /\ owner.got # NULL => conn'[b].refresh # NoToken
      /\ past[b].dropped /\ ~owner.forced => past'[b].raced
  BY <1>b, <1>t, LandDoes
<1>1. ConsentAt(a)'
  BY <1>d, IdleIs DEF ConsentAt
<1>2. CASE a # b
  <2>1. RenewableAt(a)'
    BY <1>d, <1>2, RenewKept DEF OtherRows, OtherPasts
  <2> QED
    BY <1>1, <2>1
<1>3. CASE a = b
  <2>1. Sole(b)' => Sole(b)
    BY <1>t, StaysSole
  <2>2. Sole(b) /\ ~past'[b].raced => conn'[b].refresh # NoToken
    BY <1>b, <1>t, <1>d DEF ConsentAt
  <2> QED
    BY <1>1, <1>3, <2>1, <2>2 DEF RenewableAt
<1> QED
  BY <1>2, <1>3

LEMMA RenewDisconnect ==
    ASSUME RenewInv, [Next]_vars, NEW b \in Accounts, Disconnect(b), NEW a \in Accounts
    PROVE  RenewableAt(a)' /\ ConsentAt(a)'
<1>t. TypeOK /\ owner' = owner /\ ConsentAt(a)
  BY DEF RenewInv, LockInv, Disconnect
<1>d. /\ OtherRows(b) /\ OtherPasts(b) /\ conn'[b].status = "needs_reconnect"
      /\ past'[b].dropped = TRUE
  BY <1>t, DisconnectDoes
<1>1. CASE a # b
  BY <1>t, <1>d, <1>1, RenewKept DEF OtherRows, OtherPasts
<1>2. CASE a = b
  <2>1. Sole(a)' => Sole(a)
    BY <1>t, StaysSole
  <2> QED
    BY <1>t, <1>d, <1>2, <2>1 DEF RenewableAt, ConsentAt
<1> QED
  BY <1>1, <1>2

(* The rest never activates a row nor empties one. *)
LEMMA RenewOtherSteps ==
    ASSUME RenewInv, [Next]_vars, NEW a \in Accounts, owner' = owner \/ owner'.pc = "idle",
           ~Land, \A b \in Accounts : ~Disconnect(b)
    PROVE  RenewableAt(a)' /\ ConsentAt(a)'
<1>t. TypeOK
  BY DEF RenewInv, LockInv
<1>1. /\ conn'[a].status = "active" => conn[a].status = "active"
      /\ conn[a].refresh # NoToken => conn'[a].refresh # NoToken
  <2>1. ASSUME NEW w \in Workers, Persist(w) \/ MarkNeedsReconnect(w) \/ ExpireAccessToken(w)
        PROVE  /\ conn'[a].status = "active" => conn[a].status = "active"
               /\ conn[a].refresh # NoToken => conn'[a].refresh # NoToken
    <3>b. PICK b \in Accounts : b = loc[w].acct
      BY <1>t, WorkerTyped DEF Local
    <3>1. /\ OtherRows(b) /\ conn'[b].status \in {conn[b].status, "needs_reconnect"}
          /\ conn'[b].refresh = conn[b].refresh \/ conn'[b].refresh # NoToken
      BY <1>t, <2>1, <3>b, PersistDoes, MarkNeedsReconnectDoes, ExpireAccessTokenDoes
    <3> QED BY <3>1 DEF OtherRows
  <2>2. ASSUME NEW w \in Workers, RecordSuccess(w) PROVE conn' = conn
    BY <1>t, <2>2, RecordSuccessDoes
  <2>3. ASSUME NEW b \in Accounts, AccessExpires(b) \/ Rotate(b)
        PROVE  /\ conn'[a].status = "active" => conn[a].status = "active"
               /\ conn[a].refresh # NoToken => conn'[a].refresh # NoToken
    <3>1. /\ OtherRows(b) /\ conn'[b].status = conn[b].status
          /\ conn[b].refresh # NoToken => conn'[b].refresh # NoToken
      BY <1>t, <2>3, AccessExpiresDoes, RotateDoes
    <3> QED BY <3>1 DEF OtherRows
  <2>4. CASE conn' = conn
    BY <2>4
  <2> QED
    BY <2>1, <2>2, <2>3, <2>4
       DEF Next, Work, Begin, GetToken, RefreshGranted, RefreshBare, RefreshRefused,
           CallProvider, Crash, Authorize, ExchangeCode, AbandonAuthorization, Revoke,
           AddKey, Restart, Report, DropKey, vars
<1>2. /\ past[a].raced => past'[a].raced
      /\ past[a].dropped => past'[a].dropped
  <2>1. ASSUME NEW w \in Workers, RefreshGranted(w) \/ Persist(w) \/ Crash(w)
        PROVE  /\ past[a].raced => past'[a].raced
               /\ past[a].dropped => past'[a].dropped
    <3>b. PICK b \in Accounts : b = loc[w].acct
      BY <1>t, WorkerTyped DEF Local
    <3>1. /\ OtherPasts(b) /\ (past[b].raced => past'[b].raced)
          /\ past'[b].dropped = past[b].dropped
      BY <1>t, <2>1, <3>b, RefreshGrantedDoes, PersistDoes, CrashDoes
    <3> QED BY <3>1 DEF OtherPasts
  <2>2. ASSUME NEW b \in Accounts, Revoke(b)
        PROVE  /\ past[a].raced => past'[a].raced
               /\ past[a].dropped => past'[a].dropped
    BY <1>t, <2>2, RevokeDoes DEF OtherPasts
  <2>3. CASE past' = past
    BY <2>3
  <2> QED
    BY <2>1, <2>2, <2>3
       DEF Next, Work, Begin, GetToken, RefreshBare, RefreshRefused, MarkNeedsReconnect,
           CallProvider, ExpireAccessToken, RecordSuccess, Authorize, ExchangeCode,
           AbandonAuthorization, AccessExpires, Rotate, AddKey, Restart, Report, DropKey, vars
<1> QED
  BY <1>1, <1>2, RenewKept

LEMMA RenewNext == RenewInv /\ [Next]_vars => RenewInv'
<1> SUFFICES ASSUME RenewInv, [Next]_vars PROVE RenewInv'
  OBVIOUS
<1>1. LockInv'
  BY LockNext DEF RenewInv
<1>2. ASSUME NEW a \in Accounts PROVE RenewableAt(a)' /\ ConsentAt(a)'
  <2>1. ASSUME NEW s \in Servers, NEW b \in Accounts, NEW r \in BOOLEAN, Authorize(s, b, r)
        PROVE  RenewableAt(a)' /\ ConsentAt(a)'
    BY <2>1, RenewAuthorize
  <2>2. CASE Land \/ \E s \in Servers : ExchangeCode(s)
    BY <2>2, RenewExchangeCode, RenewLand
  <2>3. ASSUME NEW b \in Accounts, Disconnect(b) PROVE RenewableAt(a)' /\ ConsentAt(a)'
    BY <2>3, RenewDisconnect
  <2>4. CASE /\ ~Land /\ \A s \in Servers : ~ExchangeCode(s)
             /\ \A b \in Accounts :
                  ~Disconnect(b) /\ \A s \in Servers, r \in BOOLEAN : ~Authorize(s, b, r)
    <3>1. owner' = owner \/ owner'.pc = "idle"
      BY <2>4, IdleIs DEF Next, Work, Begin, GetToken, RefreshGranted, RefreshBare,
         RefreshRefused, Persist, MarkNeedsReconnect, CallProvider, ExpireAccessToken,
         RecordSuccess, Crash, AbandonAuthorization, Revoke, AccessExpires, Rotate, AddKey,
         Restart, Report, DropKey, vars
    <3> QED BY <2>4, <3>1, RenewOtherSteps
  <2> QED
    BY <2>1, <2>2, <2>3, <2>4
<1> QED
  BY <1>1, <1>2 DEF RenewInv

LEMMA RenewInit == Init => RenewInv
<1> SUFFICES ASSUME Init, NEW a \in Accounts PROVE RenewableAt(a) /\ ConsentAt(a)
  BY LockInit DEF RenewInv
<1>1. conn[a].status = "none" /\ owner.pc = "idle"
  BY IdleIs DEF Init, NoRow
<1> QED
  BY <1>1 DEF RenewableAt, ConsentAt

(* The user of one Google account, shown as connected, holds a refresh     *)
(* token: _should_force_consent skips the forced consent only when the     *)
(* row it looks at has one, and only a disconnect could have taken it      *)
(* before the authorization landed.                                        *)
THEOREM ActiveCanRenew == Spec => []ActiveRenewable
<1>1. RenewInv => ActiveRenewable
  BY DEF RenewInv, RenewableAt, Sole, ActiveRenewable
<1> QED
  BY <1>1, RenewInit, RenewNext, PTL DEF Spec
=============================================================================
