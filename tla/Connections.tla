----------------------------- MODULE Connections -----------------------------
(***************************************************************************)
(* The connections of one user: the rows with their encrypted tokens, the  *)
(* workers that fetch an access token at the moment of use and climb the   *)
(* 401 ladder with it, the owner who authorizes, disconnects and revokes,  *)
(* the provider's side of the grants, and the rotation of the key that the *)
(* tokens are encrypted under.                                             *)
(*                                                                         *)
(* get_token holds pg_advisory_xact_lock(connection_id) over its read, the *)
(* refresh and the write; nobody else takes that lock. Every other         *)
(* statement is a transaction of its own, and each transaction and each    *)
(* provider call is an action. A stored access token is known by the key   *)
(* it is encrypted under (Slack's bot and user tokens count as one), a     *)
(* refresh token also by its number, in the order they were issued.        *)
(*                                                                         *)
(* The keyring is a file mounted into every process, which reads it once   *)
(* and keeps what it read until it is replaced: processes that started     *)
(* before a key was added go on encrypting and verifying under the old one.*)
(***************************************************************************)
EXTENDS Integers, Sequences

CONSTANTS
    Processes,     \* the processes of the program
    Servers,       \* those that answer the owner's requests
    Workers,       \* executions that call a provider for the user
    RunsIn,        \* the process of each
    Accounts,      \* provider accounts, the natural keys of the rows
    ProviderOf,    \* "gmail" or "slack"
    MaxTokens,     \* bound: refresh tokens issued to an account
    MaxRows        \* bound: accounts connected

ASSUME ConnectionsAssumption ==
    /\ Accounts # {} /\ ProviderOf \in [Accounts -> {"gmail", "slack"}]
    /\ MaxTokens \in Nat /\ MaxRows \in Nat
    /\ Servers \subseteq Processes /\ Servers # {} /\ RunsIn \in [Workers -> Processes]

VARIABLES
    conn,    \* the connections rows
    order,   \* the real accounts, in the order their rows were inserted
    keys,    \* the key versions in the keyring, as it is mounted now
    ring,    \* the keyring that each process has read
    report,  \* what rotate_keys has last said of the rows that remain
    grants,  \* the refresh tokens of each account, as the provider knows them
    loc,     \* local state of each worker
    owner,   \* the authorization under way in the owner's browser
    past     \* history, by which the properties are delimited

vars == <<conn, order, keys, ring, report, grants, loc, owner, past>>

NULL == 0   \* a column IS NULL
Tokens == 1..MaxTokens

Stored == [n: 0..MaxTokens, key: 0..2]
Row == [status: {"none", "active", "needs_reconnect"}, access: 0..2, refresh: Stored,
        fresh: BOOLEAN, version: 1..2]
Grants == [issued: 0..MaxTokens, valid: SUBSET Tokens, used: SUBSET Tokens,
           consented: BOOLEAN]
Holding == {"refresh", "persist", "persist_bare", "mark"}
Local == [pc: {"idle", "get", "call", "expire", "book"} \cup Holding, acct: Accounts,
          retried: BOOLEAN, sent: 0..MaxTokens, got: 0..MaxTokens]
Owner == [pc: {"idle", "consent", "land"}, acct: Accounts, forced: BOOLEAN,
          signed: 1..2, at: Servers \cup {NULL}, got: 0..MaxTokens]
Keyrings == {{1}, {1, 2}, {2}}
(* "rushed" and "orderly" both say that no row remains; orderly, when none *)
(* was skipped and every process had read the new key by then.             *)
Reports == {"none", "rushed", "orderly"}
(* raced: the owner acted while a worker was refreshing or an earlier      *)
(*    authorization of his was under way, or the answer that carried a     *)
(*    new refresh token was lost;                                          *)
(* patched: a refresh or a login labelled the row with a newer key than    *)
(*    that of the refresh token it left there;                             *)
(* repaired: a forced consent has landed and the owner has let it be;      *)
(* dropped: the owner has disconnected the account.                        *)
Past == [raced: BOOLEAN, patched: BOOLEAN, repaired: BOOLEAN, dropped: BOOLEAN]

(* A token column holds a ciphertext with its key version, or NULL. *)
TypeOK ==
    /\ conn \in [Accounts -> Row]
    /\ \A a \in Accounts : conn[a].refresh.n = NULL <=> conn[a].refresh.key = NULL
    /\ order \in Seq(Accounts)
    /\ keys \in Keyrings /\ ring \in [Processes -> Keyrings] /\ report \in Reports
    /\ grants \in [Accounts -> Grants]
    /\ loc \in [Workers -> Local]
    /\ owner \in Owner /\ (owner.pc = "land" => owner.at \in Servers)
    /\ past \in [Accounts -> Past]

NoToken == [n |-> NULL, key |-> NULL]
NoRow == [status |-> "none", access |-> NULL, refresh |-> NoToken, fresh |-> FALSE,
          version |-> 1]
Idle == [pc |-> "idle", acct |-> CHOOSE a \in Accounts : TRUE, retried |-> FALSE,
         sent |-> NULL, got |-> NULL]
NobodyThere == [pc |-> "idle", acct |-> CHOOSE a \in Accounts : TRUE,
                forced |-> FALSE, signed |-> 1, at |-> NULL, got |-> NULL]

Init ==
    /\ conn = [a \in Accounts |-> NoRow]
    /\ order = <<>>
    /\ keys = {1} /\ ring = [p \in Processes |-> {1}] /\ report = "none"
    /\ grants = [a \in Accounts |-> [issued |-> 0, valid |-> {}, used |-> {},
                                     consented |-> FALSE]]
    /\ loc = [w \in Workers |-> Idle]
    /\ owner = NobodyThere
    /\ past = [a \in Accounts |-> [raced |-> FALSE, patched |-> FALSE,
                                   repaired |-> FALSE, dropped |-> FALSE]]

Gmail(a) == ProviderOf[a] = "gmail"
Exists(a) == conn[a].status # "none"
Become(w, l) == loc' = [loc EXCEPT ![w] = l]

-----------------------------------------------------------------------------
(* The store *)

(* parse_keyring: the highest version that process p has read encrypts. *)
Current(p) == IF 2 \in ring[p] THEN 2 ELSE 1

(* Mutant: a token the response omits is cleared. *)
Overwrite(row, n, c) ==
    [row EXCEPT !.access = c, !.fresh = TRUE, !.version = c,
                !.refresh = IF n = NULL THEN NoToken ELSE [n |-> n, key |-> c]]

(* persist_tokens under key c of an access token, and of refresh token n   *)
(* if there is one: what the response omits is kept. The version is        *)
(* written always.                                                         *)
PersistTokens(row, n, c) ==
    [row EXCEPT !.access = c, !.fresh = TRUE, !.version = c,
                !.refresh = IF n = NULL THEN @ ELSE [n |-> n, key |-> c]]

(* A write under key c that leaves an older refresh token as it was. *)
Patches(row, n, c) == n = NULL /\ row.refresh # NoToken /\ row.refresh.key < c

(* ORDER BY id *)
Older(a, b) == \E i, j \in DOMAIN order : i <= j /\ order[i] = a /\ order[j] = b

(* active_for: the user's first active row of the provider, if any. *)
ActiveFor(p) ==
    LET active == {a \in Accounts : ProviderOf[a] = p /\ conn[a].status = "active"}
    IN {a \in active : \A b \in active : Older(a, b)}

(* by_natural_key and upsert, which insert or update the row of account a. *)
Upsert(a, n, c) ==
    /\ conn' = [conn EXCEPT ![a] = PersistTokens([@ EXCEPT !.status = "active"], n, c)]
    /\ order' = IF Exists(a) THEN order ELSE Append(order, a)

Disconnected(row) ==
    [row EXCEPT !.access = NULL, !.refresh = NoToken, !.fresh = FALSE,
                !.status = "needs_reconnect"]

-----------------------------------------------------------------------------
(* A worker: get_token, the call, and the 401 ladder *)

(* Mutant: the refresh is not serialized. *)
Unserialized(a) == TRUE

(* pg_advisory_xact_lock(connection_id) is free. *)
LockFree(a) == \A w \in Workers : loc[w].acct = a => loc[w].pc \notin Holding

Begin(w, a) ==
    /\ loc[w].pc = "idle" /\ Exists(a)
    /\ Become(w, [Idle EXCEPT !.pc = "get", !.acct = a])
    /\ UNCHANGED <<conn, order, keys, ring, report, grants, owner, past>>

(* An access token that cannot be decrypted is a cache miss, a refresh     *)
(* token that cannot is an error.                                          *)
Opens(keyring, ciphertext) == ciphertext \in keyring

(* What get_token does with the row it reads under the lock: return the    *)
(* stored access token, refresh, or raise.                                 *)
Decision(row, gmail, keyring) ==
    IF Opens(keyring, row.access) /\ (row.fresh \/ ~gmail) THEN "call"
    ELSE IF gmail /\ Opens(keyring, row.refresh.key) THEN "refresh"
    ELSE "idle"

GetToken(w) ==
    LET l == loc[w]
        row == conn[l.acct]
        next == Decision(row, Gmail(l.acct), ring[RunsIn[w]])
    IN /\ l.pc = "get" /\ LockFree(l.acct)
       /\ IF next = "idle" THEN Become(w, Idle)
          ELSE Become(w, [l EXCEPT !.pc = next, !.sent =
                            IF next = "refresh" THEN row.refresh.n ELSE NULL])
       /\ UNCHANGED <<conn, order, keys, ring, report, grants, owner, past>>

(* Mutant: our own misconfiguration is taken for a revoked grant. *)
BlamesOwner(code) ==
    IF code \in {"invalid_grant", "invalid_client"} THEN "needs_reconnect" ELSE "transient"

(* classify of what the token endpoint may answer. *)
RefreshClass(code) ==
    CASE code = "invalid_grant"  -> "needs_reconnect"
      [] code = "invalid_client" -> "config"
      [] OTHER                   -> "transient"

(* refresh_access_token. A provider may hand out a new refresh token in    *)
(* place of the one it was shown; shown that one again, it takes the grant *)
(* for stolen and revokes it. The answer may be lost on its way.           *)
RefreshGranted(w) ==
    LET l == loc[w]
        g == grants[l.acct]
    IN /\ l.pc = "refresh" /\ l.sent \in g.valid
       /\ \E new \in {NULL, g.issued + 1} :
            /\ new <= MaxTokens
            /\ grants' = IF new = NULL THEN grants
                         ELSE [grants EXCEPT ![l.acct] =
                                 [g EXCEPT !.issued = new, !.used = @ \cup {l.sent},
                                           !.valid = (@ \ {l.sent}) \cup {new}]]
            /\ \/ /\ Become(w, [l EXCEPT !.pc = "persist", !.got = new])
                  /\ UNCHANGED past
               \/ /\ Become(w, Idle)
                  /\ past' = [past EXCEPT ![l.acct].raced = @ \/ new # NULL]
       /\ UNCHANGED <<conn, order, keys, ring, report, owner>>

(* A well-formed success that carries no token. *)
RefreshBare(w) ==
    /\ loc[w].pc = "refresh" /\ loc[w].sent \in grants[loc[w].acct].valid
    /\ Become(w, [loc[w] EXCEPT !.pc = "persist_bare"])
    /\ UNCHANGED <<conn, order, keys, ring, report, grants, owner, past>>

(* Only a refusal of the grant itself is invalid_grant. *)
RefreshRefused(w, code) ==
    LET l == loc[w]
        g == grants[l.acct]
    IN /\ l.pc = "refresh"
       /\ code = "invalid_grant" => l.sent \notin g.valid
       /\ grants' = IF code = "invalid_grant" /\ l.sent \in g.used
                    THEN [grants EXCEPT ![l.acct].valid = {}] ELSE grants
       /\ IF RefreshClass(code) = "needs_reconnect"
          THEN Become(w, [l EXCEPT !.pc = "mark"]) ELSE Become(w, Idle)
       /\ UNCHANGED <<conn, order, keys, ring, report, owner, past>>

Persist(w) ==
    LET l == loc[w]
        row == conn[l.acct]
        c == Current(RunsIn[w])
    IN /\ \/ /\ l.pc = "persist"
             /\ conn' = [conn EXCEPT ![l.acct] = PersistTokens(row, l.got, c)]
             /\ Become(w, [l EXCEPT !.pc = "call", !.sent = NULL, !.got = NULL])
          \/ /\ l.pc = "persist_bare"
             /\ conn' = [conn EXCEPT ![l.acct].version = c]
             /\ Become(w, Idle)
       /\ past' = [past EXCEPT ![l.acct].patched = Patches(row, l.got, c)]
       /\ UNCHANGED <<order, keys, ring, report, grants, owner>>

MarkNeedsReconnect(w) ==
    /\ loc[w].pc = "mark"
    /\ conn' = [conn EXCEPT ![loc[w].acct].status = "needs_reconnect"]
    /\ Become(w, Idle)
    /\ UNCHANGED <<order, keys, ring, report, grants, owner, past>>

(* Gmail's _call and Slack's: done; a first 401 from Gmail, which renews   *)
(* the token; or a failure for the caller to classify. Slack's invalid_auth*)
(* and a second 401 fail the caller and leave the row alone.               *)
CallProvider(w) ==
    LET l == loc[w]
    IN /\ l.pc = "call"
       /\ \/ Become(w, [l EXCEPT !.pc = "book"])
          \/ Gmail(l.acct) /\ ~l.retried /\ Become(w, [l EXCEPT !.pc = "expire"])
          \/ Become(w, Idle)
       /\ UNCHANGED <<conn, order, keys, ring, report, grants, owner, past>>

(* expire_access_token, whichever token is stored by now. *)
ExpireAccessToken(w) ==
    /\ loc[w].pc = "expire"
    /\ conn' = [conn EXCEPT ![loc[w].acct].fresh = FALSE]
    /\ Become(w, [loc[w] EXCEPT !.pc = "get", !.retried = TRUE])
    /\ UNCHANGED <<order, keys, ring, report, grants, owner, past>>

(* Mutant: any success clears the mark. *)
AnySuccess(row) == [row EXCEPT !.status = "active"]

(* mark_success: only a reconnect clears a revoked grant. *)
MarkSuccess(row) ==
    IF row.status = "active" THEN [row EXCEPT !.status = "active"] ELSE row

(* record_success, best effort. *)
RecordSuccess(w) ==
    /\ loc[w].pc = "book"
    /\ conn' \in {conn, [conn EXCEPT ![loc[w].acct] = MarkSuccess(@)]}
    /\ Become(w, Idle)
    /\ UNCHANGED <<order, keys, ring, report, grants, owner, past>>

(* The transaction aborts and its lock is released with it. *)
Crash(w) ==
    /\ loc[w].pc # "idle"
    /\ past' = [past EXCEPT ![loc[w].acct].raced =
                   @ \/ (loc[w].pc = "persist" /\ loc[w].got # NULL)]
    /\ Become(w, Idle)
    /\ UNCHANGED <<conn, order, keys, ring, report, grants, owner>>

-----------------------------------------------------------------------------
(* The owner *)

(* Mutant: consent is forced only to repair. *)
ForceToRepair(p, reconnecting) == p = "gmail" /\ reconnecting

(* _should_force_consent: by the first active row of the provider, of      *)
(* whichever account it is.                                                *)
ShouldForceConsent(p, reconnecting) ==
    /\ p = "gmail"
    /\ reconnecting \/ \A a \in ActiveFor(p) : conn[a].refresh = NoToken

(* begin at server s: what the provider is asked for, with a state signed  *)
(* by the key that encrypts there.                                         *)
Begun(s, a, reconnecting) ==
    [pc |-> "consent", acct |-> a, got |-> NULL, signed |-> Current(s), at |-> NULL,
     forced |-> ShouldForceConsent(ProviderOf[a], reconnecting)]

(* authorize_connection; the account is chosen on the provider's page. *)
Authorize(s, a, reconnecting) ==
    /\ owner.pc = "idle" /\ (Exists(a) \/ Len(order) < MaxRows)
    /\ reconnecting => \E b \in Accounts : ProviderOf[b] = ProviderOf[a] /\ Exists(b)
    /\ owner' = Begun(s, a, reconnecting)
    /\ UNCHANGED <<conn, order, keys, ring, report, grants, loc, past>>

(* The key that verifies is the one that encrypts there now. *)
StateVerifies(s) == owner.signed = Current(s)

(* Google adds a refresh token to the first consent of an account and to a *)
(* forced one; Slack has none.                                             *)
ConsentToken(a) ==
    IF Gmail(a) /\ (owner.forced \/ ~grants[a].consented)
    THEN grants[a].issued + 1 ELSE NULL

(* exchange_code, at the server that the callback reaches. *)
ExchangeCode(s) ==
    LET a == owner.acct
        g == grants[a]
        n == ConsentToken(a)
    IN /\ owner.pc = "consent" /\ StateVerifies(s) /\ n <= MaxTokens
       /\ grants' = [grants EXCEPT ![a] =
                       IF n = NULL THEN [g EXCEPT !.consented = TRUE]
                       ELSE [g EXCEPT !.consented = TRUE, !.issued = n,
                                      !.valid = @ \cup {n}]]
       /\ owner' = [owner EXCEPT !.pc = "land", !.at = s, !.got = n]
       /\ UNCHANGED <<conn, order, keys, ring, report, loc, past>>

(* Denied, too late for its state or signed by another key, refused by the *)
(* provider, or cut short.                                                 *)
AbandonAuthorization ==
    /\ owner.pc # "idle"
    /\ owner' = NobodyThere
    /\ UNCHANGED <<conn, order, keys, ring, report, grants, loc, past>>

(* complete, once the code has been exchanged. *)
Land ==
    LET a == owner.acct
        c == Current(owner.at)
        raced == \/ ~LockFree(a)
                 \/ past[a].dropped /\ ~owner.forced
                 \/ past[a].raced /\ owner.got = NULL
    IN /\ owner.pc = "land"
       /\ Upsert(a, owner.got, c)
       /\ owner' = NobodyThere
       /\ past' = [past EXCEPT ![a] =
                     [@ EXCEPT !.raced = raced, !.dropped = FALSE,
                        !.repaired = \/ owner.got \in grants[a].valid
                                     \/ past[a].repaired /\ owner.got = NULL,
                        !.patched = Patches(conn[a], owner.got, c)]]
       /\ UNCHANGED <<keys, ring, report, grants, loc>>

Disconnect(a) ==
    /\ Exists(a)
    /\ conn' = [conn EXCEPT ![a] = Disconnected(@)]
    /\ past' = [past EXCEPT ![a] = [@ EXCEPT !.raced = ~LockFree(a), !.dropped = TRUE,
                                             !.repaired = FALSE, !.patched = FALSE]]
    /\ UNCHANGED <<order, keys, ring, report, grants, loc, owner>>

(* The grant ends at the provider: revoked, or its tokens alone are dead. *)
Revoke(a) ==
    /\ grants[a].valid # {}
    /\ \E c \in BOOLEAN :
         grants' = [grants EXCEPT ![a] = [@ EXCEPT !.valid = {}, !.consented = c]]
    /\ past' = [past EXCEPT ![a].repaired = FALSE]
    /\ UNCHANGED <<conn, order, keys, ring, report, loc, owner>>

AccessExpires(a) ==
    /\ Gmail(a) /\ conn[a].fresh
    /\ conn' = [conn EXCEPT ![a].fresh = FALSE]
    /\ UNCHANGED <<order, keys, ring, report, grants, loc, owner, past>>

-----------------------------------------------------------------------------
(* Key rotation *)

(* The keyring is mounted anew; get_keyring goes on returning what each    *)
(* process has cached.                                                     *)
AddKey ==
    /\ keys = {1}
    /\ keys' = {1, 2}
    /\ UNCHANGED <<conn, order, ring, report, grants, loc, owner, past>>

(* A process is replaced, once nothing runs in it, by one that reads the   *)
(* mount.                                                                  *)
Restart(p) ==
    /\ ring[p] # keys
    /\ \A w \in Workers : RunsIn[w] = p => loc[w].pc = "idle"
    /\ owner.pc = "land" => owner.at # p
    /\ ring' = [ring EXCEPT ![p] = keys]
    /\ UNCHANGED <<conn, order, keys, report, grants, loc, owner, past>>

(* Mutant: the version is written and one column is not. *)
RotatedAccess(row) ==
    [row EXCEPT !.version = 2, !.access = IF @ = NULL THEN @ ELSE 2]

(* Mutant: an empty column is encrypted too. *)
RotatedEmpty(row) ==
    [row EXCEPT !.version = 2, !.access = 2, !.refresh.key = 2]

(* Every column under the new key. *)
Rotated(row) ==
    [row EXCEPT !.version = 2, !.access = IF @ = NULL THEN @ ELSE 2,
                !.refresh = IF @ = NoToken THEN @ ELSE [@ EXCEPT !.key = 2]]

Readable(row) == row.access \in keys \cup {NULL} /\ row.refresh.key \in keys \cup {NULL}

(* WHERE key_version < :target *)
Remains(a) == Exists(a) /\ conn[a].version < 2

(* rotate --apply, which reads the mount when it starts, of a row that it  *)
(* selects and can read.                                                   *)
Rotate(a) ==
    /\ 2 \in keys /\ Remains(a) /\ Readable(conn[a])
    /\ conn' = [conn EXCEPT ![a] = Rotated(@)]
    /\ UNCHANGED <<order, keys, ring, report, grants, loc, owner, past>>

(* The row may be locked: a transaction that updates it has begun and has  *)
(* not committed. It may never.                                            *)
Writing(a) ==
    \/ \E w \in Workers :
          /\ loc[w].acct = a
          /\ loc[w].pc \in {"expire", "persist", "persist_bare", "mark", "book"}
    \/ owner.pc = "land" /\ owner.acct = a

(* FOR UPDATE SKIP LOCKED finds no row: none remains, or each that does is *)
(* locked.                                                                 *)
Report ==
    /\ keys = {1, 2} /\ \A a \in Accounts : Remains(a) => Writing(a)
    /\ report' = IF /\ \A a \in Accounts : ~Remains(a)
                    /\ \A p \in Processes : 2 \in ring[p]
                 THEN "orderly" ELSE "rushed"
    /\ UNCHANGED <<conn, order, keys, ring, grants, loc, owner, past>>

(* "Only once this reports 0 remaining". *)
DropKey ==
    /\ keys = {1, 2} /\ report # "none"
    /\ keys' = {2}
    /\ UNCHANGED <<conn, order, ring, report, grants, loc, owner, past>>

-----------------------------------------------------------------------------
Codes == {"invalid_grant", "invalid_client", "backendError"}

Work(w) ==
    \/ RefreshGranted(w) \/ RefreshBare(w) \/ \E c \in Codes : RefreshRefused(w, c)
    \/ Persist(w) \/ MarkNeedsReconnect(w) \/ CallProvider(w)
    \/ ExpireAccessToken(w) \/ RecordSuccess(w)

Next ==
    \/ \E w \in Workers :
          \/ \E a \in Accounts : Begin(w, a)
          \/ GetToken(w) \/ Work(w) \/ Crash(w)
    \/ \E a \in Accounts :
          \/ \E s \in Servers, reconnecting \in BOOLEAN : Authorize(s, a, reconnecting)
          \/ Disconnect(a) \/ Revoke(a) \/ AccessExpires(a) \/ Rotate(a)
    \/ \E s \in Servers : ExchangeCode(s)
    \/ \E p \in Processes : Restart(p)
    \/ AbandonAuthorization \/ Land \/ AddKey \/ Report \/ DropKey

Spec == Init /\ [][Next]_vars

-----------------------------------------------------------------------------
(* Properties *)

(* The lock and the read under it collapse a stampede: a refresh token     *)
(* that was superseded is never shown to the provider again (which would   *)
(* take our own concurrency for a stolen token and revoke the grant),      *)
(* however many workers find the access token stale, unless the answer     *)
(* that superseded it was lost or the owner acted meanwhile.               *)
NoReplay ==
    \A w \in Workers :
        LET a == loc[w].acct
        IN loc[w].pc = "refresh" /\ ~past[a].raced => loc[w].sent \notin grants[a].used

(* Once a forced consent has landed the connection works until its owner   *)
(* ends it: no error of ours, no expiry, no login and no key rotation      *)
(* marks it or puts a dead token in place of its live one. (A new token    *)
(* may be in the hands of the worker about to store it.)                   *)
RepairHolds ==
    \A a \in Accounts :
        past[a].repaired /\ ~past[a].raced
        => /\ conn[a].status = "active"
           /\ \/ conn[a].refresh.n \in grants[a].valid
              \/ \E w \in Workers : /\ loc[w].acct = a /\ loc[w].pc = "persist"
                                     /\ loc[w].got \in grants[a].valid

(* A disconnect drops the credentials and they stay dropped until the      *)
(* owner authorizes again, unless a refresh was under way; and no success  *)
(* of a call made with them shows the account as active again.             *)
DisconnectDrops ==
    \A a \in Accounts :
        past[a].dropped
        => /\ conn[a].status = "needs_reconnect"
           /\ ~past[a].raced => conn[a].access = NULL /\ conn[a].refresh = NoToken

(* When the old key is dropped, every token still decrypts that cannot be  *)
(* fetched again, if the report that allowed it was orderly: every process *)
(* had been restarted since the new key was mounted, and no row was locked *)
(* and skipped. A report of 0, which is all that rotate_keys asks for, is  *)
(* not enough. Excepted too is a row that a refresh or a login has since   *)
(* labelled with a newer key than that of its refresh token.               *)
RotationKeeps ==
    report = "orderly" =>
        \A a \in Accounts :
            /\ ~past[a].patched => conn[a].refresh.key \in keys \cup {NULL}
            /\ ~Gmail(a) => conn[a].access \in keys \cup {NULL}

(* The user of one Google account, shown as connected, can renew his       *)
(* access token without being asked: consent is forced when no refresh     *)
(* token is held.                                                          *)
ActiveRenewable ==
    \A a \in Accounts :
        /\ Gmail(a) /\ conn[a].status = "active" /\ ~past[a].raced
        /\ \A b \in Accounts \ {a} : Gmail(b) => ~Exists(b)
        => conn[a].refresh # NoToken

(* No answer of a provider clears a stored refresh token: it goes with all *)
(* the others, and the account is then shown as disconnected.              *)
NeverNulled ==
    [][\A a \in Accounts :
         conn[a].refresh # NoToken /\ conn'[a].refresh = NoToken
           => conn'[a].access = NULL /\ conn'[a].status = "needs_reconnect"]_vars
=============================================================================
