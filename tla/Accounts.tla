------------------------------ MODULE Accounts ------------------------------
(***************************************************************************)
(* The accounts of users, their tokens and the active session              *)
(* (app/store_domains/auth.py).  An account has up to three identifiers: a *)
(* username, an e-mail address and a mobile number, each unique in its own *)
(* column, and any of the three is what a user logs in with.               *)
(*                                                                         *)
(* Each call holds the store's lock and is one step here.  Identifiers are *)
(* in their normal form.  Passwords and codes are left out: whether one    *)
(* fits is an input.  Tokens are numbered as they are issued, and two      *)
(* updates of accounts are in different seconds.                           *)
(***************************************************************************)
EXTENDS Integers, Sequences

CONSTANTS
  AccountIds,      \* user ids
  DefaultAccount,  \* DEFAULT_USER_ID
  Names,           \* identifiers
  DefaultName,     \* DEFAULT_EMAIL
  AccountStations, \* stations that log in for their owner
  MaxIssued,       \* a bound on the tokens issued
  NoName,          \* a column without a value
  NoAccount

ASSUME AccountAssumption ==
  /\ DefaultAccount \in AccountIds /\ NoAccount \notin AccountIds
  /\ DefaultName \in Names /\ NoName \notin Names

VARIABLES
  users,    \* the table users
  latest,   \* of them, the account that was updated last
  issued,   \* of each token: the account it was issued to
  session,  \* state.user and state.auth
  ownerOf   \* of each station: the account a login of its own is answered with

accountVars == <<users, latest, issued, session, ownerOf>>

User == [id : AccountIds, username : Names, email : Names \cup {NoName},
         mobile : Names \cup {NoName}]
Registered == {u.id : u \in users}

-----------------------------------------------------------------------------
(***************************************************************************)
(* The tables.                                                             *)
(***************************************************************************)
By(column, x) == {u.id : u \in {v \in users : v[column] = x}}

\* _find_user: one row at most.  The database searches its three indexes in
\* this order.
Find(x) ==
  IF By("username", x) # {} THEN By("username", x)
  ELSE IF By("email", x) # {} THEN By("email", x)
  ELSE By("mobile", x)

TokensOf(u) == {t \in DOMAIN issued : issued[t] = u}

\* _set_active_session_unlocked
Activate(u, t) == session' = [user |-> u, token |-> t]

\* _issue_tokens
Issue(u) ==
  /\ Len(issued) < MaxIssued
  /\ issued' = Append(issued, u)
  /\ Activate(u, Len(issued) + 1)

\* _latest_auth_for_user, or a new token if there is none.
Reuse(u) ==
  \/ TokensOf(u) = {} /\ Issue(u)
  \/ /\ \E t \in TokensOf(u) : (\A v \in TokensOf(u) : v <= t) /\ Activate(u, t)
     /\ UNCHANGED issued

-----------------------------------------------------------------------------
(***************************************************************************)
(* Sessions.                                                               *)
(***************************************************************************)
\* login, and a registration with the identifier and password of an account
\* there is.
Login(x) ==
  /\ \E u \in Find(x) : Issue(u)
  /\ UNCHANGED <<users, latest, ownerOf>>

\* login_payload_for_station; without an owner, _latest_auth_payload.
LoginStation(s) ==
  /\ Reuse(IF ownerOf[s] = NoAccount THEN latest ELSE ownerOf[s])
  /\ UNCHANGED <<users, latest, ownerOf>>

\* client_credentials_payload
LoginAnyone ==
  /\ Reuse(latest)
  /\ UNCHANGED <<users, latest, ownerOf>>

\* refresh, profile: a token that was issued stays good.
UseToken(t) ==
  /\ Activate(issued[t], t)
  /\ UNCHANGED <<users, latest, issued, ownerOf>>

\* ensure_default_user, at a start of the service.
StartAccounts ==
  /\ Reuse(DefaultAccount)
  /\ UNCHANGED <<users, latest, ownerOf>>

-----------------------------------------------------------------------------
(***************************************************************************)
(* Accounts.                                                               *)
(***************************************************************************)
\* update_user_profile, change_password: of the token's account, else of the
\* identifier's.
UpdateByToken(t) ==
  /\ latest' = issued[t]
  /\ Activate(issued[t], t)
  /\ UNCHANGED <<users, issued, ownerOf>>

\* ... and reset_password.
UpdateByName(x) ==
  /\ latest' \in Find(x)
  /\ UNCHANGED <<users, issued, session, ownerOf>>

\* Mutant of Insertable: only usernames are looked at.
NewUsername(username, mobile) ==
  /\ By("username", username) = {}
  /\ mobile # NoName => By("mobile", mobile) = {}

\* No account is found by the username, whichever column it is in; the mobile
\* number is only unique in its own.
Insertable(username, mobile) ==
  /\ Find(username) = {}
  /\ mobile # NoName => By("mobile", mobile) = {}

Insert(username, email, mobile) ==
  \E u \in AccountIds \ Registered :
    /\ Insertable(username, mobile)
    /\ users' = users \cup {[id |-> u, username |-> username, email |-> email, mobile |-> mobile]}
    /\ latest' = u
    /\ Issue(u)
    /\ UNCHANGED ownerOf

\* register_email
RegisterEmail(x) == Insert(x, x, NoName)

\* register_user, as mobile-password-register calls it: without an e-mail
\* address, and with the mobile number for a username if none is given.
RegisterMobile(username, mobile) == Insert(username, NoName, mobile)

\* The owner of a station changes (StationBinding).
OwnStation(s, u) ==
  /\ ownerOf' = [ownerOf EXCEPT ![s] = u]
  /\ UNCHANGED <<users, latest, issued, session>>

-----------------------------------------------------------------------------
\* A new database, once started.
AccountInit ==
  /\ users = {[id |-> DefaultAccount, username |-> DefaultName, email |-> DefaultName, mobile |-> NoName]}
  /\ latest = DefaultAccount
  /\ issued = <<DefaultAccount>>
  /\ session = [user |-> DefaultAccount, token |-> 1]
  /\ ownerOf = [s \in AccountStations |-> DefaultAccount]

AccountNext ==
  \/ \E x \in Names :
       \/ Login(x) \/ UpdateByName(x) \/ RegisterEmail(x)
       \/ \E mobile \in Names \cup {NoName} : RegisterMobile(x, mobile)
  \/ \E t \in DOMAIN issued : UseToken(t) \/ UpdateByToken(t)
  \/ \E s \in AccountStations :
       LoginStation(s) \/ \E u \in Registered \cup {NoAccount} : OwnStation(s, u)
  \/ LoginAnyone \/ StartAccounts

AccountSpec == AccountInit /\ [][AccountNext]_accountVars

-----------------------------------------------------------------------------
\* The type invariant; the columns are unique, and the session's token is its
\* user's.
AccountTypeOK ==
  /\ users \subseteq User
  /\ \A u, v \in users : u # v =>
       /\ u.id # v.id
       /\ \A c \in {"username", "email", "mobile"} : u[c] # NoName => u[c] # v[c]
  /\ {latest, DefaultAccount} \subseteq Registered
  /\ issued \in Seq(Registered)
  /\ session.token \in DOMAIN issued /\ session.user = issued[session.token]
  /\ ownerOf \in [AccountStations -> Registered \cup {NoAccount}]

\* An identifier that has found an account goes on finding that account, whatever
\* is registered with it as a username, an e-mail address or a mobile number since
\* (_find_user, app/store_domains/auth.py:268; a registration looks up no more than
\* the username, auth.py:706).
IdentifierStays ==
  [][users' # users => \A x \in Names : Find(x) # {} => Find(x)' = Find(x)]_accountVars

=============================================================================
