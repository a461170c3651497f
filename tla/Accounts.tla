----------------------------- MODULE Accounts ------------------------------
(***************************************************************************)
(* POST /auth/register and the lookup of POST /auth/login (api/auth.py)    *)
(* over the users table (services/session_repository.py, models/orm.py).   *)
(* A registration looks the address up, hashes the password, and inserts;  *)
(* others run in between, in this or another process, and only the unique  *)
(* index decides.  An address is a mailbox in one of its spellings; lower  *)
(* case is one of them.                                                    *)
(***************************************************************************)
EXTENDS FiniteSets

CONSTANTS
  Registrants,
  Mailboxes,
  Spellings,        \* ways to capitalise an address
  Lower,            \* str.lower()
  NoAddress

ASSUME LowerAssumption == Lower \in Spellings

Addresses == Mailboxes \X Spellings

VARIABLES
  users,            \* the rows: email and whose registration made it
  registering,      \* registrant -> the address it gave
  answer            \* registrant -> "none", "checked", "created" or "conflict"

accountVars == <<users, registering, answer>>

AccountsInit ==
  /\ users = {}
  /\ registering = [r \in Registrants |-> NoAddress]
  /\ answer = [r \in Registrants |-> "none"]

Lowered(a) == <<a[1], Lower>>

\* get_user_by_email.
UsersByEmail(a) == {u \in users : u.email = Lowered(a)}

\* register: an address that has a user is refused at once.
Check(r, a) ==
  /\ answer[r] = "none"
  /\ registering' = [registering EXCEPT ![r] = a]
  /\ answer' = [answer EXCEPT ![r] = IF UsersByEmail(a) = {} THEN "checked" ELSE "conflict"]
  /\ UNCHANGED users

\* Broken variant: the address is stored as it was typed.
StoredEmailAsTyped(a) == a

\* What create_user stores for an address.
StoredEmail(a) == Lowered(a)

\* create_user: the index ix_users_email lets one row of an address in, and the
\* IntegrityError of the others is a 409.
CreateUser(r) ==
  LET email == StoredEmail(registering[r])
      taken == \E u \in users : u.email = email
  IN  /\ answer[r] = "checked"
      /\ users' = IF taken THEN users ELSE users \cup {[email |-> email, by |-> r]}
      /\ answer' = [answer EXCEPT ![r] = IF taken THEN "conflict" ELSE "created"]
      /\ UNCHANGED registering

AccountsNext ==
  \E r \in Registrants : CreateUser(r) \/ \E a \in Addresses : Check(r, a)

AccountsSpec == AccountsInit /\ [][AccountsNext]_accountVars

----------------------------------------------------------------------------
(* Properties *)

\* Who was told that the account is created owns the one account of that mailbox,
\* and finds it by the address in any spelling, as the login does with
\* scalar_one_or_none; registrations of the same address that pass the check
\* together change nothing (auth.py:25-33, session_repository.py:555).
EveryAccountReachable ==
  \A r \in Registrants : answer[r] = "created" =>
     \A s \in Spellings :
        \E u \in users : u.by = r /\ UsersByEmail(<<registering[r][1], s>>) = {u}
============================================================================
