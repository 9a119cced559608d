------------------------------- MODULE Identity -------------------------------
(***************************************************************************)
(* Accounts, profiles, files and notes over PostgreSQL and the file store: *)
(* AuthService, ProfileService and FileSystemObjectStorage                 *)
(* (packages/identity-profile), their repositories (packages/database) and *)
(* the demo accounts every process provisions at its start.                *)
(*                                                                         *)
(* An account is a user, a role and a profile, written one after another   *)
(* without a transaction; a file is its content, its metadata and the      *)
(* reference in the profile.  Registrations, starting processes and        *)
(* uploads interleave and may stop anywhere.                               *)
(***************************************************************************)
EXTENDS Integers, FiniteSets

CONSTANTS Email, Caller,
          DemoRoles,   \* the roles of each demo account
          Text,        \* what a note or a first name may say
          MaxUploads, MaxNotes, MaxFaults  \* bounds

VARIABLES users,         \* the addresses that have an account
          roles,         \* user_roles
          profiles,      \* per address: [made, name, cv]
          objects,       \* the file store, by key: [content, metadata]
          notes,         \* user_notes: [of, id, text]
          call,          \* the request, or the start, of each caller
          acknowledged,  \* addresses whose registration was answered with a session
          removed,       \* addresses whose profile was deleted
          disturbed,     \* addresses with a creation that did not end
          count          \* uploads, notes and faults

vars == <<users, roles, profiles, objects, notes, call, acknowledged, removed,
          disturbed, count>>

account == <<users, roles, acknowledged, removed, disturbed>>

Idle   == [at |-> "idle"]
None   == "none"
NoFile == 0
NoProfile == [made |-> FALSE, name |-> None, cv |-> NoFile]

Become(k, next) == call' = [call EXCEPT ![k] = next]

Init ==
  /\ users = {} /\ roles = [e \in Email |-> {}]
  /\ profiles = [e \in Email |-> NoProfile]
  /\ objects = [key \in {} |-> 0] /\ notes = {}
  /\ call = [k \in Caller |-> Idle]
  /\ acknowledged = {} /\ removed = {} /\ disturbed = {}
  /\ count = [uploads |-> 0, notes |-> 0, faults |-> 0]

----------------------------------------------------------------------------
(* AuthService.register and provisionPublicDemoAccount.                    *)

\* findByEmail found nothing.
Register(k, e) ==
  /\ call[k] = Idle /\ e \notin users
  /\ Become(k, [at |-> "user", of |-> e, demo |-> FALSE])
  /\ UNCHANGED <<account, profiles, objects, notes, count>>

\* An account that exists gets the demo password and is made active again.
Provision(k, e) ==
  /\ call[k] = Idle /\ e \in DOMAIN DemoRoles
  /\ Become(k, [at |-> IF e \in users THEN "profile?" ELSE "user", of |-> e, demo |-> TRUE])
  /\ UNCHANGED <<account, profiles, objects, notes, count>>

\* users.email is unique: the second creation of one address fails.
CreateUser(k) ==
  /\ call[k].at = "user"
  /\ LET e == call[k].of IN
       IF e \in users
       THEN /\ disturbed' = disturbed \cup {e}
            /\ Become(k, Idle) /\ UNCHANGED users
       ELSE /\ users' = users \cup {e}
            /\ Become(k, [call[k] EXCEPT !.at = IF call[k].demo THEN "profile?" ELSE "role"])
            /\ UNCHANGED disturbed
  /\ UNCHANGED <<roles, acknowledged, removed, profiles, objects, notes, count>>

\* ON CONFLICT DO NOTHING.  A demo account ends here, with its login; its
\* roles are assigned one by one, which is one step here.
AssignRoles(k) ==
  /\ call[k].at = "role"
  /\ LET e == call[k].of IN
       /\ roles' = [roles EXCEPT ![e] = @ \cup IF call[k].demo THEN DemoRoles[e]
                                                               ELSE {"candidate"}]
       /\ Become(k, IF call[k].demo THEN Idle ELSE [call[k] EXCEPT !.at = "profile"])
       /\ disturbed' = IF call[k].demo THEN disturbed \ {e} ELSE disturbed
  /\ UNCHANGED <<users, acknowledged, removed, profiles, objects, notes, count>>

FindProfile(k) ==
  /\ call[k].at = "profile?"
  /\ Become(k, [call[k] EXCEPT !.at = IF profiles[call[k].of].made THEN "role" ELSE "profile"])
  /\ UNCHANGED <<account, profiles, objects, notes, count>>

\* profiles.user_id is unique.  A registration ends here, with its session.
CreateProfile(k) ==
  /\ call[k].at = "profile"
  /\ LET e == call[k].of IN
       IF profiles[e].made
       THEN /\ disturbed' = disturbed \cup {e}
            /\ Become(k, Idle) /\ UNCHANGED <<profiles, acknowledged, removed>>
       ELSE /\ profiles' = [profiles EXCEPT ![e] = [NoProfile EXCEPT !.made = TRUE]]
            /\ removed' = removed \ {e}
            /\ acknowledged' = IF call[k].demo THEN acknowledged ELSE acknowledged \cup {e}
            /\ Become(k, IF call[k].demo THEN [call[k] EXCEPT !.at = "role"] ELSE Idle)
            /\ UNCHANGED disturbed
  /\ UNCHANGED <<users, roles, objects, notes, count>>

----------------------------------------------------------------------------
(* ProfileService.                                                         *)

\* COALESCE: a name that is absent, or null to clear it, keeps the old one.
UpdateProfile(k, e, name) ==
  /\ call[k] = Idle /\ profiles[e].made
  /\ profiles' = [profiles EXCEPT ![e].name = IF name = None THEN @ ELSE name]
  /\ UNCHANGED <<account, objects, notes, call, count>>

\* Only the row: the objects and the notes of the account stay.
DeleteProfile(k, e) ==
  /\ call[k] = Idle /\ profiles[e].made
  /\ profiles' = [profiles EXCEPT ![e] = NoProfile]
  /\ removed' = removed \cup {e}
  /\ UNCHANGED <<users, roles, acknowledged, disturbed, objects, notes, call, count>>

SameKey(n) == 1                                                 \* mutant of ObjectKey

\* objectKey ends in a new uuid: no upload writes over another.
ObjectKey(n) == n

Upload(k, e) ==
  /\ call[k] = Idle /\ e \in users /\ count.uploads < MaxUploads
  /\ count' = [count EXCEPT !.uploads = @ + 1]
  /\ Become(k, [at |-> "content", of |-> e, upload |-> count.uploads + 1])
  /\ UNCHANGED <<account, profiles, objects, notes>>

\* FileSystemObjectStorage.put writes two files.
PutContent(k) ==
  /\ call[k].at = "content"
  /\ LET key == ObjectKey(call[k].upload) IN
       objects' = [o \in DOMAIN objects \cup {key} |->
         IF o # key THEN objects[o]
         ELSE [content  |-> call[k].upload,
               metadata |-> IF key \in DOMAIN objects THEN objects[key].metadata ELSE NoFile]]
  /\ Become(k, [call[k] EXCEPT !.at = "metadata"])
  /\ UNCHANGED <<account, profiles, notes, count>>

PutMetadata(k) ==
  /\ call[k].at = "metadata"
  /\ objects' = [objects EXCEPT ![ObjectKey(call[k].upload)].metadata = call[k].upload]
  /\ Become(k, [call[k] EXCEPT !.at = "reference"])
  /\ UNCHANGED <<account, profiles, notes, count>>

\* updateFile: without a profile the upload fails and its object stays.
SetReference(k) ==
  /\ call[k].at = "reference"
  /\ profiles' = IF profiles[call[k].of].made
                 THEN [profiles EXCEPT ![call[k].of].cv = ObjectKey(call[k].upload)]
                 ELSE profiles
  /\ Become(k, Idle)
  /\ UNCHANGED <<account, objects, notes, count>>

CreateNote(k, e, text) ==
  /\ call[k] = Idle /\ e \in users /\ count.notes < MaxNotes
  /\ count' = [count EXCEPT !.notes = @ + 1]
  /\ notes' = notes \cup {[of |-> e, id |-> count.notes + 1, text |-> text]}
  /\ UNCHANGED <<account, profiles, objects, call>>

UpdateNote(k, n, text) ==
  /\ call[k] = Idle
  /\ notes' = (notes \ {n}) \cup {[n EXCEPT !.text = text]}
  /\ UNCHANGED <<account, profiles, objects, call, count>>

DeleteNote(k, n) ==
  /\ call[k] = Idle
  /\ notes' = notes \ {n}
  /\ UNCHANGED <<account, profiles, objects, call, count>>

----------------------------------------------------------------------------
\* A statement or a write fails, or the process stops.
Fail(k) ==
  /\ call[k] # Idle /\ count.faults < MaxFaults
  /\ count' = [count EXCEPT !.faults = @ + 1]
  /\ disturbed' = IF call[k].at \in {"content", "metadata", "reference"} THEN disturbed
                  ELSE disturbed \cup {call[k].of}
  /\ Become(k, Idle)
  /\ UNCHANGED <<users, roles, acknowledged, removed, profiles, objects, notes>>

Next ==
  \E k \in Caller :
    \/ \E e \in Email : \/ Register(k, e) \/ Provision(k, e)
                        \/ DeleteProfile(k, e) \/ Upload(k, e)
                        \/ \E name \in Text \cup {None} : UpdateProfile(k, e, name)
                        \/ \E text \in Text : CreateNote(k, e, text)
    \/ CreateUser(k) \/ AssignRoles(k) \/ FindProfile(k) \/ CreateProfile(k)
    \/ PutContent(k) \/ PutMetadata(k) \/ SetReference(k)
    \/ \E n \in notes : DeleteNote(k, n) \/ \E text \in Text : UpdateNote(k, n, text)
    \/ Fail(k)

Spec == Init /\ [][Next]_vars

----------------------------------------------------------------------------
TypeOK ==
  /\ users \subseteq Email /\ acknowledged \subseteq users
  /\ removed \subseteq users /\ disturbed \subseteq Email
  /\ \A e \in Email : profiles[e].name \in Text \cup {None}
  /\ DOMAIN objects \subseteq 1..MaxUploads
  /\ \A n \in notes : n.of \in users /\ n.id \in 1..MaxNotes /\ n.text \in Text

Creating(e) == \E k \in Caller : call[k].at \in {"user", "role", "profile?", "profile"}
                                 /\ call[k].of = e

Whole(e) == roles[e] # {} /\ (profiles[e].made \/ e \in removed)

\* An account whose registration was answered, or whose creation was neither
\* interrupted nor overtaken, has its role and its profile, whatever starts
\* and registrations ran beside it; and the file a profile names is one upload,
\* content and metadata, never a file that is being written.
AccountsAreWhole ==
  \A e \in Email :
    /\ e \in acknowledged => Whole(e)
    /\ e \in users /\ ~Creating(e) /\ e \notin disturbed => Whole(e)
    /\ profiles[e].cv # NoFile =>
         /\ profiles[e].cv \in DOMAIN objects
         /\ objects[profiles[e].cv].content = objects[profiles[e].cv].metadata
=============================================================================
