---------------------------- MODULE CandidateProofs ----------------------------
(***************************************************************************)
(* Theorems about what the candidate keeps with the service and is told by *)
(* it: Identity, CandidateServices, RouteSessions, Coaching,               *)
(* AdvisorChannel, Answering, Prompts and WebTab.  They share no state; a  *)
(* name that two of them use is declared once here, for the one a theorem  *)
(* speaks of.                                                              *)
(***************************************************************************)
EXTENDS Integers, FiniteSets, Sequences, FiniteSetTheorems, WellFoundedInduction, TLAPS

CONSTANTS MaxFaults, Caller, Client,
          \* of Identity
          Email, DemoRoles, Text, MaxUploads, MaxNotes,
          \* of CandidateServices
          User, TestQuestions, Sectors, Event, Offers, MaxTests, MaxAppointments, MaxRefreshes,
          \* of RouteSessions
          Questions, Needs, PublishedAnswers, Routes, Session,
          \* of Coaching
          Dataset, Canonical, FivePhase, SlotRules, NoPhase, NoSlot, Turn, PersonalTurn, Scope,
          Facts, DefaultPhase, DefaultSystem, NoSystem, MaxOpen, MaxSwitches,
          \* of AdvisorChannel
          Viewer, TooLong, TwoLines,
          \* of Answering
          Message, Item, Attr, Relates, Body, Stale, Link, Draft, Models, Web, Extractive, Limit,
          MaxSentences, Marks,
          \* of Prompts
          Admin, Coach, Conn, MaxVersions,
          \* of WebTab
          Staff, MaxCalls, MaxSignIns

VARIABLES faults, call, disturbed, profile, client, conversation,
          \* of Identity
          users, roles, profiles, objects, notes, acknowledged, removed, count,
          \* of CandidateServices
          results, events, saved, appointments, invited, clock, contested,
          \* of RouteSessions
          sessions,
          \* of Coaching
          journey, preference, messages, evaluations, snapshots, turn, mutations, switches,
          \* of AdvisorChannel
          broker, history, request, stream, handlers, queue, listening, wire, written, buffer,
          known, heard, owed, deaf,
          \* of Answering
          at, message, channel, intent, candidates, internal, external, generated,
          answer, citations, links, mode,
          \* of Prompts
          stored, tx, admin, coach, chosen, answered, strayed,
          \* of WebTab
          token, user, view, screen, content, route, questions, busy, calls, streams,
          controller, stranded, signIns

ID == INSTANCE Identity
CS == INSTANCE CandidateServices
RS == INSTANCE RouteSessions
CO == INSTANCE Coaching
AC == INSTANCE AdvisorChannel
AN == INSTANCE Answering
PO == INSTANCE Prompts
WT == INSTANCE WebTab

-----------------------------------------------------------------------------
(* Facts about numbers and sequences that several components need.         *)

LEMMA Least ==
  ASSUME NEW S \in SUBSET Nat, S # {}
  PROVE  \E m \in S : \A y \in S : m <= y
<1>1. PICK x \in S : \A y \in S : ~ (<<y, x>> \in OpToRel(<, Nat))
  BY NatLessThanWellFounded, WFMin
<1>2. \A y \in S : y \in Nat /\ ~ (y < x)
  BY <1>1 DEF OpToRel
<1> QED BY <1>2

LEMMA OfSequence ==
  ASSUME NEW S, NEW seq \in Seq(S), NEW i \in DOMAIN seq
  PROVE  seq[i] \in S
OBVIOUS

-----------------------------------------------------------------------------
(***************************************************************************)
(* Accounts and files.                                                     *)
(*                                                                         *)
(* AccountsAreWhole speaks of what ended.  Underway says what a creation   *)
(* has behind it at each of its statements, Uploading that an upload is    *)
(* the only one with its key, so that no profile names a file before it is *)
(* written.                                                                *)
(***************************************************************************)
Creations == [at : {"user", "role", "profile?", "profile"}, of : Email, demo : BOOLEAN]
Uploads   == [at : {"content", "metadata", "reference"}, of : Email, upload : Nat \ {0}]

Roles == {"candidate"} \cup UNION {DemoRoles[e] : e \in DOMAIN DemoRoles}

AccountsTyped ==
  /\ roles \in [Email -> SUBSET Roles]
  /\ profiles \in [Email -> [made : BOOLEAN, name : Text \cup {ID!None}, cv : Nat]]
  /\ objects \in [DOMAIN objects -> [content : Nat, metadata : Nat]]
  /\ call \in [Caller -> {ID!Idle} \cup Creations \cup Uploads]
  /\ count \in [uploads : Nat, notes : Nat, faults : Nat]

\* What a creation has behind it when it comes to its next statement.
Founded(c) ==
  /\ c.at \in {"user", "role", "profile?", "profile"} /\ c.demo => c.of \in DOMAIN DemoRoles
  /\ c.at = "profile?" => c.demo
  /\ c.at = "role" /\ c.demo => profiles[c.of].made \/ c.of \in removed
  /\ c.at = "profile" /\ ~c.demo => roles[c.of] # {}

Underway == \A k \in Caller : Founded(call[k])

Uploading ==
  /\ \A key \in DOMAIN objects : key \in 1..count.uploads
  /\ \A k \in Caller : call[k].at \in {"content", "metadata", "reference"} =>
       LET key == call[k].upload IN
       /\ key \in 1..count.uploads
       /\ \A e \in Email : profiles[e].cv # key
       /\ \A j \in Caller \ {k} :
            call[j].at \in {"content", "metadata", "reference"} => call[j].upload # key
       /\ call[k].at \in {"metadata", "reference"} =>
            key \in DOMAIN objects /\ objects[key].content = key
       /\ call[k].at = "reference" => objects[key].metadata = key

WholeAccounts ==
  \A e \in Email :
    /\ e \in acknowledged => ID!Whole(e)
    /\ e \in users /\ ~ID!Creating(e) /\ e \notin disturbed => ID!Whole(e)

WholeFiles ==
  \A e \in Email : profiles[e].cv # ID!NoFile =>
    /\ profiles[e].cv \in DOMAIN objects
    /\ objects[profiles[e].cv].content = objects[profiles[e].cv].metadata

AccountsInv == AccountsTyped /\ Underway /\ Uploading /\ WholeAccounts /\ WholeFiles

\* Every demo account has a role.
DemoAccounts == \A e \in DOMAIN DemoRoles : DemoRoles[e] # {}

LEMMA AccountsStart == ID!Init => AccountsInv
BY DEF ID!Init, AccountsInv, AccountsTyped, Underway, Founded, Uploading, WholeAccounts, WholeFiles,
       ID!Idle, ID!NoProfile, ID!NoFile, ID!None

\* What is neither an upload nor a new file leaves the files of the profiles alone.
LEMMA FilesAside ==
  ASSUME AccountsInv, UNCHANGED objects, count'.uploads = count.uploads,
         \A e \in Email : profiles'[e].cv \in {ID!NoFile, profiles[e].cv},
         \A j \in Caller : \/ call'[j] = call[j]
                           \/ call'[j].at \notin {"content", "metadata", "reference"}
  PROVE  Uploading' /\ WholeFiles'
<1>1. \A j \in Caller : call'[j].at \in {"content", "metadata", "reference"} => call'[j] = call[j]
  OBVIOUS
<1>2. \A j \in Caller : call[j].at \in {"content", "metadata", "reference"} =>
         call[j].upload # ID!NoFile
  BY DEF AccountsInv, AccountsTyped, ID!Idle, Creations, Uploads, ID!NoFile
<1>3. Uploading'
  BY <1>1, <1>2 DEF AccountsInv, Uploading
<1>4. WholeFiles'
  BY DEF AccountsInv, WholeFiles
<1> QED BY <1>3, <1>4

\* What is no step of a creation leaves the accounts alone.
LEMMA AccountsAside ==
  ASSUME AccountsInv, UNCHANGED ID!account,
         \A e \in Email : profiles'[e].made = profiles[e].made,
         \A j \in Caller : \/ call'[j] = call[j]
                           \/ {call[j].at, call'[j].at}
                                \cap {"user", "role", "profile?", "profile"} = {}
  PROVE  Underway' /\ WholeAccounts'
<1>1. \A j \in Caller : \/ call'[j] = call[j]
                        \/ /\ call[j].at \notin {"user", "role", "profile?", "profile"}
                           /\ call'[j].at \notin {"user", "role", "profile?", "profile"}
  OBVIOUS
<1>2. UNCHANGED <<users, roles, acknowledged, removed, disturbed>>
  BY DEF ID!account
<1>3. Underway'
  <2> SUFFICES ASSUME NEW k \in Caller, call'[k].at \in {"user", "role", "profile?", "profile"}
               PROVE  (Founded(call[k]))'
    BY DEF Underway, Founded
  <2>1. call'[k] = call[k] /\ Founded(call[k]) /\ call[k].of \in Email
    BY <1>1 DEF AccountsInv, AccountsTyped, Underway, ID!Idle, Creations, Uploads
  <2> QED BY <1>2, <2>1 DEF Founded
<1>4. \A e \in Email : (ID!Whole(e))' = ID!Whole(e) /\ (ID!Creating(e))' = ID!Creating(e)
  BY <1>1, <1>2 DEF ID!Whole, ID!Creating
<1>5. WholeAccounts'
  BY <1>2, <1>4 DEF AccountsInv, WholeAccounts
<1> QED BY <1>3, <1>5

Makes(c, x) == c.at \in {"user", "role", "profile?", "profile"} /\ c.of = x

\* A step leaves every account whole if what it ends is whole or known to be
\* disturbed, and what it goes on with has behind it what it should.
LEMMA CreationMove ==
  ASSUME AccountsInv, UNCHANGED <<objects, count>>,
         NEW k \in Caller, NEW next \in {ID!Idle} \cup Creations,
         call' = [call EXCEPT ![k] = next], (Founded(next))',
         roles' \in [Email -> SUBSET Roles],
         profiles' \in [Email -> [made : BOOLEAN, name : Text \cup {ID!None}, cv : Nat]],
         \A x \in Email : profiles'[x].cv \in {ID!NoFile, profiles[x].cv},
         \A x \in Email : roles[x] # {} => roles'[x] # {},
         \A x \in Email : profiles[x].made \/ x \in removed =>
                          profiles'[x].made \/ x \in removed',
         \A x \in acknowledged' : x \in acknowledged \/ (ID!Whole(x))',
         \A x \in Email : x \in users' =>
            \/ x \in users /\ ~Makes(call[k], x) /\ (x \in disturbed => x \in disturbed')
            \/ Makes(next, x) \/ (ID!Whole(x))' \/ x \in disturbed'
  PROVE  AccountsInv'
<1>1. /\ call \in [Caller -> {ID!Idle} \cup Creations \cup Uploads]
      /\ call' \in [Caller -> {ID!Idle} \cup Creations \cup Uploads] /\ call'[k] = next
      /\ \A j \in Caller : j # k => call'[j] = call[j]
  BY DEF AccountsInv, AccountsTyped
<1>2. AccountsTyped'
  BY <1>1 DEF AccountsInv, AccountsTyped
<1>3. next.at \notin {"content", "metadata", "reference"}
  BY DEF ID!Idle, Creations
<1>4. Uploading' /\ WholeFiles'
  <2>1. \A j \in Caller : \/ call'[j] = call[j]
                          \/ call'[j].at \notin {"content", "metadata", "reference"}
    BY <1>1, <1>3
  <2> QED BY <2>1, FilesAside
<1>5. Underway'
  <2> SUFFICES ASSUME NEW j \in Caller, j # k
               PROVE  (Founded(call[j]))'
    BY <1>1 DEF Underway
  <2>1. call'[j] = call[j] /\ Founded(call[j])
    BY <1>1 DEF AccountsInv, Underway
  <2>2. call[j].at \in {"user", "role", "profile?", "profile"} => call[j].of \in Email
    BY <1>1 DEF ID!Idle, Creations, Uploads
  <2> QED BY <2>1, <2>2 DEF Founded
<1>6. \A x \in Email : ID!Whole(x) => (ID!Whole(x))'
  BY DEF ID!Whole
<1>7. \A x \in Email, j \in Caller : j # k /\ Makes(call[j], x) => (ID!Creating(x))'
  BY <1>1 DEF Makes, ID!Creating
<1>8. \A x \in Email : Makes(next, x) => (ID!Creating(x))'
  BY <1>1 DEF Makes, ID!Creating
<1>9. WholeAccounts'
  <2> SUFFICES ASSUME NEW x \in Email
               PROVE  /\ x \in acknowledged' => (ID!Whole(x))'
                      /\ x \in users' /\ ~(ID!Creating(x))' /\ x \notin disturbed' => (ID!Whole(x))'
    BY DEF WholeAccounts
  <2>1. x \in acknowledged' => (ID!Whole(x))'
    BY <1>6 DEF AccountsInv, WholeAccounts
  <2>2. ASSUME x \in users', ~(ID!Creating(x))', x \notin disturbed', ~(ID!Whole(x))'
        PROVE  FALSE
    <3>1. x \in users /\ ~Makes(call[k], x) /\ x \notin disturbed
      BY <1>8, <2>2
    <3>2. ~ID!Creating(x)
      BY <1>7, <2>2, <3>1 DEF ID!Creating, Makes
    <3> QED BY <1>6, <2>2, <3>1, <3>2 DEF AccountsInv, WholeAccounts
  <2> QED BY <2>1, <2>2
<1> QED BY <1>2, <1>4, <1>5, <1>9 DEF AccountsInv

LEMMA CreatingCall ==
  ASSUME AccountsInv, NEW k \in Caller, call[k].at \in {"user", "role", "profile?", "profile"}
  PROVE  call[k] \in Creations /\ call[k].of \in Email /\ Founded(call[k])
<1>1. call[k] \in {ID!Idle} \cup Creations \cup Uploads
  BY DEF AccountsInv, AccountsTyped
<1>2. call[k] \in Creations
  BY <1>1 DEF ID!Idle, Creations, Uploads
<1> QED BY <1>2 DEF Creations, AccountsInv, Underway

LEMMA RegisterKeeps ==
  ASSUME AccountsInv, NEW k \in Caller, NEW e \in Email, ID!Register(k, e)
  PROVE  AccountsInv'
<1> DEFINE next == [at |-> "user", of |-> e, demo |-> FALSE]
<1>1. /\ call[k].at = "idle" /\ call' = [call EXCEPT ![k] = next]
      /\ UNCHANGED <<users, roles, acknowledged, removed, disturbed, profiles, objects, count>>
  BY DEF ID!Register, ID!Become, ID!account, ID!Idle
<1>2. next \in Creations /\ (Founded(next))'
  BY DEF Creations, Founded
<1>3. \A x \in Email : ~Makes(call[k], x)
  BY <1>1 DEF Makes
<1> HIDE DEF next
<1> QED BY <1>1, <1>2, <1>3, CreationMove DEF AccountsInv, AccountsTyped

LEMMA ProvisionKeeps ==
  ASSUME AccountsInv, NEW k \in Caller, NEW e \in Email, ID!Provision(k, e)
  PROVE  AccountsInv'
<1>0. PICK next : next = [at |-> IF e \in users THEN "profile?" ELSE "user",
                          of |-> e, demo |-> TRUE]
  OBVIOUS
<1>1. /\ call[k].at = "idle" /\ call' = [call EXCEPT ![k] = next] /\ e \in DOMAIN DemoRoles
      /\ UNCHANGED <<users, roles, acknowledged, removed, disturbed, profiles, objects, count>>
  BY <1>0 DEF ID!Provision, ID!Become, ID!account, ID!Idle
<1>2. next \in Creations /\ (Founded(next))'
  BY <1>0, <1>1 DEF Creations, Founded
<1>3. \A x \in Email : ~Makes(call[k], x)
  BY <1>1 DEF Makes
<1> QED BY <1>1, <1>2, <1>3, CreationMove DEF AccountsInv, AccountsTyped

LEMMA CreateUserKeeps ==
  ASSUME AccountsInv, NEW k \in Caller, ID!CreateUser(k)
  PROVE  AccountsInv'
<1>e. PICK e : e = call[k].of
  OBVIOUS
<1>n. PICK next : next = IF e \in users THEN ID!Idle
                  ELSE [call[k] EXCEPT !.at = IF call[k].demo THEN "profile?" ELSE "role"]
  OBVIOUS
<1>1. /\ call[k].at = "user" /\ call' = [call EXCEPT ![k] = next]
      /\ UNCHANGED <<roles, acknowledged, removed, profiles, objects, count>>
      /\ disturbed' = IF e \in users THEN disturbed \cup {e} ELSE disturbed
      /\ users' = users \cup {e}
  BY <1>e, <1>n DEF ID!CreateUser, ID!Become
<1>2. call[k] \in Creations /\ e \in Email /\ Founded(call[k])
  BY <1>e, <1>1, CreatingCall
<1>3. /\ next \in {ID!Idle} \cup Creations /\ (Founded(next))'
      /\ e \in users \/ Makes(next, e)
  <2>1. CASE e \in users
    BY <1>n, <2>1 DEF ID!Idle, Founded
  <2>2. CASE e \notin users /\ call[k].demo
    BY <1>e, <1>n, <1>1, <1>2, <2>2 DEF Creations, Founded, Makes
  <2>3. CASE e \notin users /\ ~call[k].demo
    BY <1>e, <1>n, <1>1, <1>2, <2>3 DEF Creations, Founded, Makes
  <2> QED BY <2>1, <2>2, <2>3
<1>4. \A x \in Email : Makes(call[k], x) => x = e
  BY <1>e DEF Makes
<1> QED BY <1>1, <1>2, <1>3, <1>4, CreationMove DEF AccountsInv, AccountsTyped

LEMMA AssignRolesKeeps ==
  ASSUME DemoAccounts, AccountsInv, NEW k \in Caller, ID!AssignRoles(k)
  PROVE  AccountsInv'
<1>e. PICK e : e = call[k].of
  OBVIOUS
<1>n. PICK next : next = IF call[k].demo THEN ID!Idle ELSE [call[k] EXCEPT !.at = "profile"]
  OBVIOUS
<1> DEFINE more == IF call[k].demo THEN DemoRoles[e] ELSE {"candidate"}
<1>1. /\ call[k].at = "role" /\ call' = [call EXCEPT ![k] = next]
      /\ UNCHANGED <<users, acknowledged, removed, profiles, objects, count>>
      /\ roles' = [roles EXCEPT ![e] = roles[e] \cup more]
      /\ disturbed' = IF call[k].demo THEN disturbed \ {e} ELSE disturbed
  BY <1>e, <1>n DEF ID!AssignRoles, ID!Become
<1>2. call[k] \in Creations /\ e \in Email /\ Founded(call[k])
  BY <1>e, <1>1, CreatingCall
<1>3. more # {} /\ more \subseteq Roles
  <2>1. CASE call[k].demo
    <3>1. e \in DOMAIN DemoRoles
      BY <1>e, <1>1, <1>2, <2>1 DEF Founded
    <3> QED BY <2>1, <3>1 DEF DemoAccounts, Roles
  <2>2. CASE ~call[k].demo
    BY <2>2 DEF Roles
  <2> QED BY <2>1, <2>2
<1>4. /\ roles' \in [Email -> SUBSET Roles] /\ roles'[e] # {}
      /\ \A x \in Email : roles[x] # {} => roles'[x] # {}
  BY <1>1, <1>2, <1>3 DEF AccountsInv, AccountsTyped
<1>5. /\ next \in {ID!Idle} \cup Creations /\ (Founded(next))'
      /\ call[k].demo \/ Makes(next, e)
  <2>1. CASE call[k].demo
    BY <1>n, <2>1 DEF ID!Idle, Founded
  <2>2. CASE ~call[k].demo
    BY <1>e, <1>n, <1>1, <1>2, <1>4, <2>2 DEF Creations, Founded, Makes
  <2> QED BY <2>1, <2>2
<1>6. call[k].demo => (ID!Whole(e))'
  BY <1>e, <1>1, <1>2, <1>4 DEF Founded, ID!Whole
<1>7. \A x \in Email : Makes(call[k], x) => x = e
  BY <1>e DEF Makes
<1>8. \A x \in Email : x \in users' =>
        \/ x \in users /\ ~Makes(call[k], x) /\ (x \in disturbed => x \in disturbed')
        \/ Makes(next, x) \/ (ID!Whole(x))' \/ x \in disturbed'
  <2> SUFFICES ASSUME NEW x \in Email, x # e, x \in users
               PROVE  ~Makes(call[k], x) /\ (x \in disturbed => x \in disturbed')
    BY <1>1, <1>2, <1>5, <1>6
  <2> QED BY <1>1, <1>7
<1> HIDE DEF more
<1> QED BY <1>1, <1>2, <1>4, <1>5, <1>8, CreationMove DEF AccountsInv, AccountsTyped

LEMMA FindProfileKeeps ==
  ASSUME AccountsInv, NEW k \in Caller, ID!FindProfile(k)
  PROVE  AccountsInv'
<1>e. PICK e : e = call[k].of
  OBVIOUS
<1>n. PICK next : next = [call[k] EXCEPT !.at = IF profiles[e].made THEN "role" ELSE "profile"]
  OBVIOUS
<1>1. /\ call[k].at = "profile?" /\ call' = [call EXCEPT ![k] = next]
      /\ UNCHANGED <<users, roles, acknowledged, removed, disturbed, profiles, objects, count>>
  BY <1>e, <1>n DEF ID!FindProfile, ID!Become, ID!account
<1>2. call[k] \in Creations /\ e \in Email /\ Founded(call[k])
  BY <1>e, <1>1, CreatingCall
<1>3. next \in Creations /\ (Founded(next))' /\ Makes(next, e)
  <2>1. CASE profiles[e].made
    BY <1>e, <1>n, <1>1, <1>2, <2>1 DEF Creations, Founded, Makes
  <2>2. CASE ~profiles[e].made /\ call[k].demo
    BY <1>e, <1>n, <1>1, <1>2, <2>2 DEF Creations, Founded, Makes
  <2>3. call[k].demo
    BY <1>1, <1>2 DEF Founded
  <2> QED BY <2>1, <2>2, <2>3
<1>4. \A x \in Email : Makes(call[k], x) => x = e
  BY <1>e DEF Makes
<1> QED BY <1>1, <1>2, <1>3, <1>4, CreationMove DEF AccountsInv, AccountsTyped

LEMMA CreateProfileKeeps ==
  ASSUME AccountsInv, NEW k \in Caller, ID!CreateProfile(k)
  PROVE  AccountsInv'
<1>e. PICK e : e = call[k].of
  OBVIOUS
<1>1. call[k].at = "profile" /\ UNCHANGED <<users, roles, objects, count>>
  BY DEF ID!CreateProfile
<1>2. call[k] \in Creations /\ e \in Email /\ Founded(call[k])
  BY <1>e, <1>1, CreatingCall
<1>3. \A x \in Email : Makes(call[k], x) => x = e
  BY <1>e DEF Makes
<1>4. CASE profiles[e].made
  <2>1. /\ call' = [call EXCEPT ![k] = ID!Idle] /\ disturbed' = disturbed \cup {e}
        /\ UNCHANGED <<profiles, acknowledged, removed>>
    BY <1>e, <1>4 DEF ID!CreateProfile, ID!Become
  <2>2. (Founded(ID!Idle))'
    BY DEF ID!Idle, Founded
  <2> QED BY <1>1, <1>2, <1>3, <2>1, <2>2, CreationMove DEF AccountsInv, AccountsTyped
<1>5. CASE ~profiles[e].made
  <2> DEFINE new == [ID!NoProfile EXCEPT !.made = TRUE]
  <2>n. PICK next : next = IF call[k].demo THEN [call[k] EXCEPT !.at = "role"] ELSE ID!Idle
    OBVIOUS
  <2>1. /\ call' = [call EXCEPT ![k] = next] /\ disturbed' = disturbed
        /\ profiles' = [profiles EXCEPT ![e] = new]
        /\ removed' = removed \ {e}
        /\ acknowledged' = IF call[k].demo THEN acknowledged ELSE acknowledged \cup {e}
    BY <1>e, <1>5, <2>n DEF ID!CreateProfile, ID!Become
  <2>2. /\ new \in [made : BOOLEAN, name : Text \cup {ID!None}, cv : Nat]
        /\ new.made /\ new.cv = ID!NoFile
    BY DEF ID!NoProfile, ID!NoFile
  <2> HIDE DEF new
  <2>3. /\ profiles' \in [Email -> [made : BOOLEAN, name : Text \cup {ID!None}, cv : Nat]]
        /\ profiles'[e].made
        /\ \A x \in Email : profiles'[x].cv \in {ID!NoFile, profiles[x].cv}
        /\ \A x \in Email : profiles[x].made \/ x \in removed =>
                          profiles'[x].made \/ x \in removed'
    BY <1>2, <2>1, <2>2 DEF AccountsInv, AccountsTyped
  <2>4. next \in {ID!Idle} \cup Creations /\ (Founded(next))'
    <3>1. CASE call[k].demo
      BY <1>e, <1>1, <1>2, <2>n, <2>3, <3>1 DEF Creations, Founded
    <3>2. CASE ~call[k].demo
      BY <2>n, <3>2 DEF ID!Idle, Founded
    <3> QED BY <3>1, <3>2
  <2>5. call[k].demo => Makes(next, e)
    BY <1>e, <2>n, <1>2 DEF Makes, Creations
  <2>6. ~call[k].demo => (ID!Whole(e))'
    BY <1>e, <1>1, <1>2, <2>3 DEF Founded, ID!Whole
  <2>7. \A x \in Email : x \in users' =>
          \/ x \in users /\ ~Makes(call[k], x) /\ (x \in disturbed => x \in disturbed')
          \/ Makes(next, x) \/ (ID!Whole(x))' \/ x \in disturbed'
    BY <1>1, <1>3, <2>1, <2>5, <2>6
  <2>8. \A x \in acknowledged' : x \in acknowledged \/ (ID!Whole(x))'
    BY <2>1, <2>6
  <2> QED BY <1>1, <2>1, <2>3, <2>4, <2>7, <2>8, CreationMove DEF AccountsInv, AccountsTyped
<1> QED BY <1>4, <1>5

LEMMA ProfileKeeps ==
  ASSUME AccountsInv, NEW k \in Caller, NEW e \in Email, NEW name \in Text \cup {ID!None},
         ID!UpdateProfile(k, e, name) \/ ID!DeleteProfile(k, e)
  PROVE  AccountsInv'
<1>1. /\ call[k] = ID!Idle /\ profiles[e].made
      /\ UNCHANGED <<users, roles, acknowledged, disturbed, objects, call, count>>
  BY DEF ID!UpdateProfile, ID!DeleteProfile, ID!account
<1>2. call' = [call EXCEPT ![k] = ID!Idle]
  BY <1>1 DEF AccountsInv, AccountsTyped
<1>3. PICK new : /\ profiles' = [profiles EXCEPT ![e] = new]
                 /\ new \in [made : BOOLEAN, name : Text \cup {ID!None}, cv : Nat]
                 /\ new.cv \in {ID!NoFile, profiles[e].cv}
                 /\ \/ new.made /\ removed' = removed
                    \/ removed' = removed \cup {e}
  <2>1. profiles[e] \in [made : BOOLEAN, name : Text \cup {ID!None}, cv : Nat]
    BY DEF AccountsInv, AccountsTyped
  <2>2. CASE ID!UpdateProfile(k, e, name)
    <3>1. removed' = removed
      BY <2>2 DEF ID!UpdateProfile, ID!account
    <3>2. PICK kept \in Text \cup {ID!None} :
            profiles' = [profiles EXCEPT ![e] = [profiles[e] EXCEPT !.name = kept]]
      <4>1. profiles[e].name \in Text \cup {ID!None}
        BY <2>1
      <4>2. CASE name = ID!None
        BY <2>2, <4>1, <4>2 DEF ID!UpdateProfile
      <4>3. CASE name # ID!None
        BY <2>2, <4>3 DEF ID!UpdateProfile
      <4> QED BY <4>2, <4>3
    <3> DEFINE row == [profiles[e] EXCEPT !.name = kept]
    <3>3. /\ row \in [made : BOOLEAN, name : Text \cup {ID!None}, cv : Nat]
          /\ row.cv = profiles[e].cv /\ row.made = profiles[e].made
      BY <2>1
    <3>4. profiles' = [profiles EXCEPT ![e] = row]
      BY <3>2
    <3> HIDE DEF row
    <3> QED BY <1>1, <3>1, <3>3, <3>4
  <2>3. CASE ID!DeleteProfile(k, e)
    <3>1. /\ ID!NoProfile \in [made : BOOLEAN, name : Text \cup {ID!None}, cv : Nat]
          /\ ID!NoProfile.cv = ID!NoFile
      BY DEF ID!NoProfile, ID!NoFile
    <3> QED BY <2>3, <3>1 DEF ID!DeleteProfile
  <2> QED BY <2>2, <2>3
<1>4. /\ profiles' \in [Email -> [made : BOOLEAN, name : Text \cup {ID!None}, cv : Nat]]
      /\ \A x \in Email : profiles'[x].cv \in {ID!NoFile, profiles[x].cv}
      /\ \A x \in Email : profiles[x].made \/ x \in removed =>
                        profiles'[x].made \/ x \in removed'
  BY <1>3 DEF AccountsInv, AccountsTyped
<1>5. (Founded(ID!Idle))' /\ \A x \in Email : ~Makes(call[k], x)
  BY <1>1 DEF Founded, Makes, ID!Idle
<1> QED BY <1>1, <1>2, <1>4, <1>5, CreationMove DEF AccountsInv, AccountsTyped

LEMMA NotesKeep ==
  ASSUME AccountsInv, NEW k \in Caller,
         UNCHANGED <<ID!account, profiles, objects, call>>,
         count' \in [uploads : {count.uploads}, notes : Nat, faults : Nat]
  PROVE  AccountsInv'
<1>1. AccountsTyped'
  BY DEF AccountsInv, AccountsTyped, ID!account
<1>2. count'.uploads = count.uploads
  OBVIOUS
<1> QED BY <1>1, <1>2, FilesAside, AccountsAside DEF AccountsInv

\* Whatever fails, what it has written stays.
LEMMA FailKeeps ==
  ASSUME AccountsInv, NEW k \in Caller, ID!Fail(k)
  PROVE  AccountsInv'
<1>1. /\ call[k] # ID!Idle /\ call' = [call EXCEPT ![k] = ID!Idle]
      /\ UNCHANGED <<users, roles, acknowledged, removed, profiles, objects>>
  BY DEF ID!Fail, ID!Become
<1>2. /\ call' \in [Caller -> {ID!Idle} \cup Creations \cup Uploads] /\ call'[k] = ID!Idle
      /\ \A j \in Caller : j # k => call'[j] = call[j]
      /\ count' \in [uploads : Nat, notes : Nat, faults : Nat] /\ count'.uploads = count.uploads
  BY <1>1 DEF AccountsInv, AccountsTyped, ID!Fail
<1>3. AccountsTyped'
  BY <1>1, <1>2 DEF AccountsInv, AccountsTyped
<1>4. Uploading' /\ WholeFiles'
  BY <1>1, <1>2, FilesAside DEF ID!Idle
<1>5. CASE call[k].at \in {"content", "metadata", "reference"}
  <2>1. disturbed' = disturbed
    BY <1>5 DEF ID!Fail
  <2>2. Underway' /\ WholeAccounts'
    BY <1>1, <1>2, <1>5, <2>1, AccountsAside DEF ID!Idle, ID!account
  <2> QED BY <1>3, <1>4, <2>2 DEF AccountsInv
<1>6. CASE call[k].at \notin {"content", "metadata", "reference"}
  <2>1. call[k] \in Creations /\ disturbed' = disturbed \cup {call[k].of}
    BY <1>1, <1>6 DEF ID!Fail, AccountsInv, AccountsTyped, Uploads
  <2>2. Underway'
    <3> SUFFICES ASSUME NEW j \in Caller PROVE (Founded(call[j]))'
      BY DEF Underway
    <3>1. CASE j = k
      BY <1>2, <3>1 DEF Founded, ID!Idle
    <3>2. CASE j # k
      BY <1>1, <1>2, <3>2 DEF AccountsInv, Underway, Founded
    <3> QED BY <3>1, <3>2
  <2>3. WholeAccounts'
    <3> SUFFICES ASSUME NEW x \in Email, x # call[k].of
                 PROVE  x \in users /\ ~(ID!Creating(x))' /\ x \notin disturbed => ID!Whole(x)
      BY <1>1, <2>1 DEF WholeAccounts, AccountsInv, ID!Whole
    <3>1. ID!Creating(x) => (ID!Creating(x))'
      BY <1>2 DEF ID!Creating
    <3> QED BY <3>1 DEF AccountsInv, WholeAccounts
  <2> QED BY <1>3, <1>4, <2>2, <2>3 DEF AccountsInv
<1> QED BY <1>5, <1>6

\* The statements of an upload, each on a file no profile names yet.
LEMMA UploadKeeps ==
  ASSUME AccountsInv, NEW k \in Caller, NEW e \in Email,
         ID!Upload(k, e) \/ ID!PutContent(k) \/ ID!PutMetadata(k) \/ ID!SetReference(k)
  PROVE  AccountsInv'
<1>1. CASE ID!Upload(k, e)
  <2> DEFINE key == count.uploads + 1
  <2>n. PICK next : next = [at |-> "content", of |-> e, upload |-> key]
    OBVIOUS
  <2>1. /\ call[k] = ID!Idle /\ call' = [call EXCEPT ![k] = next]
        /\ UNCHANGED <<ID!account, profiles, objects>>
        /\ count' = [count EXCEPT !.uploads = key]
    BY <1>1, <2>n DEF ID!Upload, ID!Become
  <2>2. count.uploads \in Nat /\ key \in Nat \ {0}
    BY DEF AccountsInv, AccountsTyped
  <2>3. next \in Uploads
    BY <2>n, <2>2 DEF Uploads
  <2>4. /\ call' \in [Caller -> {ID!Idle} \cup Creations \cup Uploads] /\ call'[k] = next
        /\ \A j \in Caller : j # k => call'[j] = call[j]
        /\ count' \in [uploads : Nat, notes : Nat, faults : Nat] /\ count'.uploads = key
    BY <2>1, <2>2, <2>3 DEF AccountsInv, AccountsTyped
  <2>5. AccountsTyped'
    BY <2>1, <2>4 DEF AccountsInv, AccountsTyped, ID!account
  <2>6. Underway' /\ WholeAccounts'
    BY <2>n, <2>1, <2>4, AccountsAside DEF ID!Idle
  <2>7. WholeFiles'
    BY <2>1 DEF AccountsInv, WholeFiles
  <2>8. Uploading'
    <3>1. \A x \in Email : profiles[x].cv \in 0..count.uploads
      BY DEF AccountsInv, AccountsTyped, Uploading, WholeFiles, ID!NoFile
    <3>2. next.at = "content" /\ next.upload = key
      BY <2>n
    <3>3. \A x \in Email : profiles'[x].cv # key
      BY <2>1, <2>2, <3>1
    <3>4. \A j \in Caller : j # k /\ call'[j].at \in {"content", "metadata", "reference"} =>
            call'[j] = call[j] /\ call'[j].upload \in 1..count.uploads
      BY <2>4 DEF AccountsInv, Uploading
    <3>5. 1..count.uploads \subseteq 1..count'.uploads /\ key \in 1..count'.uploads
          /\ key \notin 1..count.uploads
      BY <2>2, <2>4
    <3> HIDE DEF key
    <3> QED BY <2>1, <2>4, <3>2, <3>3, <3>4, <3>5 DEF AccountsInv, Uploading
  <2> QED BY <2>5, <2>6, <2>7, <2>8 DEF AccountsInv
<1>2. ASSUME call[k].at \in {"content", "metadata", "reference"}
      PROVE  /\ call[k] \in Uploads /\ call[k].upload \in 1..count.uploads
             /\ \A x \in Email : profiles[x].cv # call[k].upload
             /\ \A j \in Caller : j # k /\ call[j].at \in {"content", "metadata", "reference"} =>
                  call[j].upload # call[k].upload
  <2>1. call[k] \in Uploads
    BY <1>2 DEF AccountsInv, AccountsTyped, ID!Idle, Creations, Uploads
  <2> QED BY <1>2, <2>1 DEF AccountsInv, Uploading
<1>3. CASE ID!PutContent(k) \/ ID!PutMetadata(k)
  <2>k. PICK key : key = call[k].upload
    OBVIOUS
  <2>n. PICK next : next = [call[k] EXCEPT !.at = IF call[k].at = "content" THEN "metadata"
                                                  ELSE "reference"]
    OBVIOUS
  <2>1. /\ call[k].at \in {"content", "metadata"} /\ call' = [call EXCEPT ![k] = next]
        /\ UNCHANGED <<ID!account, profiles, count>>
    BY <1>3, <2>n DEF ID!PutContent, ID!PutMetadata, ID!Become
  <2>2. /\ key \in 1..count.uploads /\ key \in Nat
        /\ next \in Uploads /\ next.upload = key
        /\ next.at = IF call[k].at = "content" THEN "metadata" ELSE "reference"
    BY <1>2, <2>k, <2>n, <2>1 DEF Uploads, AccountsInv, AccountsTyped
  <2>3. /\ call' \in [Caller -> {ID!Idle} \cup Creations \cup Uploads] /\ call'[k] = next
        /\ \A j \in Caller : j # k => call'[j] = call[j]
    BY <2>1, <2>2 DEF AccountsInv, AccountsTyped
  <2>4. /\ DOMAIN objects' = DOMAIN objects \cup {key}
        /\ objects' \in [DOMAIN objects' -> [content : Nat, metadata : Nat]]
        /\ \A o \in DOMAIN objects : o # key => objects'[o] = objects[o]
        /\ objects'[key].content = key
        /\ call[k].at = "metadata" => objects'[key].metadata = key
    <3>1. CASE ID!PutContent(k)
      BY <1>3, <2>k, <2>2, <3>1
         DEF ID!PutContent, ID!ObjectKey, ID!NoFile, AccountsInv, AccountsTyped
    <3>2. CASE ID!PutMetadata(k)
      <4>1. /\ key \in DOMAIN objects /\ objects[key].content = key
            /\ call[k].at = "metadata"
        BY <2>k, <3>2 DEF ID!PutMetadata, AccountsInv, Uploading
      <4>2. objects' = [objects EXCEPT ![key].metadata = key]
        BY <2>k, <3>2 DEF ID!PutMetadata, ID!ObjectKey
      <4> QED BY <2>2, <4>1, <4>2 DEF AccountsInv, AccountsTyped
    <3> QED BY <1>3, <3>1, <3>2
  <2>5. AccountsTyped'
    BY <2>1, <2>3, <2>4 DEF AccountsInv, AccountsTyped, ID!account
  <2>6. Underway' /\ WholeAccounts'
    <3>1. next.at \in {"metadata", "reference"}
      BY <2>1, <2>2
    <3> QED BY <2>1, <2>3, <3>1, AccountsAside
  <2>7. WholeFiles'
    BY <1>2, <2>k, <2>1, <2>4 DEF AccountsInv, WholeFiles
  <2>8. Uploading'
    <3>1. \A j \in Caller : j # k /\ call'[j].at \in {"content", "metadata", "reference"} =>
            call'[j] = call[j] /\ call'[j].upload # key
      BY <1>2, <2>k, <2>1, <2>3
    <3>2. /\ \A o \in DOMAIN objects' : o \in 1..count'.uploads
          /\ \A x \in Email : profiles'[x].cv # key
      BY <1>2, <2>k, <2>1, <2>2, <2>4 DEF AccountsInv, Uploading
    <3> QED BY <2>1, <2>2, <2>3, <2>4, <3>1, <3>2 DEF AccountsInv, Uploading
  <2> QED BY <2>5, <2>6, <2>7, <2>8 DEF AccountsInv
<1>4. CASE ID!SetReference(k)
  <2>k. PICK key : key = call[k].upload
    OBVIOUS
  <2>1. /\ call[k].at = "reference" /\ call' = [call EXCEPT ![k] = ID!Idle]
        /\ UNCHANGED <<ID!account, objects, count>>
        /\ profiles' = IF profiles[call[k].of].made
                       THEN [profiles EXCEPT ![call[k].of].cv = key] ELSE profiles
    BY <1>4, <2>k DEF ID!SetReference, ID!Become, ID!ObjectKey
  <2>2. /\ key \in 1..count.uploads /\ key \in Nat /\ call[k].of \in Email
        /\ key \in DOMAIN objects /\ objects[key].content = objects[key].metadata
    BY <1>2, <2>k, <2>1 DEF Uploads, AccountsInv, AccountsTyped, Uploading
  <2>3. /\ call' \in [Caller -> {ID!Idle} \cup Creations \cup Uploads] /\ call'[k] = ID!Idle
        /\ \A j \in Caller : j # k => call'[j] = call[j]
    BY <2>1 DEF AccountsInv, AccountsTyped
  <2>4. /\ profiles' \in [Email -> [made : BOOLEAN, name : Text \cup {ID!None}, cv : Nat]]
        /\ \A x \in Email : profiles'[x].cv \in {key, profiles[x].cv}
        /\ \A x \in Email : profiles'[x].made = profiles[x].made
    BY <2>1, <2>2 DEF AccountsInv, AccountsTyped
  <2>5. AccountsTyped'
    BY <2>1, <2>3, <2>4 DEF AccountsInv, AccountsTyped, ID!account
  <2>6. Underway' /\ WholeAccounts'
    BY <2>1, <2>3, <2>4, AccountsAside DEF ID!Idle
  <2>7. WholeFiles'
    BY <2>1, <2>2, <2>4 DEF AccountsInv, WholeFiles
  <2>8. Uploading'
    <3>1. \A j \in Caller : call'[j].at \in {"content", "metadata", "reference"} =>
            j # k /\ call'[j] = call[j] /\ call'[j].upload # key
      BY <1>2, <2>k, <2>1, <2>3 DEF ID!Idle
    <3> QED BY <2>1, <2>4, <3>1 DEF AccountsInv, Uploading
  <2> QED BY <2>5, <2>6, <2>7, <2>8 DEF AccountsInv
<1> QED BY <1>1, <1>3, <1>4

LEMMA AccountsStep ==
  ASSUME DemoAccounts, AccountsInv, [ID!Next]_(ID!vars)
  PROVE  AccountsInv'
<1>1. CASE UNCHANGED ID!vars
  BY <1>1, NotesKeep DEF ID!vars, AccountsInv, AccountsTyped, Underway, Founded, Uploading,
     WholeAccounts, WholeFiles, ID!Whole, ID!Creating
<1>2. ASSUME NEW k \in Caller, NEW e \in Email,
             \/ ID!Register(k, e) \/ ID!Provision(k, e) \/ ID!DeleteProfile(k, e)
             \/ ID!Upload(k, e) \/ \E name \in Text \cup {ID!None} : ID!UpdateProfile(k, e, name)
      PROVE  AccountsInv'
  BY <1>2, RegisterKeeps, ProvisionKeeps, ProfileKeeps, UploadKeeps
<1>3. ASSUME NEW k \in Caller,
             \/ \E e \in Email, text \in Text : ID!CreateNote(k, e, text)
             \/ \E n \in notes : ID!DeleteNote(k, n) \/ \E text \in Text : ID!UpdateNote(k, n, text)
      PROVE  AccountsInv'
  <2>1. UNCHANGED <<ID!account, profiles, objects, call>>
    BY <1>3 DEF ID!CreateNote, ID!DeleteNote, ID!UpdateNote
  <2>2. count' \in [uploads : {count.uploads}, notes : Nat, faults : Nat]
    BY <1>3 DEF ID!CreateNote, ID!DeleteNote, ID!UpdateNote, AccountsInv, AccountsTyped
  <2> QED BY <2>1, <2>2, NotesKeep
<1>4. ASSUME NEW k \in Caller,
             \/ ID!CreateUser(k) \/ ID!AssignRoles(k) \/ ID!FindProfile(k) \/ ID!CreateProfile(k)
             \/ ID!PutContent(k) \/ ID!PutMetadata(k) \/ ID!SetReference(k) \/ ID!Fail(k)
      PROVE  AccountsInv'
  <2>1. ID!PutContent(k) \/ ID!PutMetadata(k) \/ ID!SetReference(k) => Email # {}
    BY DEF ID!PutContent, ID!PutMetadata, ID!SetReference, AccountsInv, AccountsTyped, ID!Idle,
           Uploads, Creations
  <2> QED BY <1>4, <2>1, CreateUserKeeps, AssignRolesKeeps, FindProfileKeeps, CreateProfileKeeps,
             UploadKeeps, FailKeeps
<1> QED BY <1>1, <1>2, <1>3, <1>4 DEF ID!Next

LEMMA AccountsHold == AccountsInv => ID!AccountsAreWhole
BY DEF AccountsInv, WholeAccounts, WholeFiles, ID!AccountsAreWhole

\* However registrations, starting processes, deletions and uploads cross and fail:
\* an account whose creation was answered, or ended undisturbed, has its roles and
\* its profile, and the file a profile names is one whole upload (AuthService,
\* provisionPublicDemoAccount, ProfileService, FileSystemObjectStorage).
THEOREM AccountsStayWhole ==
  ASSUME DemoAccounts
  PROVE  ID!Spec => []ID!AccountsAreWhole
<1>1. AccountsInv /\ [ID!Next]_(ID!vars) => AccountsInv'
  BY AccountsStep
<1> QED BY AccountsStart, AccountsHold, <1>1, PTL DEF ID!Spec

\* What the notes are of, and what a creation or a profile that was made has
\* behind it: a user.
Members ==
  /\ users \subseteq Email /\ acknowledged \subseteq users /\ removed \subseteq users
  /\ disturbed \subseteq Email
  /\ \A e \in Email : profiles[e].made => e \in users
  /\ \A k \in Caller : call[k].at \in {"role", "profile?", "profile"} => call[k].of \in users
  /\ notes \subseteq [of : users, id : 1..MaxNotes, text : Text]
  /\ count.uploads <= MaxUploads /\ count.notes <= MaxNotes

FileBounds == MaxUploads \in Nat /\ MaxNotes \in Nat

LEMMA MembersStart == FileBounds /\ ID!Init => Members
BY DEF FileBounds, ID!Init, Members, ID!Idle, ID!NoProfile

\* What leaves the notes and their number alone.
LEMMA MembersAside ==
  ASSUME Members, UNCHANGED notes, users \subseteq users', users' \subseteq Email,
         acknowledged' \subseteq users', removed' \subseteq users', disturbed' \subseteq Email,
         \A e \in Email : profiles'[e].made => e \in users',
         count'.uploads <= MaxUploads, count'.notes <= MaxNotes,
         NEW k \in Caller, \A j \in Caller \ {k} : call'[j] = call[j],
         call'[k].at \in {"role", "profile?", "profile"} => call'[k].of \in users'
  PROVE  Members'
<1>1. notes' \subseteq [of : users', id : 1..MaxNotes, text : Text]
  BY DEF Members
<1>2. \A j \in Caller : call'[j].at \in {"role", "profile?", "profile"} => call'[j].of \in users'
  BY DEF Members
<1> QED BY <1>1, <1>2 DEF Members

LEMMA CreationMembers ==
  ASSUME AccountsInv, Members, FileBounds, NEW k \in Caller,
         ID!CreateUser(k) \/ ID!AssignRoles(k) \/ ID!FindProfile(k) \/ ID!CreateProfile(k)
  PROVE  Members'
<1>1. call[k] \in Creations /\ UNCHANGED <<notes, count>>
  BY DEF ID!CreateUser, ID!AssignRoles, ID!FindProfile, ID!CreateProfile, ID!Idle,
         AccountsInv, AccountsTyped, Uploads
<1>2. PICK e \in Email : e = call[k].of
  BY <1>1 DEF Creations
<1>3. \A j \in Caller \ {k} : call'[j] = call[j]
  BY DEF ID!CreateUser, ID!AssignRoles, ID!FindProfile, ID!CreateProfile, ID!Become,
         AccountsInv, AccountsTyped
<1>4. call' = [call EXCEPT ![k] = call'[k]] /\ (call'[k].of = e \/ call'[k] = ID!Idle)
  BY <1>1, <1>2 DEF ID!CreateUser, ID!AssignRoles, ID!FindProfile, ID!CreateProfile, ID!Become,
         AccountsInv, AccountsTyped, Creations
<1>5. CASE ID!CreateUser(k)
  BY <1>1, <1>2, <1>3, <1>4, <1>5, MembersAside DEF ID!CreateUser, Members, ID!Idle
<1>6. CASE ID!AssignRoles(k) \/ ID!FindProfile(k)
  BY <1>1, <1>2, <1>3, <1>4, <1>6, MembersAside DEF ID!AssignRoles, ID!FindProfile, ID!account,
     Members, ID!Idle
<1>7. CASE ID!CreateProfile(k)
  <2>1. e \in users
    BY <1>2, <1>7 DEF ID!CreateProfile, Members
  <2>2. \A x \in Email : x # e => profiles'[x] = profiles[x]
    BY <1>2, <1>7 DEF ID!CreateProfile, AccountsInv, AccountsTyped
  <2> QED BY <1>1, <1>2, <1>3, <1>4, <1>7, <2>1, <2>2, MembersAside
             DEF ID!CreateProfile, Members, ID!Idle
<1> QED BY <1>5, <1>6, <1>7

LEMMA NotesMembers ==
  ASSUME AccountsInv, Members, FileBounds, NEW k \in Caller,
         \/ \E e \in Email, text \in Text : ID!CreateNote(k, e, text)
         \/ \E n \in notes : ID!DeleteNote(k, n) \/ \E text \in Text : ID!UpdateNote(k, n, text)
  PROVE  Members'
<1>1. UNCHANGED <<ID!account, profiles, call>>
  BY DEF ID!CreateNote, ID!DeleteNote, ID!UpdateNote
<1>2. count'.uploads <= MaxUploads /\ count'.notes <= MaxNotes
  BY DEF ID!CreateNote, ID!DeleteNote, ID!UpdateNote, Members, AccountsInv, AccountsTyped, FileBounds
<1>3. notes' \subseteq [of : users, id : 1..MaxNotes, text : Text]
  <2>1. ASSUME NEW e \in Email, NEW text \in Text, ID!CreateNote(k, e, text)
        PROVE  notes' \subseteq [of : users, id : 1..MaxNotes, text : Text]
    <3>1. count.notes + 1 \in 1..MaxNotes
      BY <2>1 DEF ID!CreateNote, AccountsInv, AccountsTyped, FileBounds
    <3> QED BY <2>1, <3>1 DEF ID!CreateNote, Members
  <2>2. ASSUME NEW n \in notes, NEW text \in Text, ID!UpdateNote(k, n, text)
        PROVE  notes' \subseteq [of : users, id : 1..MaxNotes, text : Text]
    <3>1. [n EXCEPT !.text = text] \in [of : users, id : 1..MaxNotes, text : Text]
      BY DEF Members
    <3> QED BY <2>2, <3>1 DEF ID!UpdateNote, Members
  <2>3. ASSUME NEW n \in notes, ID!DeleteNote(k, n)
        PROVE  notes' \subseteq [of : users, id : 1..MaxNotes, text : Text]
    BY <2>3 DEF ID!DeleteNote, Members
  <2> QED BY <2>1, <2>2, <2>3
<1> QED BY <1>1, <1>2, <1>3 DEF ID!account, Members

LEMMA MembersStep ==
  ASSUME FileBounds, AccountsInv, Members, [ID!Next]_(ID!vars)
  PROVE  Members'
<1>1. CASE UNCHANGED ID!vars
  BY <1>1 DEF ID!vars, Members
<1>2. ASSUME NEW k \in Caller, NEW e \in Email, ID!Register(k, e) \/ ID!Provision(k, e)
      PROVE  Members'
  <2>1. /\ UNCHANGED <<users, acknowledged, removed, disturbed, profiles, notes, count>>
        /\ call'[k].at \in {"user", "profile?"} /\ call'[k].of = e
        /\ call'[k].at = "profile?" => e \in users
        /\ \A j \in Caller \ {k} : call'[j] = call[j]
    BY <1>2 DEF ID!Register, ID!Provision, ID!Become, ID!account, AccountsInv, AccountsTyped
  <2> QED BY <2>1, MembersAside DEF Members
<1>3. ASSUME NEW k \in Caller, NEW e \in Email,
             ID!DeleteProfile(k, e) \/ \E name \in Text \cup {ID!None} : ID!UpdateProfile(k, e, name)
      PROVE  Members'
  <2>1. /\ profiles[e].made /\ call[k].at = "idle"
        /\ UNCHANGED <<users, acknowledged, disturbed, notes, call, count>>
        /\ removed' = removed \/ removed' = removed \cup {e}
    BY <1>3 DEF ID!DeleteProfile, ID!UpdateProfile, ID!account, ID!Idle
  <2>2. \A x \in Email : profiles'[x].made => profiles[x].made
    BY <1>3 DEF ID!DeleteProfile, ID!UpdateProfile, ID!NoProfile, AccountsInv, AccountsTyped
  <2> QED BY <2>1, <2>2, MembersAside DEF Members
<1>4. ASSUME NEW k \in Caller, NEW e \in Email, ID!Upload(k, e)
      PROVE  Members'
  <2>1. /\ UNCHANGED <<users, acknowledged, removed, disturbed, profiles, notes>>
        /\ call'[k].at = "content" /\ \A j \in Caller \ {k} : call'[j] = call[j]
    BY <1>4 DEF ID!Upload, ID!Become, ID!account, AccountsInv, AccountsTyped
  <2>2. count'.uploads <= MaxUploads /\ count'.notes <= MaxNotes
    BY <1>4 DEF ID!Upload, AccountsInv, AccountsTyped, Members, FileBounds
  <2> QED BY <2>1, <2>2, MembersAside DEF Members
<1>5. ASSUME NEW k \in Caller, ID!PutContent(k) \/ ID!PutMetadata(k) \/ ID!SetReference(k)
      PROVE  Members'
  <2>1. /\ UNCHANGED <<users, acknowledged, removed, disturbed, notes, count>>
        /\ call'[k].at \in {"metadata", "reference", "idle"} /\ \A j \in Caller \ {k} : call'[j] = call[j]
    BY <1>5 DEF ID!PutContent, ID!PutMetadata, ID!SetReference, ID!Become, ID!account, ID!Idle,
       AccountsInv, AccountsTyped, Uploads, Creations
  <2>2. \A x \in Email : profiles'[x].made = profiles[x].made
    BY <1>5 DEF ID!PutContent, ID!PutMetadata, ID!SetReference, AccountsInv, AccountsTyped
  <2> QED BY <2>1, <2>2, MembersAside DEF Members
<1>6. ASSUME NEW k \in Caller, ID!Fail(k)
      PROVE  Members'
  <2>1. /\ UNCHANGED <<users, acknowledged, removed, profiles, notes>>
        /\ call'[k].at = "idle" /\ \A j \in Caller \ {k} : call'[j] = call[j]
        /\ count'.uploads = count.uploads /\ count'.notes = count.notes
    BY <1>6 DEF ID!Fail, ID!Become, ID!Idle, AccountsInv, AccountsTyped
  <2>2. disturbed' \subseteq Email
    BY <1>6 DEF ID!Fail, ID!Idle, AccountsInv, AccountsTyped, Creations, Uploads, Members
  <2> QED BY <2>1, <2>2, MembersAside DEF Members
<1> QED BY <1>1, <1>2, <1>3, <1>4, <1>5, <1>6, CreationMembers, NotesMembers DEF ID!Next

LEMMA AccountsAreTyped == FileBounds /\ AccountsInv /\ Members => ID!TypeOK
<1> SUFFICES ASSUME FileBounds, AccountsInv, Members PROVE ID!TypeOK
  OBVIOUS
<1>1. \A e \in Email : profiles[e].name \in Text \cup {ID!None}
  BY DEF AccountsInv, AccountsTyped
<1>2. DOMAIN objects \subseteq 1..MaxUploads
  BY DEF AccountsInv, AccountsTyped, Uploading, Members, FileBounds
<1> QED BY <1>1, <1>2 DEF Members, ID!TypeOK

\* However the requests of the callers interleave and fail: roles, profiles and
\* notes are those of users, and an object stored is one of an upload that was
\* made (AuthService, ProfileService, FileSystemObjectStorage).
THEOREM AccountsStayTyped ==
  ASSUME DemoAccounts, FileBounds
  PROVE  ID!Spec => []ID!TypeOK
<1>1. ID!Init => AccountsInv /\ Members
  BY AccountsStart, MembersStart
<1>2. AccountsInv /\ Members /\ [ID!Next]_(ID!vars) => (AccountsInv /\ Members)'
  BY AccountsStep, MembersStep
<1>3. AccountsInv /\ Members => ID!TypeOK
  BY AccountsAreTyped
<1> QED BY <1>1, <1>2, <1>3, PTL DEF ID!Spec

-----------------------------------------------------------------------------
(***************************************************************************)
(* Talent tests and saved events.                                          *)
(*                                                                         *)
(* Timely says of a user whose tests never overlapped what a test under    *)
(* way has stored and what the profile shows in the meantime; Numbered     *)
(* that an event keeps the id under which it was saved or is being saved.  *)
(***************************************************************************)
Sector == {CS!PrimarySector(a) : a \in CS!Submissions}

Tests     == [at : {"result", "profile"}, user : User, stamp : Nat, primary : Sector]
Scrapes   == [at : {"scrape"}, source : Nat \ {0}]
Upserts   == [at : {"upsert"}, source : Nat \ {0}, listed : SUBSET Event]
Snapshots == [at : {"snapshot"}, user : User, id : Nat, event : Event]
Invites   == [at : {"invite"}, appointment : Nat]
Calls     == {CS!Idle} \cup Tests \cup Scrapes \cup Upserts \cup Snapshots \cup Invites

ServicesTyped ==
  /\ results \subseteq [user : User, stamp : Nat, primary : Sector]
  /\ profile \in [User -> [result : Nat, sector : Sector \cup {CS!Unset}]]
  /\ events \in [Event -> [id : Nat, fresh : BOOLEAN]]
  /\ saved \subseteq [user : User, id : Nat, event : Event]
  /\ appointments \in Nat
  /\ call \in [Caller -> Calls]
  /\ clock \in [tests : Nat, refreshes : Nat, ids : Nat, faults : Nat]

Ofs(u) == {r \in results : r.user = u}

Timely ==
  /\ \A r \in results : r.stamp <= clock.tests
  /\ \A k \in Caller : call[k].at \in {"result", "profile"} => call[k].stamp <= clock.tests
  /\ \A k \in Caller : call[k].at = "profile" =>
       \E r \in Ofs(call[k].user) : r.stamp = call[k].stamp
  /\ \A u \in User :
       /\ profile[u].result = 0 \/ \E r \in Ofs(u) : r.stamp = profile[u].result
       /\ u \notin contested =>
            /\ \A k, j \in CS!Testing(u) : k = j
            /\ \A k \in CS!Testing(u) : \A r \in Ofs(u) : r.stamp <= call[k].stamp
            /\ (\A k \in CS!Testing(u) : call[k].at = "result") =>
                 \A r \in Ofs(u) : r.stamp <= profile[u].result

Numbered ==
  /\ \A e \in Event : events[e].id = 0 => events[e] = CS!NoEvent
  /\ \A s \in saved : s.id # 0 /\ events[s.event].id = s.id
  /\ \A k \in Caller : call[k].at = "snapshot" =>
       call[k].id # 0 /\ events[call[k].event].id = call[k].id

ServicesInv == ServicesTyped /\ Timely /\ Numbered

\* The sources list events.
ListedEvents == Offers \in Seq(SUBSET Event)

LEMMA ServicesStart == CS!Init => ServicesInv
<1> SUFFICES ASSUME CS!Init PROVE ServicesInv
  OBVIOUS
<1>1. ServicesTyped
  BY DEF CS!Init, ServicesTyped, CS!NoEvent, Calls
<1>2. Timely
  BY DEF CS!Init, Timely, Ofs, CS!Idle, CS!Testing
<1>3. Numbered
  BY DEF CS!Init, Numbered, CS!Idle
<1> QED BY <1>1, <1>2, <1>3 DEF ServicesInv

\* What is no step of a test leaves the tests alone.
LEMMA TestsAside ==
  ASSUME Timely, UNCHANGED <<results, profile, contested>>, clock'.tests = clock.tests,
         \A j \in Caller : \/ call'[j] = call[j]
                           \/ /\ call[j].at \notin {"result", "profile"}
                              /\ call'[j].at \notin {"result", "profile"}
  PROVE  Timely'
<1>1. \A u \in User : (Ofs(u))' = Ofs(u) /\ (CS!Testing(u))' = CS!Testing(u)
  BY DEF Ofs, CS!Testing
<1>2. \A u \in User : \A k \in CS!Testing(u) : call'[k] = call[k]
  BY DEF CS!Testing
<1>3. \A j \in Caller : call'[j].at \in {"result", "profile"} => call'[j] = call[j]
  OBVIOUS
<1> QED BY <1>1, <1>2, <1>3 DEF Timely, Ofs

\* What neither numbers nor saves an event leaves the numbers alone.
LEMMA EventsAside ==
  ASSUME Numbered, UNCHANGED <<events, saved>>,
         \A j \in Caller : call'[j] = call[j] \/ call'[j].at # "snapshot"
  PROVE  Numbered'
BY DEF Numbered

LEMMA SubmitKeeps ==
  ASSUME NEW k \in Caller, NEW u \in User, NEW a \in CS!Submissions,
         ServicesInv, CS!SubmitTest(k, u, a)
  PROVE  ServicesInv'
<1> USE DEF CS!Become
<1>0. ServicesTyped /\ Timely /\ Numbered
  BY DEF ServicesInv
<1> PICK next : next = [at |-> "result", user |-> u, stamp |-> clock.tests + 1,
                        primary |-> CS!PrimarySector(a)]
  OBVIOUS
<1>1. next \in Tests /\ next.at = "result" /\ next.user = u /\ next.stamp = clock.tests + 1
  BY <1>0 DEF ServicesTyped, Tests, Sector
<1>2. call' = [call EXCEPT ![k] = next] /\ call[k] = CS!Idle
  BY DEF CS!SubmitTest
<1>3. /\ UNCHANGED <<results, profile, events, saved, appointments>>
      /\ clock' = [clock EXCEPT !.tests = @ + 1]
      /\ contested' = IF CS!Testing(u) = {} THEN contested ELSE contested \cup {u}
  BY DEF CS!SubmitTest
<1>4. call \in [Caller -> Calls] /\ clock.tests \in Nat /\ clock'.tests = clock.tests + 1
  BY <1>0, <1>3 DEF ServicesTyped
<1>5. ServicesTyped'
  BY <1>0, <1>1, <1>2, <1>3 DEF ServicesTyped, Calls
<1>6. Numbered'
  BY <1>0, <1>1, <1>2, <1>3, <1>4, EventsAside
<1>7. /\ \A r \in results : r.stamp \in Nat
      /\ \A j \in Caller : call[j].at \in {"result", "profile"} => call[j].stamp \in Nat
  BY <1>0 DEF ServicesTyped, Calls, CS!Idle, Tests, Scrapes, Upserts, Snapshots, Invites
<1>8. call'[k] = next /\ \A j \in Caller : j # k => call'[j] = call[j]
  BY <1>2, <1>4
<1>9. \A v \in User : (Ofs(v))' = Ofs(v)
  BY <1>3 DEF Ofs
<1>10. \A v \in User : v # u => (CS!Testing(v))' = CS!Testing(v)
  BY <1>1, <1>2, <1>8 DEF CS!Testing, CS!Idle
<1>11. (CS!Testing(u))' = CS!Testing(u) \cup {k} /\ k \notin CS!Testing(u)
  BY <1>1, <1>2, <1>8 DEF CS!Testing, CS!Idle
<1>12. /\ \A r \in results' : r.stamp <= clock'.tests
       /\ \A j \in Caller : call'[j].at \in {"result", "profile"} => call'[j].stamp <= clock'.tests
       /\ \A j \in Caller : call'[j].at = "profile" =>
            \E r \in (Ofs(call[j].user))' : r.stamp = call'[j].stamp
  <2>1. \A r \in results' : r.stamp <= clock'.tests
    BY <1>0, <1>3, <1>4, <1>7 DEF Timely
  <2>2. \A j \in Caller : call'[j].at \in {"result", "profile"} => call'[j].stamp <= clock'.tests
    BY <1>0, <1>1, <1>4, <1>7, <1>8 DEF Timely
  <2>3. \A j \in Caller : call'[j].at = "profile" =>
          \E r \in (Ofs(call[j].user))' : r.stamp = call'[j].stamp
    BY <1>0, <1>1, <1>3, <1>8 DEF Timely, Ofs
  <2> QED BY <2>1, <2>2, <2>3
<1>13. ASSUME NEW v \in User
       PROVE  /\ profile'[v].result = 0 \/ \E r \in (Ofs(v))' : r.stamp = profile'[v].result
              /\ v \notin contested' =>
                   /\ \A x, j \in (CS!Testing(v))' : x = j
                   /\ \A x \in (CS!Testing(v))' : \A r \in (Ofs(v))' : r.stamp <= call'[x].stamp
                   /\ (\A x \in (CS!Testing(v))' : call'[x].at = "result") =>
                        \A r \in (Ofs(v))' : r.stamp <= profile'[v].result
  <2>1. profile'[v].result = 0 \/ \E r \in (Ofs(v))' : r.stamp = profile'[v].result
    BY <1>0, <1>3, <1>9 DEF Timely
  <2>2. CASE v # u
    <3>1. (CS!Testing(v))' = CS!Testing(v) /\ k \notin CS!Testing(v)
      BY <1>2, <1>10, <2>2 DEF CS!Testing, CS!Idle
    <3>2. \A x \in CS!Testing(v) : call'[x] = call[x]
      BY <1>8, <3>1 DEF CS!Testing
    <3>3. v \notin contested' => v \notin contested
      BY <1>3
    <3> QED BY <1>0, <1>3, <1>9, <2>1, <3>1, <3>2, <3>3 DEF Timely
  <2>3. CASE v = u
    <3>1. u \notin contested' => CS!Testing(u) = {} /\ u \notin contested
      BY <1>3
    <3>2. u \notin contested' => (CS!Testing(u))' = {k}
      BY <1>11, <3>1
    <3>3. \A r \in Ofs(u) : r.stamp <= clock.tests /\ r.stamp \in Nat
      BY <1>0, <1>7 DEF Timely, Ofs
    <3>4. \A r \in Ofs(u) : r.stamp <= call'[k].stamp
      BY <1>1, <1>4, <1>8, <3>3
    <3>5. u \notin contested' => \A r \in Ofs(u) : r.stamp <= profile[u].result
      BY <1>0, <3>1 DEF Timely
    <3> QED BY <1>3, <1>9, <2>1, <2>3, <3>2, <3>4, <3>5
  <2> QED BY <2>2, <2>3
<1>14. \A j \in Caller : call'[j].at = "profile" => call'[j] = call[j]
  BY <1>1, <1>8
<1>15. Timely'
  <2>1. \A j \in Caller : call'[j].at = "profile" =>
          \E r \in (Ofs(call[j].user))' : r.stamp = call'[j].stamp
    BY <1>12
  <2>2. \A j \in Caller : call'[j].at = "profile" =>
          \E r \in {y \in results' : y.user = call'[j].user} : r.stamp = call'[j].stamp
    BY <1>14, <2>1 DEF Ofs
  <2> QED BY <1>12, <1>13, <2>2 DEF Timely, Ofs
<1> QED BY <1>5, <1>6, <1>15 DEF ServicesInv

LEMMA StoreKeeps ==
  ASSUME NEW k \in Caller, ServicesInv, CS!StoreResult(k)
  PROVE  ServicesInv'
<1> USE DEF CS!Become
<1>0. ServicesTyped /\ Timely /\ Numbered
  BY DEF ServicesInv
<1>1. call[k] \in Tests /\ call[k].at = "result"
  BY <1>0 DEF CS!StoreResult, ServicesTyped, Calls, CS!Idle, Scrapes, Upserts, Snapshots, Invites
<1> PICK next : next = [call[k] EXCEPT !.at = "profile"]
  OBVIOUS
<1> PICK row : row = [user |-> call[k].user, stamp |-> call[k].stamp, primary |-> call[k].primary]
  OBVIOUS
<1>2. /\ next \in Tests /\ next.at = "profile"
      /\ next.user = call[k].user /\ next.stamp = call[k].stamp
  BY <1>1 DEF Tests
<1>3. /\ row \in [user : User, stamp : Nat, primary : Sector]
      /\ row.user = call[k].user /\ row.stamp = call[k].stamp
  BY <1>1 DEF Tests
<1>4. /\ call' = [call EXCEPT ![k] = next] /\ results' = results \cup {row}
      /\ UNCHANGED <<profile, events, saved, appointments, clock, contested>>
  BY DEF CS!StoreResult
<1>5. call \in [Caller -> Calls]
  BY <1>0 DEF ServicesTyped
<1>6. ServicesTyped'
  BY <1>0, <1>2, <1>3, <1>4 DEF ServicesTyped, Calls
<1>7. call'[k] = next /\ \A j \in Caller : j # k => call'[j] = call[j]
  BY <1>4, <1>5
<1>8. Numbered'
  BY <1>0, <1>2, <1>4, <1>7, EventsAside
<1>9. call[k].user \in User /\ call[k].stamp \in Nat /\ call[k].stamp <= clock.tests
  BY <1>0, <1>1 DEF Tests, Timely
<1>10. \A v \in User : (CS!Testing(v))' = CS!Testing(v)
  <2> TAKE v \in User
  <2>1. k \in (CS!Testing(v))' <=> k \in CS!Testing(v)
    BY <1>1, <1>2, <1>7 DEF CS!Testing
  <2>2. \A j \in Caller : j # k => (j \in (CS!Testing(v))' <=> j \in CS!Testing(v))
    BY <1>7 DEF CS!Testing
  <2>3. (CS!Testing(v))' \subseteq Caller /\ CS!Testing(v) \subseteq Caller
    BY DEF CS!Testing
  <2> QED BY <2>1, <2>2, <2>3
<1>11. k \in CS!Testing(call[k].user)
  BY <1>1 DEF CS!Testing
<1>12. \A v \in User : v # call[k].user => (Ofs(v))' = Ofs(v) /\ k \notin CS!Testing(v)
  BY <1>3, <1>4 DEF Ofs, CS!Testing
<1>13. \A r \in results' : r.stamp <= clock'.tests
  BY <1>0, <1>3, <1>4, <1>9 DEF Timely
<1>14. \A j \in Caller : call'[j].at \in {"result", "profile"} => call'[j].stamp <= clock'.tests
  BY <1>0, <1>2, <1>4, <1>7, <1>9 DEF Timely
<1>15. \A j \in Caller : call'[j].at = "profile" =>
         \E r \in {y \in results' : y.user = call'[j].user} : r.stamp = call'[j].stamp
  <2> SUFFICES ASSUME NEW j \in Caller, call'[j].at = "profile"
               PROVE  \E r \in results' : r.user = call'[j].user /\ r.stamp = call'[j].stamp
    OBVIOUS
  <2>1. CASE j = k
    BY <1>2, <1>3, <1>4, <1>7, <2>1
  <2>2. CASE j # k
    BY <1>0, <1>4, <1>7, <2>2 DEF Timely, Ofs
  <2> QED BY <2>1, <2>2
<1>16. ASSUME NEW v \in User
       PROVE  /\ profile'[v].result = 0 \/ \E r \in (Ofs(v))' : r.stamp = profile'[v].result
              /\ v \notin contested' =>
                   /\ \A x, j \in (CS!Testing(v))' : x = j
                   /\ \A x \in (CS!Testing(v))' : \A r \in (Ofs(v))' : r.stamp <= call'[x].stamp
                   /\ (\A x \in (CS!Testing(v))' : call'[x].at = "result") =>
                        \A r \in (Ofs(v))' : r.stamp <= profile'[v].result
  <2>1. profile'[v].result = 0 \/ \E r \in (Ofs(v))' : r.stamp = profile'[v].result
    BY <1>0, <1>4 DEF Timely, Ofs
  <2>2. CASE v # call[k].user
    <3>1. \A x \in CS!Testing(v) : call'[x] = call[x]
      BY <1>7, <1>12, <2>2 DEF CS!Testing
    <3> QED BY <1>0, <1>4, <1>10, <1>12, <2>1, <2>2, <3>1 DEF Timely
  <2>3. CASE v = call[k].user
    <3> SUFFICES ASSUME v \notin contested
                 PROVE  /\ \A x, j \in CS!Testing(v) : x = j
                        /\ \A x \in CS!Testing(v) : \A r \in (Ofs(v))' : r.stamp <= call'[x].stamp
                        /\ \E x \in CS!Testing(v) : call'[x].at # "result"
      BY <1>4, <1>10, <2>1
    <3>1. \A x, j \in CS!Testing(v) : x = j
      BY <1>0 DEF Timely
    <3>2. \A r \in Ofs(v) : r.stamp <= call[k].stamp
      BY <1>0, <1>11, <2>3 DEF Timely
    <3>3. (Ofs(v))' \subseteq Ofs(v) \cup {row}
      BY <1>3, <1>4 DEF Ofs
    <3>4. \A r \in (Ofs(v))' : r.stamp <= call'[k].stamp
      BY <1>2, <1>3, <1>7, <1>9, <3>2, <3>3
    <3> QED BY <1>2, <1>7, <1>11, <2>3, <3>1, <3>4
  <2> QED BY <2>2, <2>3
<1>17. Timely'
  BY <1>13, <1>14, <1>15, <1>16 DEF Timely, Ofs
<1> QED BY <1>6, <1>8, <1>17 DEF ServicesInv

LEMMA ShowKeeps ==
  ASSUME NEW k \in Caller, ServicesInv, CS!ShowResult(k)
  PROVE  ServicesInv'
<1> USE DEF CS!Become
<1>0. ServicesTyped /\ Timely /\ Numbered
  BY DEF ServicesInv
<1>1. call[k] \in Tests /\ call[k].at = "profile"
  BY <1>0 DEF CS!ShowResult, ServicesTyped, Calls, CS!Idle, Scrapes, Upserts, Snapshots, Invites
<1> PICK u \in User : u = call[k].user
  BY <1>1 DEF Tests
<1> PICK shown : shown = [result |-> call[k].stamp,
                          sector |-> IF profile[u].sector = CS!Unset
                                     THEN call[k].primary ELSE profile[u].sector]
  OBVIOUS
<1>2. shown \in [result : Nat, sector : Sector \cup {CS!Unset}] /\ shown.result = call[k].stamp
  BY <1>0, <1>1 DEF ServicesTyped, Tests
<1>3. /\ call' = [call EXCEPT ![k] = CS!Idle] /\ profile' = [profile EXCEPT ![u] = shown]
      /\ UNCHANGED <<results, events, saved, appointments, clock, contested>>
  BY <1>0 DEF CS!ShowResult, ServicesTyped
<1>4. /\ call \in [Caller -> Calls]
      /\ profile \in [User -> [result : Nat, sector : Sector \cup {CS!Unset}]]
  BY <1>0 DEF ServicesTyped
<1>5. ServicesTyped'
  BY <1>0, <1>2, <1>3, <1>4 DEF ServicesTyped, Calls
<1>6. call'[k] = CS!Idle /\ \A j \in Caller : j # k => call'[j] = call[j]
  BY <1>3, <1>4
<1>7. Numbered'
  BY <1>0, <1>3, <1>6, EventsAside DEF CS!Idle
<1>8. \A v \in User : (Ofs(v))' = Ofs(v)
  BY <1>3 DEF Ofs
<1>9. \A v \in User : (CS!Testing(v))' = CS!Testing(v) \ {k}
  BY <1>6 DEF CS!Testing, CS!Idle
<1>10. k \in CS!Testing(u) /\ \A v \in User : v # u => k \notin CS!Testing(v)
  BY <1>1 DEF CS!Testing
<1>11. profile'[u] = shown /\ \A v \in User : v # u => profile'[v] = profile[v]
  BY <1>3, <1>4
<1>12. \E r \in Ofs(u) : r.stamp = shown.result
  BY <1>0, <1>1, <1>2 DEF Timely
<1>13. ASSUME NEW v \in User
       PROVE  /\ profile'[v].result = 0 \/ \E r \in Ofs(v) : r.stamp = profile'[v].result
              /\ v \notin contested =>
                   /\ \A x, j \in CS!Testing(v) \ {k} : x = j
                   /\ \A x \in CS!Testing(v) \ {k} : \A r \in Ofs(v) : r.stamp <= call'[x].stamp
                   /\ (\A x \in CS!Testing(v) \ {k} : call'[x].at = "result") =>
                        \A r \in Ofs(v) : r.stamp <= profile'[v].result
  <2>1. \A x \in CS!Testing(v) \ {k} : call'[x] = call[x]
    BY <1>6 DEF CS!Testing
  <2>2. CASE v # u
    BY <1>0, <1>10, <1>11, <2>1, <2>2 DEF Timely
  <2>3. CASE v = u
    <3>1. v \notin contested => CS!Testing(v) \ {k} = {}
      BY <1>0, <1>10, <2>3 DEF Timely
    <3>2. v \notin contested => \A r \in Ofs(v) : r.stamp <= shown.result
      BY <1>0, <1>2, <1>10, <2>3 DEF Timely
    <3> QED BY <1>11, <1>12, <2>3, <3>1, <3>2
  <2> QED BY <2>2, <2>3
<1>14. \A j \in Caller : call'[j].at \in {"result", "profile"} => call'[j] = call[j]
  BY <1>6 DEF CS!Idle
<1>15. /\ \A r \in results : r.stamp <= clock.tests
       /\ \A j \in Caller : call'[j].at \in {"result", "profile"} => call'[j].stamp <= clock.tests
       /\ \A j \in Caller : call'[j].at = "profile" =>
            \E r \in {y \in results : y.user = call'[j].user} : r.stamp = call'[j].stamp
  BY <1>0, <1>14 DEF Timely, Ofs
<1>16. Timely'
  <2>1. \A v \in User : (Ofs(v))' = Ofs(v) /\ (CS!Testing(v))' = CS!Testing(v) \ {k}
    BY <1>8, <1>9
  <2> QED BY <1>3, <1>13, <1>15, <2>1 DEF Timely, Ofs
<1> QED BY <1>5, <1>7, <1>16 DEF ServicesInv

\* What a request that is no test is doing, and what it turns to.
LEMMA OtherCall ==
  ASSUME ServicesTyped, NEW k \in Caller, NEW next \in Calls,
         call' = [call EXCEPT ![k] = next],
         call[k].at \notin {"result", "profile"}, next.at \notin {"result", "profile"}
  PROVE  /\ call' \in [Caller -> Calls]
         /\ call'[k] = next /\ \A j \in Caller : j # k => call'[j] = call[j]
         /\ \A j \in Caller : \/ call'[j] = call[j]
                              \/ /\ call[j].at \notin {"result", "profile"}
                                 /\ call'[j].at \notin {"result", "profile"}
BY DEF ServicesTyped

LEMMA RefreshKeeps ==
  ASSUME NEW k \in Caller, ServicesInv, ListedEvents,
         (\E force \in BOOLEAN : CS!StartRefresh(k, force)) \/ CS!Scrape(k) \/ CS!NextSource(k)
  PROVE  ServicesInv'
<1> USE DEF CS!Become
<1>0. ServicesTyped /\ Timely /\ Numbered
  BY DEF ServicesInv
<1>1. PICK next \in {CS!Idle} \cup Scrapes \cup Upserts : call' = [call EXCEPT ![k] = next]
  <2>1. CASE \E force \in BOOLEAN : CS!StartRefresh(k, force)
    <3>1. [at |-> "scrape", source |-> 1] \in Scrapes
      BY DEF Scrapes
    <3> QED BY <2>1, <3>1 DEF CS!StartRefresh
  <2>2. CASE CS!Scrape(k)
    <3>1. call[k].source \in Nat \ {0} /\ call[k].source <= Len(Offers)
      BY <1>0, <2>2 DEF CS!Scrape, ServicesTyped, Calls, CS!Idle, Tests, Scrapes, Upserts,
                        Snapshots, Invites
    <3>2. Offers[call[k].source] \subseteq Event
      BY <3>1 DEF ListedEvents
    <3>3. PICK listed \in SUBSET Offers[call[k].source] :
            call' = [call EXCEPT ![k] = [at |-> "upsert", source |-> call[k].source,
                                         listed |-> listed]]
      BY <2>2 DEF CS!Scrape
    <3>4. [at |-> "upsert", source |-> call[k].source, listed |-> listed] \in Upserts
      BY <3>1, <3>2 DEF Upserts
    <3> QED BY <3>3, <3>4
  <2>3. CASE CS!NextSource(k)
    <3>1. CASE call[k].at = "upsert" /\ call' = [call EXCEPT ![k] = [at |-> "scrape",
                                                       source |-> call[k].source + 1]]
      <4>1. call[k].source \in Nat
        BY <1>0, <3>1 DEF ServicesTyped, Calls, CS!Idle, Tests, Scrapes, Upserts, Snapshots,
                          Invites
      <4>2. [at |-> "scrape", source |-> call[k].source + 1] \in Scrapes
        BY <4>1 DEF Scrapes
      <4> QED BY <3>1, <4>2
    <3>2. CASE call' = [call EXCEPT ![k] = CS!Idle]
      BY <3>2
    <3> QED BY <2>3, <3>1, <3>2 DEF CS!NextSource
  <2> QED BY <2>1, <2>2, <2>3
<1>2. next \in Calls /\ next.at \notin {"result", "profile", "snapshot"}
  BY <1>1 DEF Calls, CS!Idle, Scrapes, Upserts
<1>3. /\ UNCHANGED <<results, profile, events, saved, appointments, contested>>
      /\ call[k].at \notin {"result", "profile"}
  BY DEF CS!StartRefresh, CS!Scrape, CS!NextSource, CS!Idle
<1>4. /\ clock' \in [tests : Nat, refreshes : Nat, ids : Nat, faults : Nat]
      /\ clock'.tests = clock.tests
  <2>1. clock' = [clock EXCEPT !.refreshes = clock.refreshes + 1] \/ clock' = clock
    BY <1>0 DEF CS!StartRefresh, CS!Scrape, CS!NextSource, ServicesTyped
  <2> QED BY <1>0, <2>1 DEF ServicesTyped
<1>5. ServicesTyped'
  BY <1>0, <1>1, <1>2, <1>3, <1>4, OtherCall DEF ServicesTyped
<1>6. Timely' /\ Numbered'
  BY <1>0, <1>1, <1>2, <1>3, <1>4, OtherCall, TestsAside, EventsAside
<1> QED BY <1>5, <1>6 DEF ServicesInv

LEMMA StoreEventKeeps ==
  ASSUME NEW k \in Caller, ServicesInv, CS!StoreEvent(k)
  PROVE  ServicesInv'
<1> USE DEF CS!Become
<1>0. ServicesTyped /\ Timely /\ Numbered
  BY DEF ServicesInv
<1>1. call[k] \in Upserts
  BY <1>0 DEF CS!StoreEvent, ServicesTyped, Calls, CS!Idle, Tests, Scrapes, Snapshots, Invites
<1>2. PICK e \in call[k].listed :
        /\ events' = [events EXCEPT ![e] = [id |-> CS!EventId(e), fresh |-> TRUE]]
        /\ clock' = [clock EXCEPT !.ids = IF CS!EventId(e) > clock.ids
                                          THEN CS!EventId(e) ELSE clock.ids]
        /\ call' = [call EXCEPT ![k] = [call[k] EXCEPT !.listed = call[k].listed \ {e}]]
  BY <1>0, <1>1 DEF CS!StoreEvent, ServicesTyped
<1>3. UNCHANGED <<results, profile, saved, appointments, contested>>
  BY DEF CS!StoreEvent
<1>4. e \in Event
  BY <1>1, <1>2 DEF Upserts
<1> PICK next : next = [call[k] EXCEPT !.listed = call[k].listed \ {e}]
  OBVIOUS
<1>5. next \in Upserts /\ next \in Calls
  BY <1>1 DEF Upserts, Calls
<1>6. next.at = "upsert" /\ call[k].at = "upsert" /\ call' = [call EXCEPT ![k] = next]
  BY <1>1, <1>2, <1>5 DEF Upserts
<1>7. events[e] \in [id : Nat, fresh : BOOLEAN] /\ clock.ids \in Nat
  BY <1>0, <1>4 DEF ServicesTyped
<1> PICK id : id = CS!EventId(e)
  OBVIOUS
<1>8. id \in Nat /\ id # 0 /\ (events[e] # CS!NoEvent => id = events[e].id)
  BY <1>0, <1>4, <1>7 DEF CS!EventId, Numbered
<1>9. /\ events' = [events EXCEPT ![e] = [id |-> id, fresh |-> TRUE]]
      /\ clock' = [clock EXCEPT !.ids = IF id > clock.ids THEN id ELSE clock.ids]
  BY <1>2
<1>10. /\ clock' \in [tests : Nat, refreshes : Nat, ids : Nat, faults : Nat]
       /\ clock'.tests = clock.tests
  BY <1>0, <1>8, <1>9 DEF ServicesTyped
<1>11. events' \in [Event -> [id : Nat, fresh : BOOLEAN]]
  BY <1>0, <1>8, <1>9 DEF ServicesTyped
<1>12. ServicesTyped'
  BY <1>0, <1>3, <1>5, <1>6, <1>10, <1>11, OtherCall DEF ServicesTyped
<1>13. Timely'
  BY <1>0, <1>3, <1>5, <1>6, <1>10, OtherCall, TestsAside
<1>14. Numbered'
  <2>1. /\ events'[e].id = id /\ events' \in [Event -> [id : Nat, fresh : BOOLEAN]]
        /\ \A x \in Event : x # e => events'[x] = events[x]
    BY <1>0, <1>9, <1>11 DEF ServicesTyped
  <2>2. \A x \in Event : events[x].id # 0 => events'[x].id = events[x].id
    BY <1>0, <1>8, <2>1 DEF CS!NoEvent
  <2>3. \A x \in Event : events'[x].id = 0 => events'[x] = CS!NoEvent
    BY <1>0, <1>8, <2>1 DEF Numbered
  <2>4. \A s \in saved : s.event \in Event /\ events'[s.event].id = s.id /\ s.id # 0
    BY <1>0, <2>2 DEF Numbered, ServicesTyped
  <2>5. \A j \in Caller : call'[j].at = "snapshot" => call'[j] = call[j]
    BY <1>0, <1>5, <1>6, OtherCall
  <2>6. \A j \in Caller : call[j].at = "snapshot" => call[j].event \in Event
    BY <1>0 DEF ServicesTyped, Calls, CS!Idle, Tests, Scrapes, Upserts, Snapshots, Invites
  <2>7. \A j \in Caller : call'[j].at = "snapshot" =>
          call'[j].id # 0 /\ events'[call'[j].event].id = call'[j].id
    BY <1>0, <2>2, <2>5, <2>6 DEF Numbered
  <2> QED BY <1>3, <2>3, <2>4, <2>7 DEF Numbered
<1> QED BY <1>12, <1>13, <1>14 DEF ServicesInv

LEMMA ExpireKeeps ==
  ASSUME NEW e \in Event, ServicesInv, CS!Expire(e)
  PROVE  ServicesInv'
<1>0. ServicesTyped /\ Timely /\ Numbered
  BY DEF ServicesInv
<1>1. /\ events' = [events EXCEPT ![e].fresh = FALSE] /\ events[e].fresh
      /\ UNCHANGED <<results, profile, saved, appointments, call, clock, contested>>
  BY DEF CS!Expire
<1>2. /\ events' \in [Event -> [id : Nat, fresh : BOOLEAN]]
      /\ \A x \in Event : events'[x].id = events[x].id
  BY <1>0, <1>1 DEF ServicesTyped
<1>3. ServicesTyped' /\ Timely'
  BY <1>0, <1>1, <1>2, TestsAside DEF ServicesTyped
<1>4. \A x \in Event : events'[x].id = 0 => events'[x] = CS!NoEvent
  BY <1>0, <1>1, <1>2 DEF Numbered, CS!NoEvent, ServicesTyped
<1>5. \A j \in Caller : call[j].at = "snapshot" => call[j].event \in Event
  BY <1>0 DEF ServicesTyped, Calls, CS!Idle, Tests, Scrapes, Upserts, Snapshots, Invites
<1>6. Numbered'
  BY <1>0, <1>1, <1>2, <1>4, <1>5 DEF Numbered, ServicesTyped
<1> QED BY <1>3, <1>6 DEF ServicesInv

LEMMA SavingKeeps ==
  ASSUME NEW k \in Caller, ServicesInv,
         \/ \E u \in User, e \in Event : CS!ReadEvent(k, u, e)
         \/ CS!SaveSnapshot(k)
         \/ \E u \in User, s \in saved : CS!Unsave(k, u, s.id)
  PROVE  ServicesInv'
<1> USE DEF CS!Become
<1>0. ServicesTyped /\ Timely /\ Numbered
  BY DEF ServicesInv
<1>1. CASE \E u \in User, e \in Event : CS!ReadEvent(k, u, e)
  <2> PICK u \in User, e \in Event : CS!ReadEvent(k, u, e)
    BY <1>1
  <2> PICK next : next = [at |-> "snapshot", user |-> u, id |-> events[e].id, event |-> e]
    OBVIOUS
  <2>1. /\ call' = [call EXCEPT ![k] = next] /\ call[k].at \notin {"result", "profile"}
        /\ events[e] # CS!NoEvent
        /\ UNCHANGED <<results, profile, events, saved, appointments, clock, contested>>
    BY DEF CS!ReadEvent, CS!Idle
  <2>2. /\ next \in Calls /\ next.at \notin {"result", "profile"}
        /\ next.id # 0 /\ next.event = e /\ next.id = events[e].id
    BY <1>0, <2>1 DEF ServicesTyped, Calls, Snapshots, Numbered
  <2>3. ServicesTyped' /\ Timely'
    BY <1>0, <2>1, <2>2, OtherCall, TestsAside DEF ServicesTyped
  <2>4. call'[k] = next /\ \A j \in Caller : j # k => call'[j] = call[j]
    BY <1>0, <2>1, <2>2, OtherCall
  <2>5. Numbered'
    BY <1>0, <2>1, <2>2, <2>4 DEF Numbered
  <2> QED BY <2>3, <2>5 DEF ServicesInv
<1>2. CASE CS!SaveSnapshot(k)
  <2>1. call[k] \in Snapshots
    BY <1>0, <1>2 DEF CS!SaveSnapshot, ServicesTyped, Calls, CS!Idle, Tests, Scrapes, Upserts,
                      Invites
  <2> PICK row : row = [user |-> call[k].user, id |-> call[k].id, event |-> call[k].event]
    OBVIOUS
  <2>2. /\ saved' \subseteq saved \cup {row} /\ call' = [call EXCEPT ![k] = CS!Idle]
        /\ UNCHANGED <<results, profile, events, appointments, clock, contested>>
    BY <1>2 DEF CS!SaveSnapshot
  <2>3. row \in [user : User, id : Nat, event : Event] /\ call[k].at = "snapshot"
    BY <2>1 DEF Snapshots
  <2>4. row.id # 0 /\ events[row.event].id = row.id
    BY <1>0, <2>1, <2>3 DEF Numbered
  <2>5. CS!Idle \in Calls /\ CS!Idle.at = "idle"
    BY DEF Calls, CS!Idle
  <2>6. ServicesTyped' /\ Timely'
    BY <1>0, <2>2, <2>3, <2>5, OtherCall, TestsAside DEF ServicesTyped
  <2>7. call'[k] = CS!Idle /\ \A j \in Caller : j # k => call'[j] = call[j]
    BY <1>0, <2>2, <2>3, <2>5, OtherCall
  <2>8. Numbered'
    BY <1>0, <2>2, <2>4, <2>5, <2>7 DEF Numbered
  <2> QED BY <2>6, <2>8 DEF ServicesInv
<1>3. CASE \E u \in User, s \in saved : CS!Unsave(k, u, s.id)
  <2>1. /\ saved' \subseteq saved
        /\ UNCHANGED <<results, profile, events, appointments, call, clock, contested>>
    BY <1>3 DEF CS!Unsave
  <2>2. ServicesTyped' /\ Timely'
    BY <1>0, <2>1, TestsAside DEF ServicesTyped
  <2>3. Numbered'
    BY <1>0, <2>1 DEF Numbered
  <2> QED BY <2>2, <2>3 DEF ServicesInv
<1> QED BY <1>1, <1>2, <1>3

LEMMA AppointingKeeps ==
  ASSUME NEW k \in Caller, ServicesInv, CS!StoreAppointment(k) \/ CS!Invite(k)
  PROVE  ServicesInv'
<1> USE DEF CS!Become
<1>0. ServicesTyped /\ Timely /\ Numbered
  BY DEF ServicesInv
<1>1. PICK next \in {CS!Idle} \cup Invites : call' = [call EXCEPT ![k] = next]
  <2>1. CASE CS!StoreAppointment(k)
    <3>1. [at |-> "invite", appointment |-> appointments + 1] \in Invites
      BY <1>0 DEF Invites, ServicesTyped
    <3> QED BY <2>1, <3>1 DEF CS!StoreAppointment
  <2>2. CASE CS!Invite(k)
    BY <2>2 DEF CS!Invite
  <2> QED BY <2>1, <2>2
<1>2. next \in Calls /\ next.at \notin {"result", "profile", "snapshot"}
  BY <1>1 DEF Calls, CS!Idle, Invites
<1>3. /\ UNCHANGED <<results, profile, events, saved, clock, contested>>
      /\ call[k].at \notin {"result", "profile"} /\ appointments' \in Nat
  BY <1>0 DEF CS!StoreAppointment, CS!Invite, CS!Idle, ServicesTyped
<1>4. ServicesTyped' /\ Timely'
  BY <1>0, <1>1, <1>2, <1>3, OtherCall, TestsAside DEF ServicesTyped
<1>5. Numbered'
  BY <1>0, <1>1, <1>2, <1>3, OtherCall, EventsAside
<1> QED BY <1>4, <1>5 DEF ServicesInv

\* A test that ends half-way is noted against its user.
LEMMA CallFailsKeeps ==
  ASSUME NEW k \in Caller, ServicesInv, CS!Fail(k)
  PROVE  ServicesInv'
<1> USE DEF CS!Become
<1>0. ServicesTyped /\ Timely /\ Numbered
  BY DEF ServicesInv
<1>1. /\ UNCHANGED <<results, profile, events, saved, appointments>>
      /\ call' = [call EXCEPT ![k] = CS!Idle]
      /\ clock' = [clock EXCEPT !.faults = clock.faults + 1]
      /\ contested' = IF call[k].at \in {"result", "profile"}
                      THEN contested \cup {call[k].user} ELSE contested
  BY <1>0 DEF CS!Fail, ServicesTyped
<1>2. /\ clock' \in [tests : Nat, refreshes : Nat, ids : Nat, faults : Nat]
      /\ clock'.tests = clock.tests
  BY <1>0, <1>1 DEF ServicesTyped
<1>3. CS!Idle \in Calls /\ CS!Idle.at = "idle"
  BY DEF Calls, CS!Idle
<1>4. /\ call' \in [Caller -> Calls] /\ call'[k] = CS!Idle
      /\ \A j \in Caller : j # k => call'[j] = call[j]
  BY <1>0, <1>1, <1>3 DEF ServicesTyped
<1>5. ServicesTyped'
  BY <1>0, <1>1, <1>2, <1>4 DEF ServicesTyped
<1>6. Numbered'
  BY <1>0, <1>1, <1>3, <1>4, EventsAside
<1>7. \A v \in User : (Ofs(v))' = Ofs(v) /\ (CS!Testing(v))' = CS!Testing(v) \ {k}
  BY <1>1, <1>3, <1>4 DEF Ofs, CS!Testing
<1>8. \A v \in User : v \notin contested' => v \notin contested /\ k \notin CS!Testing(v)
  BY <1>1 DEF CS!Testing
<1>9. \A j \in Caller : call'[j].at \in {"result", "profile"} => call'[j] = call[j]
  BY <1>3, <1>4
<1>10. /\ \A r \in results' : r.stamp <= clock'.tests
       /\ \A j \in Caller : call'[j].at \in {"result", "profile"} => call'[j].stamp <= clock'.tests
       /\ \A j \in Caller : call'[j].at = "profile" =>
            \E r \in {y \in results' : y.user = call'[j].user} : r.stamp = call'[j].stamp
  BY <1>0, <1>1, <1>2, <1>9 DEF Timely, Ofs
<1>11. ASSUME NEW v \in User
       PROVE  /\ profile[v].result = 0 \/ \E r \in Ofs(v) : r.stamp = profile[v].result
              /\ v \notin contested' =>
                   /\ \A x, j \in CS!Testing(v) \ {k} : x = j
                   /\ \A x \in CS!Testing(v) \ {k} : \A r \in Ofs(v) : r.stamp <= call'[x].stamp
                   /\ (\A x \in CS!Testing(v) \ {k} : call'[x].at = "result") =>
                        \A r \in Ofs(v) : r.stamp <= profile[v].result
  <2>1. \A x \in CS!Testing(v) \ {k} : call'[x] = call[x]
    BY <1>4 DEF CS!Testing
  <2> QED BY <1>0, <1>8, <2>1 DEF Timely
<1>12. Timely'
  BY <1>1, <1>7, <1>10, <1>11 DEF Timely, Ofs
<1> QED BY <1>5, <1>6, <1>12 DEF ServicesInv

LEMMA ServicesStep ==
  ASSUME ListedEvents, ServicesInv, [CS!Next]_(CS!vars)
  PROVE  ServicesInv'
<1>1. CASE UNCHANGED CS!vars
  <2>1. UNCHANGED <<results, profile, events, saved, appointments, call, clock, contested>>
    BY <1>1 DEF CS!vars
  <2> QED BY <2>1, TestsAside, EventsAside DEF ServicesInv, ServicesTyped
<1>2. CASE \E e \in Event : CS!Expire(e)
  BY <1>2, ExpireKeeps
<1>3. ASSUME NEW k \in Caller,
             \/ \E u \in User, answers \in CS!Submissions : CS!SubmitTest(k, u, answers)
             \/ CS!StoreResult(k) \/ CS!ShowResult(k)
             \/ \E force \in BOOLEAN : CS!StartRefresh(k, force)
             \/ CS!Scrape(k) \/ CS!StoreEvent(k) \/ CS!NextSource(k)
             \/ \E u \in User, e \in Event : CS!ReadEvent(k, u, e)
             \/ CS!SaveSnapshot(k)
             \/ \E u \in User, s \in saved : CS!Unsave(k, u, s.id)
             \/ CS!StoreAppointment(k) \/ CS!Invite(k)
             \/ CS!Fail(k)
      PROVE  ServicesInv'
  BY <1>3, SubmitKeeps, StoreKeeps, ShowKeeps, RefreshKeeps, StoreEventKeeps, SavingKeeps,
     AppointingKeeps, CallFailsKeeps
<1> QED BY <1>1, <1>2, <1>3 DEF CS!Next

LEMMA ServicesHold ==
  ASSUME ServicesInv
  PROVE  CS!ShownIsStored
<1>0. ServicesTyped /\ Timely /\ Numbered
  BY DEF ServicesInv
<1>1. ASSUME NEW u \in User, CS!Testing(u) = {}, u \notin contested
      PROVE  profile[u].result = CS!Latest(u)
  <2> DEFINE S == {r.stamp : r \in {x \in results : x.user = u}} \cup {0}
  <2>1. profile[u].result \in Nat /\ \A r \in Ofs(u) : r.stamp \in Nat
    BY <1>0 DEF ServicesTyped, Ofs
  <2>2. \A y \in S : y \in Nat /\ y <= profile[u].result
    BY <1>0, <1>1, <2>1 DEF Timely, Ofs
  <2>3. profile[u].result \in S
    BY <1>0 DEF Timely, Ofs
  <2>4. CS!Max(S) = CHOOSE x \in S : \A y \in S : x >= y
    BY DEF CS!Max
  <2>5. \A x \in S : (\A y \in S : x >= y) => x = profile[u].result
    <3> TAKE x \in S
    <3> HAVE \A y \in S : x >= y
    <3>1. x >= profile[u].result
      BY <2>3
    <3>2. x \in Nat /\ x <= profile[u].result
      BY <2>2
    <3> QED BY <2>1, <3>1, <3>2
  <2>6. \A y \in S : profile[u].result >= y
    BY <2>1, <2>2
  <2> HIDE DEF S
  <2>7. CS!Max(S) = profile[u].result
    BY <2>3, <2>4, <2>5, <2>6
  <2> QED BY <2>7 DEF S, CS!Latest
<1>2. \A s \in saved : events[s.event].id = s.id
  BY <1>0 DEF Numbered
<1>3. \A u \in User :
        profile[u].result = 0 \/ \E r \in results : r.user = u /\ r.stamp = profile[u].result
  BY <1>0 DEF Timely, Ofs
<1> QED BY <1>1, <1>2, <1>3 DEF CS!ShownIsStored

\* A saved event keeps the id of its row, and the profile shows a stored test
\* result, the latest one unless tests of one user overlap or break off,
\* however the statements of the callers interleave and whatever fails: for
\* every number of users, callers, events, sources and questions
\* (PostgresTalentTestService.submit, PostgresEventService).
THEOREM ShownStaysStored == ASSUME ListedEvents PROVE CS!Spec => []CS!ShownIsStored
<1>1. CS!Init => ServicesInv
  BY ServicesStart
<1>2. ServicesInv /\ [CS!Next]_(CS!vars) => ServicesInv'
  BY ServicesStep
<1>3. ServicesInv => CS!ShownIsStored
  BY ServicesHold
<1> QED BY <1>1, <1>2, <1>3, PTL DEF CS!Spec

\* Each sector is scored on finitely many questions, and there is one.
TestData == /\ Sectors \in Seq({Sectors[i] : i \in DOMAIN Sectors}) /\ Sectors # <<>>
            /\ IsFiniteSet(DOMAIN TestQuestions)

ServiceBounds == MaxTests \in Nat /\ MaxAppointments \in Nat

LEMMA PrimaryIsSector ==
  ASSUME TestData, NEW a \in CS!Submissions
  PROVE  CS!PrimarySector(a) \in CS!Range(Sectors)
<1> DEFINE n == Cardinality(DOMAIN TestQuestions)
           Points(i) == CS!Score(a, Sectors[i])
           Short == {n - Points(i) : i \in DOMAIN Sectors}
           top == {i \in DOMAIN Sectors : \A j \in DOMAIN Sectors : Points(j) <= Points(i)}
<1>1. DOMAIN Sectors = 1..Len(Sectors) /\ Len(Sectors) \in Nat \ {0}
  BY DEF TestData
<1>2. \A i \in DOMAIN Sectors : Points(i) \in 0..n
  <2> TAKE i \in DOMAIN Sectors
  <2> DEFINE hits == {q \in DOMAIN a : Sectors[i] \in a[q]}
  <2>1. hits \subseteq DOMAIN TestQuestions /\ IsFiniteSet(DOMAIN TestQuestions)
    BY DEF TestData, CS!Submissions
  <2> HIDE DEF hits
  <2>2. IsFiniteSet(hits) /\ Cardinality(hits) <= n
    BY <2>1, FS_Subset
  <2>3. Cardinality(hits) \in Nat /\ n \in Nat
    BY <2>1, <2>2, FS_CardinalityType
  <2>4. CS!Cardinality(hits) = Cardinality(hits)
    BY DEF CS!Cardinality, Cardinality
  <2>5. Points(i) = CS!Cardinality(hits)
    BY DEF hits, CS!Score
  <2> QED BY <2>2, <2>3, <2>4, <2>5
<1>3. n \in Nat
  BY FS_CardinalityType DEF TestData
<1>4. PICK i \in DOMAIN Sectors : \A j \in DOMAIN Sectors : n - Points(i) <= n - Points(j)
  <2> HIDE DEF Points, n
  <2>1. Short \subseteq Nat /\ Short # {}
    BY <1>1, <1>2, <1>3
  <2>2. PICK m \in Short : \A y \in Short : m <= y
    <3> HIDE DEF Short
    <3> QED BY <2>1, Least
  <2> QED BY <2>2
<1>5. i \in top
  <2> HIDE DEF Points, n
  <2>1. \A x, y \in 0..n : n - x <= n - y => y <= x
    BY <1>3
  <2>2. \A j \in DOMAIN Sectors : Points(j) <= Points(i)
    BY <1>2, <1>4, <2>1
  <2> QED BY <2>2
<1>6. CS!PrimarySector(a) = Sectors[CS!Min(top)]
  BY DEF CS!PrimarySector
<1>7. CS!Min(top) \in top
  <2>1. top \subseteq Nat /\ top # {}
    BY <1>1, <1>5
  <2> HIDE DEF top
  <2>2. PICK m \in top : \A y \in top : m <= y
    BY <2>1, Least
  <2>3. CS!Min(top) = CHOOSE x \in top : \A y \in top : x <= y
    BY DEF CS!Min
  <2> QED BY <2>2, <2>3
<1>8. CS!Min(top) \in DOMAIN Sectors
  <2>1. top \subseteq DOMAIN Sectors
    OBVIOUS
  <2> HIDE DEF top
  <2> QED BY <1>7, <2>1
<1> HIDE DEF top
<1> QED BY <1>6, <1>8 DEF CS!Range

\* What a test or an appointment under way says of itself is in bounds.
Bounded ==
  /\ clock.tests <= MaxTests
  /\ \A r \in results : r.stamp # 0
  /\ \A k \in Caller : call[k].at \in {"result", "profile"} => call[k].stamp # 0
  /\ \A k \in Caller : call[k].at = "invite" => call[k].appointment \in 1..appointments
  /\ appointments <= MaxAppointments /\ invited \subseteq 1..appointments
  /\ contested \subseteq User

LEMMA BoundedStart == ServiceBounds /\ CS!Init => Bounded
BY DEF ServiceBounds, CS!Init, Bounded, CS!Idle

LEMMA BoundedStep ==
  ASSUME ServiceBounds, ServicesInv, Bounded, [CS!Next]_(CS!vars)
  PROVE  Bounded'
<1> USE DEF CS!Become
<1>0. ServicesTyped
  BY DEF ServicesInv
<1>1. CASE UNCHANGED CS!vars
  BY <1>1 DEF CS!vars, Bounded
<1>2. CASE \E e \in Event : CS!Expire(e)
  BY <1>2 DEF CS!Expire, Bounded
<1>3. ASSUME NEW k \in Caller, NEW u \in User, NEW a \in CS!Submissions, CS!SubmitTest(k, u, a)
      PROVE  Bounded'
  <2>1. /\ UNCHANGED <<results, appointments, invited>>
        /\ clock'.tests = clock.tests + 1 /\ clock.tests < MaxTests
        /\ contested' \subseteq contested \cup {u}
    BY <1>0, <1>3 DEF CS!SubmitTest, ServicesTyped
  <2>2. /\ call'[k].at = "result" /\ call'[k].stamp = clock.tests + 1
        /\ \A j \in Caller \ {k} : call'[j] = call[j]
    BY <1>0, <1>3 DEF CS!SubmitTest, ServicesTyped
  <2>3. clock.tests \in Nat
    BY <1>0 DEF ServicesTyped
  <2>4. \A j \in Caller : call'[j].at \in {"result", "profile"} => call'[j].stamp # 0
    BY <2>2, <2>3 DEF Bounded
  <2>5. \A j \in Caller : call'[j].at = "invite" => call'[j].appointment \in 1..appointments
    BY <2>2 DEF Bounded
  <2>6. clock'.tests <= MaxTests
    BY <2>1, <2>3 DEF ServiceBounds
  <2> QED BY <2>1, <2>4, <2>5, <2>6 DEF Bounded
<1>4. ASSUME NEW k \in Caller, CS!StoreResult(k)
      PROVE  Bounded'
  <2>1. /\ UNCHANGED <<appointments, invited, clock, contested>>
        /\ results' = results \cup {[user |-> call[k].user, stamp |-> call[k].stamp,
                                     primary |-> call[k].primary]}
        /\ call' = [call EXCEPT ![k] = [call[k] EXCEPT !.at = "profile"]]
        /\ call[k].at = "result"
    BY <1>0, <1>4 DEF CS!StoreResult, ServicesTyped
  <2>2. call[k] \in Tests
    BY <1>0, <2>1 DEF ServicesTyped, Calls, CS!Idle, Scrapes, Upserts, Snapshots, Invites
  <2>3. /\ call'[k].at = "profile" /\ call'[k].stamp = call[k].stamp
        /\ \A j \in Caller \ {k} : call'[j] = call[j]
    BY <1>0, <2>1, <2>2 DEF ServicesTyped, Tests
  <2>4. call[k].stamp # 0
    BY <2>1 DEF Bounded
  <2>5. \A r \in results' : r.stamp # 0
    BY <2>1, <2>4 DEF Bounded
  <2> QED BY <2>1, <2>3, <2>4, <2>5 DEF Bounded
<1>5. ASSUME NEW k \in Caller, CS!ShowResult(k) \/ CS!NextSource(k) \/ CS!SaveSnapshot(k)
                               \/ \E u \in User, s \in saved : CS!Unsave(k, u, s.id)
      PROVE  Bounded'
  <2>1. /\ UNCHANGED <<results, appointments, invited, clock, contested>>
        /\ call'[k] = call[k] \/ call'[k].at \in {"idle", "scrape"}
        /\ \A j \in Caller \ {k} : call'[j] = call[j]
    BY <1>0, <1>5 DEF CS!ShowResult, CS!NextSource, CS!SaveSnapshot, CS!Unsave, CS!Idle, ServicesTyped
  <2> QED BY <2>1 DEF Bounded
<1>6. ASSUME NEW k \in Caller, (\E force \in BOOLEAN : CS!StartRefresh(k, force)) \/ CS!Scrape(k)
                               \/ CS!StoreEvent(k) \/ \E u \in User, e \in Event : CS!ReadEvent(k, u, e)
      PROVE  Bounded'
  <2>1. /\ UNCHANGED <<results, appointments, invited, contested>> /\ clock'.tests = clock.tests
        /\ \A j \in Caller \ {k} : call'[j] = call[j]
    BY <1>0, <1>6 DEF CS!StartRefresh, CS!Scrape, CS!StoreEvent, CS!ReadEvent, ServicesTyped
  <2>2. CASE CS!StoreEvent(k)
    <3>1. call[k] \in Upserts
      BY <1>0, <2>2 DEF CS!StoreEvent, ServicesTyped, Calls, CS!Idle, Tests, Scrapes, Snapshots, Invites
    <3>2. call'[k].at = "upsert"
      BY <1>0, <2>2, <3>1 DEF CS!StoreEvent, ServicesTyped, Upserts
    <3> QED BY <2>1, <3>2 DEF Bounded
  <2>3. CASE ~CS!StoreEvent(k)
    <3>1. call'[k].at \in {"scrape", "upsert", "snapshot"}
      BY <1>0, <1>6, <2>3 DEF CS!StartRefresh, CS!Scrape, CS!ReadEvent, ServicesTyped
    <3> QED BY <2>1, <3>1 DEF Bounded
  <2> QED BY <2>2, <2>3
<1>7. ASSUME NEW k \in Caller, CS!StoreAppointment(k) \/ CS!Invite(k)
      PROVE  Bounded'
  <2>1. /\ UNCHANGED <<results, clock, contested>>
        /\ \A j \in Caller \ {k} : call'[j] = call[j]
        /\ appointments \in Nat /\ appointments' \in Nat /\ appointments <= appointments'
    BY <1>0, <1>7 DEF CS!StoreAppointment, CS!Invite, ServicesTyped
  <2>2. 1..appointments \subseteq 1..appointments'
    BY <2>1
  <2>3. CASE CS!StoreAppointment(k)
    <3>1. call'[k] = [at |-> "invite", appointment |-> appointments'] /\ appointments' = appointments + 1
      BY <1>0, <2>3 DEF CS!StoreAppointment, ServicesTyped
    <3>2. call'[k].at = "invite" /\ call'[k].appointment \in 1..appointments'
      BY <2>1, <3>1
    <3>3. appointments' <= MaxAppointments
      BY <2>1, <2>3 DEF CS!StoreAppointment, ServiceBounds
    <3> QED BY <2>1, <2>2, <2>3, <3>2, <3>3 DEF CS!StoreAppointment, Bounded
  <2>4. CASE CS!Invite(k)
    BY <1>0, <2>1, <2>4 DEF CS!Invite, CS!Idle, Bounded, ServicesTyped
  <2> QED BY <1>7, <2>3, <2>4
<1>8. ASSUME NEW k \in Caller, CS!Fail(k)
      PROVE  Bounded'
  <2>1. /\ UNCHANGED <<results, appointments, invited>> /\ clock'.tests = clock.tests
        /\ call'[k].at = "idle" /\ \A j \in Caller \ {k} : call'[j] = call[j]
    BY <1>0, <1>8 DEF CS!Fail, CS!Idle, ServicesTyped
  <2>2. call[k].at \in {"result", "profile"} => call[k].user \in User
    BY <1>0 DEF ServicesTyped, Calls, CS!Idle, Tests, Scrapes, Upserts, Snapshots, Invites
  <2>3. contested' \subseteq User
    BY <1>8, <2>2 DEF CS!Fail, Bounded
  <2> QED BY <2>1, <2>3 DEF Bounded
<1> QED BY <1>1, <1>2, <1>3, <1>4, <1>5, <1>6, <1>7, <1>8 DEF CS!Next

LEMMA ServicesAreTyped ==
  ASSUME TestData, ServiceBounds, ServicesInv, Bounded
  PROVE  CS!TypeOK
<1>0. ServicesTyped /\ Timely /\ clock.tests \in Nat
  BY DEF ServicesInv, ServicesTyped
<1>1. Sector \subseteq CS!Range(Sectors)
  BY PrimaryIsSector DEF Sector
<1>2. \A r \in results : r.user \in User /\ r.stamp \in 1..MaxTests /\ r.primary \in CS!Range(Sectors)
  BY <1>0, <1>1 DEF ServicesTyped, Timely, Bounded, ServiceBounds
<1>3. \A u \in User : /\ profile[u].result \in 0..MaxTests
                      /\ profile[u].sector \in CS!Range(Sectors) \cup {CS!Unset}
  <2> TAKE u \in User
  <2>1. profile[u].result = 0 \/ \E r \in results : r.stamp = profile[u].result
    BY <1>0 DEF Timely, Ofs
  <2>2. profile[u].result \in 0..MaxTests
    BY <1>2, <2>1 DEF ServiceBounds
  <2> QED BY <1>0, <1>1, <2>2 DEF ServicesTyped
<1>4. \A e \in Event : events[e].id \in Nat /\ events[e].fresh \in BOOLEAN
  BY <1>0 DEF ServicesTyped
<1>5. \A s \in saved : s.user \in User /\ s.event \in Event
  BY <1>0 DEF ServicesTyped
<1>6. appointments \in 0..MaxAppointments /\ invited \subseteq 1..appointments /\ contested \subseteq User
  BY <1>0 DEF ServicesTyped, Bounded, ServiceBounds
<1> QED BY <1>2, <1>3, <1>4, <1>5, <1>6 DEF CS!TypeOK

\* A result and a profile name a sector of the test, whatever is answered, and
\* an invitation is one to an appointment that was stored (PostgresTalentTestService,
\* PostgresAppointmentService).
THEOREM ServicesStayTyped ==
  ASSUME ListedEvents, TestData, ServiceBounds
  PROVE  CS!Spec => []CS!TypeOK
<1>1. CS!Init => ServicesInv /\ Bounded
  BY ServicesStart, BoundedStart
<1>2. ServicesInv /\ Bounded /\ [CS!Next]_(CS!vars) => (ServicesInv /\ Bounded)'
  BY ServicesStep, BoundedStep
<1>3. ServicesInv /\ Bounded => CS!TypeOK
  BY ServicesAreTyped
<1> QED BY <1>1, <1>2, <1>3, PTL DEF CS!Spec

-----------------------------------------------------------------------------
(***************************************************************************)
(* The route questionnaire.                                                *)
(*                                                                         *)
(* A path is sound when each answer on it was asked for and allowed by     *)
(* what came before, whoever gave it; every row, stored or about to be, is *)
(* that of a sound path.                                                   *)
(***************************************************************************)
Answers == DOMAIN Needs

\* Of the questionnaire: an answer belongs to one question, and the question
\* that is put next has a published answer that may be given.
AskableQuestions ==
  /\ Questions \in Seq([answers : SUBSET Answers, published : BOOLEAN])
  /\ \A p, q \in DOMAIN Questions :
       Questions[p].answers \cap Questions[q].answers # {} => p = q
  /\ \A selected \in SUBSET Answers :
       RS!Unanswered(selected) # {} =>
         RS!Offered(RS!Min(RS!Unanswered(selected)), selected) # {}

Before(path, i) == {path[j] : j \in 1..(i - 1)}

SoundPath(path) ==
  /\ path \in Seq(Answers)
  /\ \A q \in DOMAIN Questions : \A i, j \in DOMAIN path :
       path[i] \in Questions[q].answers /\ path[j] \in Questions[q].answers => i = j
  /\ \A i \in DOMAIN path :
       path[i] \in PublishedAnswers /\ RS!Eligible(path[i], Before(path, i))

SoundRow(row) == SoundPath(row.path) /\ row = RS!Row(row.path)

SessionsInv ==
  /\ sessions \in [Session -> {RS!NoRow} \cup {RS!Row(path) : path \in Seq(Answers)}]
  /\ client \in [Client -> {RS!Idle} \cup
       [at : {"save"}, session : Session, row : {RS!Row(path) : path \in Seq(Answers)}]]
  /\ \A s \in Session : sessions[s] = RS!NoRow \/ SoundRow(sessions[s])
  /\ \A c \in Client : client[c].at = "save" => SoundRow(client[c].row)

LEMMA FirstIsOne ==
  ASSUME NEW S \in SUBSET Nat, S # {}
  PROVE  RS!Min(S) \in S
BY Least DEF RS!Min

\* The path of a row is the one it was made of.
LEMMA PathOfRow ==
  ASSUME NEW path
  PROVE  RS!Row(path).path = path /\ RS!Row(path) # RS!NoRow
BY DEF RS!Row, RS!NoRow

LEMMA EmptyPath == SoundPath(<<>>)
BY DEF SoundPath

\* An answer that is offered goes on: it is of the question put next, which
\* nothing on the path has answered.
LEMMA OfferedGoesOn ==
  ASSUME AskableQuestions, NEW path, SoundPath(path), NEW a \in RS!Row(path).result.offered
  PROVE  SoundPath(Append(path, a))
<1> DEFINE given == RS!ToSet(path)
           open == RS!Unanswered(given)
           next == RS!Min(open)
<1>1. path \in Seq(Answers) /\ Len(path) \in Nat
  BY DEF SoundPath
<1>2. given = {path[i] : i \in 1..Len(path)}
  BY <1>1 DEF RS!ToSet
<1>3. a \in RS!Offered(next, given) /\ open # {}
  BY DEF RS!Row, RS!Evaluate
<1>4. open \subseteq DOMAIN Questions /\ DOMAIN Questions \subseteq Nat
  BY DEF RS!Unanswered, AskableQuestions
<1>5. next \in open
  BY <1>3, <1>4, FirstIsOne
<1>6. next \in DOMAIN Questions /\ Questions[next].answers \cap given = {}
  BY <1>4, <1>5 DEF RS!Unanswered, RS!HasSelection
<1>7. a \in Questions[next].answers /\ a \in PublishedAnswers /\ RS!Eligible(a, given)
  BY <1>3 DEF RS!Offered
<1> HIDE DEF given, open, next
<1>8. a \in Answers
  <2>1. Questions \in Seq([answers : SUBSET Answers, published : BOOLEAN])
    BY DEF AskableQuestions
  <2>2. Questions[next] \in [answers : SUBSET Answers, published : BOOLEAN]
    BY <1>6, <2>1, OfSequence
  <2>3. Questions[next].answers \subseteq Answers
    BY <2>2
  <2> QED BY <1>7, <2>3
<1> DEFINE longer == Append(path, a)
<1>9. /\ longer \in Seq(Answers) /\ Len(longer) = Len(path) + 1
      /\ longer[Len(path) + 1] = a /\ \A i \in 1..Len(path) : longer[i] = path[i]
  BY <1>1, <1>8
<1> HIDE DEF longer
<1>10. \A q \in DOMAIN Questions : a \in Questions[q].answers => q = next
  BY <1>6, <1>7 DEF AskableQuestions
<1>11. \A i \in 1..Len(path) : path[i] \notin Questions[next].answers
  BY <1>2, <1>6
<1>12. ASSUME NEW q \in DOMAIN Questions, NEW i \in 1..Len(longer), NEW j \in 1..Len(longer),
              longer[i] \in Questions[q].answers, longer[j] \in Questions[q].answers
       PROVE  i = j
  <2>1. CASE i = Len(path) + 1 \/ j = Len(path) + 1
    BY <1>1, <1>9, <1>10, <1>11, <1>12, <2>1
  <2>2. CASE i # Len(path) + 1 /\ j # Len(path) + 1
    <3>1. i \in 1..Len(path) /\ j \in 1..Len(path)
      BY <1>1, <1>9, <2>2
    <3> QED BY <1>1, <1>9, <1>12, <3>1 DEF SoundPath
  <2> QED BY <2>1, <2>2
<1>13. ASSUME NEW i \in 1..Len(longer)
       PROVE  longer[i] \in PublishedAnswers /\ RS!Eligible(longer[i], Before(longer, i))
  <2>1. CASE i = Len(path) + 1
    <3>1. Before(longer, i) = given
      BY <1>1, <1>2, <1>9, <2>1 DEF Before
    <3> QED BY <1>7, <1>9, <2>1, <3>1
  <2>2. CASE i # Len(path) + 1
    <3>1. i \in 1..Len(path)
      BY <1>1, <1>9, <2>2
    <3>2. Before(longer, i) = Before(path, i) /\ longer[i] = path[i]
      BY <1>1, <1>9, <3>1 DEF Before
    <3> QED BY <1>1, <3>1, <3>2 DEF SoundPath
  <2> QED BY <2>1, <2>2
<1>14. DOMAIN longer = 1..Len(longer)
  BY <1>9
<1>15. SoundPath(longer)
  BY <1>9, <1>12, <1>13, <1>14 DEF SoundPath
<1> QED BY <1>15 DEF longer

LEMMA SessionsStart == RS!Init => SessionsInv
BY DEF RS!Init, SessionsInv, RS!Idle

\* A client that saves the row of a sound path.
LEMMA RequestKeeps ==
  ASSUME SessionsInv, NEW c \in Client, NEW s \in Session, NEW path, SoundPath(path),
         client' = [client EXCEPT ![c] = [at |-> "save", session |-> s, row |-> RS!Row(path)]],
         UNCHANGED sessions
  PROVE  SessionsInv'
<1> PICK next : next = [at |-> "save", session |-> s, row |-> RS!Row(path)]
  OBVIOUS
<1>1. /\ next \in [at : {"save"}, session : Session, row : {RS!Row(p) : p \in Seq(Answers)}]
      /\ next.row = RS!Row(path)
  BY DEF SoundPath
<1>2. SoundRow(next.row)
  BY <1>1, PathOfRow DEF SoundRow
<1>3. client' = [client EXCEPT ![c] = next]
  OBVIOUS
<1> QED BY <1>1, <1>2, <1>3 DEF SessionsInv

LEMMA SessionsStep ==
  ASSUME AskableQuestions, SessionsInv, [RS!Next]_(RS!vars)
  PROVE  SessionsInv'
<1>1. CASE UNCHANGED RS!vars
  BY <1>1 DEF RS!vars, SessionsInv
<1>2. ASSUME NEW c \in Client, NEW s \in Session, RS!Start(c, s)
      PROVE  SessionsInv'
  BY <1>2, EmptyPath, RequestKeeps DEF RS!Start
<1>3. ASSUME NEW c \in Client, NEW s \in Session, NEW a \in DOMAIN Needs, RS!Answer(c, s, a)
      PROVE  SessionsInv'
  <2>1. SoundRow(sessions[s]) /\ a \in sessions[s].result.offered
    BY <1>3 DEF RS!Answer, SessionsInv
  <2>2. SoundPath(Append(sessions[s].path, a))
    BY <2>1, OfferedGoesOn DEF SoundRow
  <2> QED BY <1>3, <2>2, RequestKeeps DEF RS!Answer
<1>4. ASSUME NEW c \in Client, RS!Save(c)
      PROVE  SessionsInv'
  <2>1. /\ client[c].at = "save"
        /\ sessions' = [sessions EXCEPT ![client[c].session] = client[c].row]
        /\ client' = [client EXCEPT ![c] = RS!Idle]
    BY <1>4 DEF RS!Save
  <2>2. client[c] \in [at : {"save"}, session : Session,
                       row : {RS!Row(path) : path \in Seq(Answers)}]
    BY <2>1 DEF SessionsInv, RS!Idle
  <2>3. client[c].row \in {RS!Row(path) : path \in Seq(Answers)} /\ SoundRow(client[c].row)
    BY <2>1, <2>2 DEF SessionsInv
  <2> QED BY <2>1, <2>2, <2>3 DEF SessionsInv, RS!Idle
<1>5. ASSUME NEW c \in Client, RS!SaveFails(c)
      PROVE  SessionsInv'
  BY <1>5 DEF RS!SaveFails, SessionsInv, RS!Idle
<1> QED BY <1>1, <1>2, <1>3, <1>4, <1>5 DEF RS!Next

\* What a sound row promises.
LEMMA RowsHold ==
  ASSUME AskableQuestions, NEW row, SoundRow(row)
  PROVE  /\ \A q \in DOMAIN Questions : \A i, j \in DOMAIN row.path :
              row.path[i] \in Questions[q].answers /\ row.path[j] \in Questions[q].answers => i = j
         /\ \A i \in DOMAIN row.path : row.path[i] \in PublishedAnswers /\
              (Needs[row.path[i]] = {} \/ \E j \in 1..(i - 1) : row.path[j] \in Needs[row.path[i]])
         /\ row.status = "active" => row.result.offered # {}
         /\ row.status = "completed" =>
              \A q \in DOMAIN Questions :
                \/ RS!ToSet(row.path) \cap Questions[q].answers # {}
                \/ ~Questions[q].published
                \/ \A a \in Questions[q].answers :
                     Needs[a] # {} /\ Needs[a] \cap RS!ToSet(row.path) = {}
<1> PICK path : path = row.path
  OBVIOUS
<1>1. SoundPath(path) /\ row = RS!Row(path)
  BY DEF SoundRow
<1>2. \A q \in DOMAIN Questions : \A i, j \in DOMAIN path :
        path[i] \in Questions[q].answers /\ path[j] \in Questions[q].answers => i = j
  BY <1>1 DEF SoundPath
<1>3. ASSUME NEW i \in DOMAIN path
      PROVE  path[i] \in PublishedAnswers /\
               (Needs[path[i]] = {} \/ \E j \in 1..(i - 1) : path[j] \in Needs[path[i]])
  BY <1>1 DEF SoundPath, RS!Eligible, Before
<1> PICK given : given = RS!ToSet(path)
  OBVIOUS
<1>4. given \in SUBSET Answers
  BY <1>1 DEF SoundPath, RS!ToSet
<1>5. /\ row.status = IF RS!Unanswered(given) = {} THEN "completed" ELSE "active"
      /\ RS!Unanswered(given) # {} =>
           row.result.offered = RS!Offered(RS!Min(RS!Unanswered(given)), given)
  <2> PICK result : result = RS!Evaluate(given)
    OBVIOUS
  <2>1. row.result = result /\ row.status = IF result.completed THEN "completed" ELSE "active"
    BY <1>1 DEF RS!Row
  <2>2. result.completed <=> RS!Unanswered(given) = {}
    BY DEF RS!Evaluate
  <2>3. RS!Unanswered(given) # {} =>
          result.offered = RS!Offered(RS!Min(RS!Unanswered(given)), given)
    BY DEF RS!Evaluate
  <2> QED BY <2>1, <2>2, <2>3
<1>6. row.status = "active" => row.result.offered # {}
  BY <1>4, <1>5 DEF AskableQuestions
<1>7. ASSUME row.status = "completed", NEW q \in DOMAIN Questions
      PROVE  \/ given \cap Questions[q].answers # {}
             \/ ~Questions[q].published
             \/ \A a \in Questions[q].answers : Needs[a] # {} /\ Needs[a] \cap given = {}
  <2>1. q \notin RS!Unanswered(given)
    BY <1>5, <1>7
  <2> QED BY <2>1 DEF RS!Unanswered, RS!HasSelection, RS!Eligible
<1> QED BY <1>2, <1>3, <1>6, <1>7

LEMMA SessionsHold == AskableQuestions /\ SessionsInv => RS!PathsFollowTheQuestions
<1> SUFFICES ASSUME AskableQuestions, SessionsInv PROVE RS!PathsFollowTheQuestions
  OBVIOUS
<1>1. ASSUME NEW s \in Session, sessions[s] # RS!NoRow
      PROVE  SoundRow(sessions[s])
  BY <1>1 DEF SessionsInv
<1>2. ASSUME NEW s \in Session, sessions[s] # RS!NoRow
      PROVE  LET path == sessions[s].path
             IN  /\ \A q \in DOMAIN Questions : \A i, j \in DOMAIN path :
                      path[i] \in Questions[q].answers /\ path[j] \in Questions[q].answers
                        => i = j
                 /\ \A i \in DOMAIN path : path[i] \in PublishedAnswers /\
                      (Needs[path[i]] = {} \/ \E j \in 1..(i - 1) : path[j] \in Needs[path[i]])
                 /\ sessions[s].status = "active" => sessions[s].result.offered # {}
                 /\ sessions[s].status = "completed" =>
                      \A q \in DOMAIN Questions :
                        \/ RS!ToSet(path) \cap Questions[q].answers # {}
                        \/ ~Questions[q].published
                        \/ \A a \in Questions[q].answers :
                             Needs[a] # {} /\ Needs[a] \cap RS!ToSet(path) = {}
  BY <1>1, <1>2, RowsHold
<1> QED BY <1>2 DEF RS!PathsFollowTheQuestions

\* Whoever else answers in a session and whichever write is the last, the
\* stored path is one a single client could have taken, the candidate can go on
\* while the session is active, and a completed one has no question left: for
\* every questionnaire whose questions can be asked and every number of
\* sessions and clients (RouteFlowService, RouteEngine.evaluate).
THEOREM PathsAreSound ==
  ASSUME AskableQuestions PROVE RS!Spec => []RS!PathsFollowTheQuestions
<1>1. RS!Init => SessionsInv
  BY SessionsStart
<1>2. SessionsInv /\ [RS!Next]_(RS!vars) => SessionsInv'
  BY SessionsStep
<1>3. SessionsInv => RS!PathsFollowTheQuestions
  BY SessionsHold
<1> QED BY <1>1, <1>2, <1>3, PTL DEF RS!Spec

LEMMA SessionsAreTyped == SessionsInv => RS!TypeOK
<1> SUFFICES ASSUME SessionsInv PROVE RS!TypeOK
  OBVIOUS
<1>1. ASSUME NEW s \in Session, sessions[s] # RS!NoRow
      PROVE  sessions[s].path \in Seq(DOMAIN Needs) /\ sessions[s].status \in {"active", "completed"}
  <2>1. SoundRow(sessions[s])
    BY <1>1 DEF SessionsInv
  <2>2. PICK path : path = sessions[s].path
    OBVIOUS
  <2>3. RS!Row(path).status \in {"active", "completed"}
    BY DEF RS!Row
  <2> QED BY <2>1, <2>2, <2>3 DEF SoundRow, SoundPath, Answers
<1>2. \A c \in Client : client[c].at \in {"idle", "save"}
  BY DEF SessionsInv, RS!Idle
<1> QED BY <1>1, <1>2 DEF RS!TypeOK

\* A stored path is one of answers of the questionnaire, whoever answers beside
\* whom (PostgresRouteSessionRepository).
THEOREM SessionsStayTyped == ASSUME AskableQuestions PROVE RS!Spec => []RS!TypeOK
<1>1. RS!Init => SessionsInv
  BY SessionsStart
<1>2. SessionsInv /\ [RS!Next]_(RS!vars) => SessionsInv'
  BY SessionsStep
<1>3. SessionsInv => RS!TypeOK
  BY SessionsAreTyped
<1> QED BY <1>1, <1>2, <1>3, PTL DEF RS!Spec

-----------------------------------------------------------------------------
(***************************************************************************)
(* The coaches.                                                            *)
(*                                                                         *)
(* A transition that is pending was found by a phase system that knows     *)
(* both phases.  While the profile is empty every turn has read the        *)
(* default phase (Beginning).  Following says how far the journey is       *)
(* behind the profile between the two statements that accept a transition. *)
(***************************************************************************)
Phase == CO!Phases
Fact  == Facts \cup {<<"phase_completed", p>> : p \in Phase}

Reads      == [phase : Phase \cup {DefaultPhase}, facts : SUBSET Fact]
Judgements == {CO!EvaluatePhase(s, r.phase, r.facts) : s \in CO!PhaseSystem, r \in Reads}
Judged     == {"save", "snapshot", "answer", "register"}
Stage      == Judged \cup {"conversation", "create", "question", "evaluate", "answered", "failed"}
Turns      == [at : Stage, read : Reads, phase : {NoPhase} \cup Judgements]

Follows(sys, p, q) ==
  sys \in CO!PhaseSystem /\ p \in CO!Codes(sys) /\ q \in CO!Codes(sys)
    /\ q = CO!PhaseOf(sys, p).next

Proposals ==
  {m \in [status : {"pending", "accepted", "rejected"}, system : CO!PhaseSystem,
          from : Phase, to : Phase] : Follows(m.system, m.from, m.to)}

Confirmations == [at : {"resolve", "profile", "journey"}, mutation : CO!Mutation,
                  decision : {"accepted", "rejected"}]

CoachTyped ==
  /\ profile \in Phase \cup {NoPhase}
  /\ journey \in [system : CO!PhaseSystem \cup {NoSystem}, current : Phase \cup {NoPhase},
                  completed : Seq(Phase)]
  /\ preference \in [{Scope[i] : i \in DOMAIN Scope} -> CO!PhaseSystem \cup {NoSystem}]
  /\ turn \in [Turn -> {CO!Idle} \cup Turns]
  /\ mutations \in [CO!Mutation -> {CO!NoMutation} \cup Proposals]
  /\ client \in [Client -> {CO!Idle} \cup Confirmations]

Proposing ==
  /\ \A t \in PersonalTurn : turn[t].at \in Judged =>
       /\ turn[t].phase.current = turn[t].read.phase
       /\ turn[t].phase.allowed =>
            Follows(turn[t].phase.system, turn[t].phase.current, turn[t].phase.proposed)
  /\ \A t \in PersonalTurn : mutations[t] # CO!NoMutation => turn[t].at = "answered"
  /\ \A c \in Client : client[c] # CO!Idle => mutations[client[c].mutation] # CO!NoMutation

Beginning ==
  profile = NoPhase =>
    /\ \A t \in Turn : turn[t] # CO!Idle => turn[t].read.phase = DefaultPhase
    /\ \A m \in CO!Mutation : mutations[m] # CO!NoMutation => mutations[m].from = DefaultPhase
    /\ \A c \in Client : client[c].at # "journey"
    /\ journey = CO!NoJourney

Lagging == {c \in Client : client[c].at = "journey"}

\* For every phase system that knows the phase, the completed phases are
\* those that lead to it.
LeadTo(phase) ==
  \A sys \in CO!PhaseSystem : phase \in CO!Codes(sys) =>
    \A i \in DOMAIN journey.completed :
      CO!PhaseOf(sys, journey.completed[i]).next = Append(journey.completed, phase)[i + 1]

Following ==
  disturbed \/
    /\ \A c, d \in Lagging : c = d
    /\ \A c \in Lagging : profile = CO!Accepted(c).to /\ LeadTo(CO!Accepted(c).from)
    /\ Lagging = {} =>
         /\ journey.current = profile /\ LeadTo(profile)
         /\ journey.completed # <<>> =>
              journey.system \in CO!PhaseSystem /\ profile \in CO!Codes(journey.system)

CoachInv == CoachTyped /\ Proposing /\ Beginning /\ Following

\* Of the phase systems: NoPhase is no phase, and the default system is one.
PhaseData ==
  /\ \A sys \in CO!PhaseSystem : NoPhase \notin CO!Codes(sys)
  /\ DefaultSystem \in CO!PhaseSystem /\ PersonalTurn \subseteq Turn
  /\ DOMAIN Scope \subseteq Nat

\* A phase that two systems know follows the same phase in both.
SharedPhases ==
  \A s1, s2 \in CO!PhaseSystem : \A p \in CO!Codes(s1) : \A q \in CO!Codes(s2) :
    CO!PhaseOf(s1, p).next = q => p \in CO!Codes(s2) /\ CO!PhaseOf(s2, p).next = q

LEMMA PhaseIsKnown ==
  ASSUME NEW sys \in CO!PhaseSystem
  PROVE  CO!Codes(sys) \subseteq Phase
BY DEF CO!Phases, Phase

LEMMA CoachStart == PhaseData /\ CO!Init => CoachInv
<1> SUFFICES ASSUME PhaseData, CO!Init PROVE CoachInv
  OBVIOUS
<1>1. CoachTyped
  BY DEF CO!Init, CoachTyped, CO!NoJourney, CO!ToSet
<1>2. Proposing
  BY DEF CO!Init, Proposing, CO!Idle, Judged, CO!Mutation, PhaseData
<1>3. Beginning
  BY DEF CO!Init, Beginning, CO!Idle
<1>4. Following
  BY DEF CO!Init, Following, Lagging, CO!Idle, CO!NoJourney, LeadTo
<1> QED BY <1>1, <1>2, <1>3, <1>4 DEF CoachInv

\* What neither turns, proposes, confirms nor moves leaves the rest alone.
LEMMA CoachAside ==
  ASSUME CoachInv,
         preference' \in [{Scope[i] : i \in DOMAIN Scope} -> CO!PhaseSystem \cup {NoSystem}],
         UNCHANGED <<profile, journey, turn, mutations, client, disturbed>>
  PROVE  CoachInv'
<1>1. CoachTyped' /\ Proposing' /\ Beginning'
  BY DEF CoachInv, CoachTyped, Proposing, Beginning
<1>2. Following'
  BY DEF CoachInv, Following, Lagging, LeadTo, CO!Accepted
<1> QED BY <1>1, <1>2 DEF CoachInv

\* The step of a turn that proposes nothing.
LEMMA TurnKeeps ==
  ASSUME CoachInv, NEW t \in Turn, NEW next \in Turns,
         turn' = [turn EXCEPT ![t] = next],
         turn[t].at # "answered",
         profile = NoPhase => next.read.phase = DefaultPhase,
         t \in PersonalTurn /\ next.at \in Judged =>
           /\ next.phase.current = next.read.phase
           /\ next.phase.allowed =>
                Follows(next.phase.system, next.phase.current, next.phase.proposed),
         UNCHANGED <<profile, journey, preference, mutations, client, disturbed>>
  PROVE  CoachInv'
<1>0. CoachTyped /\ Proposing /\ Beginning /\ Following
  BY DEF CoachInv
<1>1. CoachTyped'
  BY <1>0 DEF CoachTyped
<1>2. turn'[t] = next /\ \A u \in Turn : u # t => turn'[u] = turn[u]
  BY <1>0 DEF CoachTyped
<1>3. Proposing'
  <2>1. \A u \in PersonalTurn : turn'[u].at \in Judged =>
          /\ turn'[u].phase.current = turn'[u].read.phase
          /\ turn'[u].phase.allowed =>
               Follows(turn'[u].phase.system, turn'[u].phase.current, turn'[u].phase.proposed)
    <3> SUFFICES ASSUME NEW u \in PersonalTurn, turn'[u].at \in Judged
                 PROVE  /\ turn'[u].phase.current = turn'[u].read.phase
                        /\ turn'[u].phase.allowed =>
                             Follows(turn'[u].phase.system, turn'[u].phase.current,
                                     turn'[u].phase.proposed)
      OBVIOUS
    <3>1. CASE u = t
      BY <1>2, <3>1
    <3>2. CASE u # t
      <4>1. turn'[u] = turn[u]
        BY <3>2
      <4> QED BY <1>0, <4>1 DEF Proposing
    <3> QED BY <3>1, <3>2
  <2>2. \A u \in PersonalTurn : mutations[u] # CO!NoMutation => turn'[u].at = "answered"
    <3> SUFFICES ASSUME NEW u \in PersonalTurn, mutations[u] # CO!NoMutation
                 PROVE  turn'[u].at = "answered"
      OBVIOUS
    <3>1. turn[u].at = "answered" /\ u # t
      BY <1>0 DEF Proposing
    <3>2. turn'[u] = turn[u]
      BY <3>1
    <3> QED BY <3>1, <3>2
  <2>3. \A c \in Client : client[c] # CO!Idle => mutations[client[c].mutation] # CO!NoMutation
    BY <1>0 DEF Proposing
  <2> QED BY <2>1, <2>2, <2>3 DEF Proposing
<1>4. Beginning'
  BY <1>0, <1>2 DEF Beginning
<1>5. Following'
  BY <1>0 DEF Following, Lagging, LeadTo, CO!Accepted
<1> QED BY <1>1, <1>3, <1>4, <1>5 DEF CoachInv

\* A turn goes on with what it has read and judged.
LEMMA TurnGoes ==
  ASSUME PhaseData, CoachInv, NEW t \in Turn, NEW stage \in Stage,
         turn[t].at \in Stage, turn[t].at # "answered",
         turn' = [turn EXCEPT ![t].at = stage],
         t \in PersonalTurn /\ stage \in Judged => turn[t].at \in Judged,
         UNCHANGED <<profile, journey, preference, mutations, client, disturbed>>
  PROVE  CoachInv'
<1> PICK next : next = [turn[t] EXCEPT !.at = stage]
  OBVIOUS
<1>1. turn[t] \in Turns /\ turn[t] # CO!Idle
  BY DEF CoachInv, CoachTyped, CO!Idle, Stage, Judged
<1>2. /\ next \in Turns /\ next.at = stage
      /\ next.read = turn[t].read /\ next.phase = turn[t].phase
  BY <1>1 DEF Turns
<1>3. turn' = [turn EXCEPT ![t] = next]
  BY DEF CoachInv, CoachTyped
<1>4. profile = NoPhase => next.read.phase = DefaultPhase
  BY <1>1, <1>2 DEF CoachInv, Beginning
<1>5. t \in PersonalTurn /\ next.at \in Judged =>
        /\ next.phase.current = next.read.phase
        /\ next.phase.allowed =>
             Follows(next.phase.system, next.phase.current, next.phase.proposed)
  BY <1>2 DEF CoachInv, Proposing
<1> QED BY <1>2, <1>3, <1>4, <1>5, TurnKeeps

LEMMA MostSpecificIsOne ==
  ASSUME NEW S \in SUBSET Nat, S # {}
  PROVE  CO!Min(S) \in S
BY Least DEF CO!Min

LEMMA SystemIsKnown ==
  ASSUME PhaseData, CoachTyped
  PROVE  CO!ResolvedSystem \in CO!PhaseSystem
<1> PICK set : set = {i \in DOMAIN Scope : preference[Scope[i]] # NoSystem}
  OBVIOUS
<1>1. CO!ResolvedSystem = IF set = {} THEN DefaultSystem ELSE preference[Scope[CO!Min(set)]]
  BY DEF CO!ResolvedSystem
<1>2. set \in SUBSET Nat /\ DefaultSystem \in CO!PhaseSystem
  BY DEF PhaseData
<1>3. \A i \in set : preference[Scope[i]] \in CO!PhaseSystem
  BY DEF CoachTyped
<1> QED BY <1>1, <1>2, <1>3, MostSpecificIsOne

LEMMA StartsKeeps ==
  ASSUME PhaseData, CoachInv, NEW t \in Turn, CO!TurnStarts(t)
  PROVE  CoachInv'
<1> PICK next : next = [at |-> "conversation", read |-> CO!Context, phase |-> NoPhase]
  OBVIOUS
<1>0. CoachTyped
  BY DEF CoachInv
<1>1. CO!Context \in Reads
  <2>1. CO!CurrentPhase \in Phase \cup {DefaultPhase}
    BY <1>0 DEF CO!CurrentPhase, CoachTyped
  <2>2. CO!ToSet(journey.completed) \subseteq Phase
    BY <1>0 DEF CO!ToSet, CoachTyped
  <2>3. Facts \cup {<<"phase_completed", p>> : p \in CO!ToSet(journey.completed)} \in SUBSET Fact
    BY <2>2 DEF Fact
  <2> QED BY <2>1, <2>3 DEF CO!Context, Reads
<1>2. profile = NoPhase => CO!Context.phase = DefaultPhase
  BY DEF CO!Context, CO!CurrentPhase
<1>3. /\ next \in Turns /\ next.at = "conversation" /\ next.read = CO!Context
  BY <1>1 DEF Turns, Stage
<1>4. turn' = [turn EXCEPT ![t] = next] /\ turn[t].at # "answered"
  BY DEF CO!TurnStarts, CO!Idle
<1>5. UNCHANGED <<profile, journey, preference, mutations, client, disturbed>>
  BY DEF CO!TurnStarts, CO!stored
<1>6. profile = NoPhase => next.read.phase = DefaultPhase
  BY <1>2, <1>3
<1>7. next.at \notin Judged
  BY <1>3 DEF Judged
<1> QED BY <1>3, <1>4, <1>5, <1>6, <1>7, TurnKeeps

\* A transition that may be made leads to the phase that follows.
LEMMA JudgedFollows ==
  ASSUME PhaseData, NEW sys \in CO!PhaseSystem, NEW p \in CO!Codes(sys), NEW facts,
         NEW j, j = CO!EvaluatePhase(sys, p, facts)
  PROVE  j.current = p /\ (j.allowed => Follows(j.system, j.current, j.proposed))
<1>1. j.system = sys /\ j.current = p
  BY DEF CO!EvaluatePhase
<1>2. ASSUME j.allowed
      PROVE  j.proposed \in CO!Codes(sys) /\ j.proposed = CO!PhaseOf(sys, p).next
  <2>1. j.proposed = CO!PhaseOf(sys, p).next \/ j.proposed = NoPhase
    BY DEF CO!EvaluatePhase
  <2>2. j.proposed \in CO!Codes(sys)
    BY <1>2 DEF CO!EvaluatePhase
  <2> QED BY <2>1, <2>2 DEF PhaseData
<1> QED BY <1>1, <1>2 DEF Follows

LEMMA EvaluateKeeps ==
  ASSUME PhaseData, CoachInv, NEW t \in Turn, CO!Evaluate(t)
  PROVE  CoachInv'
<1>0. CoachTyped
  BY DEF CoachInv
<1> PICK sys : sys = CO!ResolvedSystem
  OBVIOUS
<1> PICK r : r = turn[t].read
  OBVIOUS
<1>1. /\ turn[t].at = "evaluate"
      /\ UNCHANGED <<profile, journey, preference, mutations, client, disturbed>>
  BY DEF CO!Evaluate, CO!stored
<1>2. turn[t] \in Turns /\ turn[t] # CO!Idle
  BY <1>0, <1>1 DEF CoachTyped, CO!Idle
<1>3. r \in Reads
  BY <1>2 DEF Turns
<1>4. CASE r.phase \in CO!Codes(sys)
  <2> PICK j : j = CO!EvaluatePhase(sys, r.phase, r.facts)
    OBVIOUS
  <2> PICK next : next = [turn[t] EXCEPT !.at = "save", !.phase = j]
    OBVIOUS
  <2>1. turn' = [turn EXCEPT ![t].at = "save", ![t].phase = j]
    BY <1>4 DEF CO!Evaluate
  <2>2. turn' = [turn EXCEPT ![t] = next]
    BY <1>0, <2>1 DEF CoachTyped
  <2>3. sys \in CO!PhaseSystem
    BY <1>0, SystemIsKnown
  <2>4. j \in Judgements
    BY <1>3, <2>3 DEF Judgements
  <2>5. next \in Turns /\ next.at = "save" /\ next.phase = j /\ next.read = r
    BY <1>2, <2>4 DEF Turns, Stage, Judged
  <2>6. profile = NoPhase => next.read.phase = DefaultPhase
    BY <1>2, <2>5 DEF CoachInv, Beginning
  <2>7. /\ next.phase.current = next.read.phase
        /\ next.phase.allowed =>
             Follows(next.phase.system, next.phase.current, next.phase.proposed)
    BY <1>4, <2>3, <2>5, JudgedFollows
  <2>8. turn[t].at # "answered"
    BY <1>1
  <2> QED BY <1>1, <2>2, <2>5, <2>6, <2>7, <2>8, TurnKeeps
<1>5. CASE r.phase \notin CO!Codes(sys)
  <2>1. turn' = [turn EXCEPT ![t].at = "failed"]
    BY <1>5 DEF CO!Evaluate, CO!Goto
  <2> QED BY <1>1, <2>1, TurnGoes DEF Stage, Judged
<1> QED BY <1>4, <1>5

LEMMA TurningKeeps ==
  ASSUME PhaseData, CoachInv, NEW t \in Turn,
         \/ CO!FindConversation(t) \/ CO!CreateConversation(t) \/ CO!AppendQuestion(t)
         \/ CO!SaveEvaluation(t) \/ CO!SaveSnapshot(t) \/ CO!AppendAnswer(t)
         \/ CO!TurnFails(t)
  PROVE  CoachInv'
<1> USE DEF CO!stored, CO!Goto, Stage, Judged
<1>1. UNCHANGED <<profile, journey, preference, mutations, client, disturbed>>
  BY DEF CO!FindConversation, CO!CreateConversation, CO!AppendQuestion, CO!SaveEvaluation,
         CO!SaveSnapshot, CO!AppendAnswer, CO!TurnFails
<1>2. CASE CO!FindConversation(t)
  BY <1>1, <1>2, TurnGoes DEF CO!FindConversation
<1>3. CASE CO!CreateConversation(t)
  BY <1>1, <1>3, TurnGoes DEF CO!CreateConversation
<1>4. CASE CO!AppendQuestion(t)
  BY <1>1, <1>4, TurnGoes DEF CO!AppendQuestion
<1>5. CASE CO!SaveEvaluation(t)
  BY <1>1, <1>5, TurnGoes DEF CO!SaveEvaluation
<1>6. CASE CO!SaveSnapshot(t)
  BY <1>1, <1>6, TurnGoes DEF CO!SaveSnapshot
<1>7. CASE CO!AppendAnswer(t)
  BY <1>1, <1>7, TurnGoes DEF CO!AppendAnswer
<1>8. CASE CO!TurnFails(t)
  <2>1. turn[t].at \in Stage /\ turn[t].at # "answered"
    BY <1>8 DEF CO!TurnFails, CO!Open, CoachInv, CoachTyped, CO!Idle, Turns
  <2> QED BY <1>1, <1>8, <2>1, TurnGoes DEF CO!TurnFails
<1> QED BY <1>2, <1>3, <1>4, <1>5, <1>6, <1>7, <1>8

LEMMA ProposeKeeps ==
  ASSUME PhaseData, CoachInv, NEW t \in Turn, CO!RegisterMutations(t)
  PROVE  CoachInv'
<1>0. CoachTyped /\ Proposing /\ Beginning /\ Following
  BY DEF CoachInv
<1>1. /\ turn[t].at = "register" /\ turn' = [turn EXCEPT ![t].at = "answered"]
      /\ UNCHANGED <<profile, journey, preference, client, disturbed>>
  BY DEF CO!RegisterMutations, CO!stored, CO!Goto
<1>2. CASE ~(t \in PersonalTurn /\ turn[t].phase.allowed)
  <2>1. UNCHANGED mutations
    BY <1>2 DEF CO!RegisterMutations
  <2> QED BY <1>1, <2>1, TurnGoes DEF Stage, Judged
<1>3. CASE t \in PersonalTurn /\ turn[t].phase.allowed
  <2> PICK m : m = [status |-> "pending", system |-> turn[t].phase.system,
                    from |-> turn[t].phase.current, to |-> turn[t].phase.proposed]
    OBVIOUS
  <2>1. mutations' = [mutations EXCEPT ![t] = m]
    BY <1>3 DEF CO!RegisterMutations
  <2>2. /\ Follows(turn[t].phase.system, turn[t].phase.current, turn[t].phase.proposed)
        /\ turn[t].phase.current = turn[t].read.phase
    BY <1>0, <1>1, <1>3 DEF Proposing, Judged
  <2>3. m \in Proposals /\ m.from = turn[t].read.phase /\ m.status = "pending"
    <3>1. /\ turn[t].phase.system \in CO!PhaseSystem
          /\ turn[t].phase.current \in Phase /\ turn[t].phase.proposed \in Phase
      BY <2>2, PhaseIsKnown DEF Follows
    <3> QED BY <2>2, <3>1 DEF Proposals
  <2>4. m # CO!NoMutation
    BY <2>3 DEF CO!NoMutation
  <2>5. t \in CO!Mutation
    BY <1>3 DEF CO!Mutation
  <2>6. /\ mutations' \in [CO!Mutation -> {CO!NoMutation} \cup Proposals]
        /\ mutations'[t] = m /\ \A n \in CO!Mutation : n # t => mutations'[n] = mutations[n]
    BY <1>0, <2>1, <2>3, <2>5 DEF CoachTyped
  <2>7. turn[t] \in Turns /\ turn[t] # CO!Idle
    BY <1>0, <1>1 DEF CoachTyped, CO!Idle
  <2> PICK next : next = [turn[t] EXCEPT !.at = "answered"]
    OBVIOUS
  <2>8. next \in Turns /\ next.at = "answered" /\ next.read = turn[t].read
    BY <2>7 DEF Turns, Stage
  <2>9. turn' = [turn EXCEPT ![t] = next]
    BY <1>0, <1>1 DEF CoachTyped
  <2>10. /\ turn' \in [Turn -> {CO!Idle} \cup Turns]
         /\ turn'[t] = next /\ \A u \in Turn : u # t => turn'[u] = turn[u]
    BY <1>0, <2>8, <2>9 DEF CoachTyped
  <2>11. CoachTyped'
    BY <1>0, <1>1, <2>6, <2>10 DEF CoachTyped
  <2>12. mutations[t] = CO!NoMutation
    BY <1>0, <1>1, <1>3 DEF Proposing
  <2>13. \A c \in Client : client[c] # CO!Idle =>
           client[c].mutation \in CO!Mutation /\ client[c].mutation # t
    BY <1>0, <2>12 DEF CoachTyped, Confirmations, Proposing
  <2>14. \A c \in Client : client[c] # CO!Idle =>
           mutations'[client[c].mutation] = mutations[client[c].mutation]
    BY <2>6, <2>13
  <2>15. Proposing'
    <3>1. \A u \in PersonalTurn : u \in Turn
      BY DEF PhaseData
    <3>2. \A u \in PersonalTurn : turn'[u].at \in Judged => turn'[u] = turn[u]
      BY <2>8, <2>10, <3>1 DEF Judged
    <3>3. \A u \in PersonalTurn : turn'[u].at \in Judged =>
            /\ turn'[u].phase.current = turn'[u].read.phase
            /\ turn'[u].phase.allowed =>
                 Follows(turn'[u].phase.system, turn'[u].phase.current, turn'[u].phase.proposed)
      BY <1>0, <3>2 DEF Proposing
    <3>4. \A u \in PersonalTurn : mutations'[u] # CO!NoMutation => turn'[u].at = "answered"
      BY <1>0, <2>6, <2>8, <2>10, <3>1 DEF Proposing, CO!Mutation
    <3>5. \A c \in Client : client'[c] # CO!Idle =>
            mutations'[client'[c].mutation] # CO!NoMutation
      BY <1>0, <1>1, <2>14 DEF Proposing
    <3> QED BY <3>3, <3>4, <3>5 DEF Proposing
  <2>16. Beginning'
    <3> SUFFICES ASSUME profile = NoPhase PROVE Beginning'
      BY <1>1 DEF Beginning
    <3>1. turn[t].read.phase = DefaultPhase
      BY <1>0, <2>7 DEF Beginning
    <3>2. \A u \in Turn : turn'[u] # CO!Idle => turn'[u].read.phase = DefaultPhase
      BY <1>0, <2>8, <2>10, <3>1 DEF Beginning
    <3>3. \A n \in CO!Mutation : mutations'[n] # CO!NoMutation => mutations'[n].from = DefaultPhase
      BY <1>0, <2>3, <2>6, <3>1 DEF Beginning
    <3> QED BY <1>0, <1>1, <3>2, <3>3 DEF Beginning
  <2>17. Following'
    <3>1. Lagging' = Lagging
      BY <1>1 DEF Lagging
    <3>2. \A c \in Lagging : CO!Accepted(c)' = CO!Accepted(c)
      BY <1>1, <2>14 DEF Lagging, CO!Accepted, CO!Idle
    <3>3. ASSUME NEW c \in Lagging, ~disturbed
          PROVE  profile = (CO!Accepted(c).to)' /\ (LeadTo(CO!Accepted(c).from))'
      <4> PICK from : from = CO!Accepted(c).from
        OBVIOUS
      <4>1. profile = CO!Accepted(c).to /\ LeadTo(from)
        BY <1>0, <3>3 DEF Following
      <4> QED BY <1>1, <3>2, <4>1 DEF LeadTo
    <3>4. (LeadTo(profile))' <=> LeadTo(profile)
      BY <1>1 DEF LeadTo
    <3> QED BY <1>0, <1>1, <3>1, <3>3, <3>4 DEF Following
  <2> QED BY <2>11, <2>15, <2>16, <2>17 DEF CoachInv
<1> QED BY <1>2, <1>3

\* A client that is not between its two statements, and does not get there.
LEMMA ClientKeeps ==
  ASSUME CoachInv, NEW c \in Client, NEW next \in {CO!Idle} \cup Confirmations,
         client' = [client EXCEPT ![c] = next],
         client[c].at # "journey", next.at # "journey",
         next # CO!Idle => mutations[next.mutation] # CO!NoMutation,
         mutations' \in [CO!Mutation -> {CO!NoMutation} \cup Proposals],
         \A m \in CO!Mutation :
           \/ mutations'[m] = mutations[m]
           \/ /\ mutations[m] # CO!NoMutation /\ mutations'[m] # CO!NoMutation
              /\ mutations'[m].from = mutations[m].from /\ mutations'[m].to = mutations[m].to
              /\ mutations'[m].system = mutations[m].system,
         UNCHANGED <<profile, journey, preference, turn>>, disturbed' <=> disturbed
  PROVE  CoachInv'
<1>0. CoachTyped /\ Proposing /\ Beginning /\ Following
  BY DEF CoachInv
<1>1. /\ client' \in [Client -> {CO!Idle} \cup Confirmations]
      /\ client'[c] = next /\ \A d \in Client : d # c => client'[d] = client[d]
  BY <1>0 DEF CoachTyped
<1>2. CoachTyped'
  BY <1>0, <1>1 DEF CoachTyped
<1>3. Lagging' = Lagging /\ c \notin Lagging
  BY <1>1 DEF Lagging
<1>4. \A m \in CO!Mutation :
        /\ mutations'[m] # CO!NoMutation <=> mutations[m] # CO!NoMutation
        /\ mutations[m] # CO!NoMutation =>
             mutations'[m].from = mutations[m].from /\ mutations'[m].to = mutations[m].to
  OBVIOUS
<1>5. \A d \in Client : client'[d] # CO!Idle =>
        client'[d].mutation \in CO!Mutation /\ mutations[client'[d].mutation] # CO!NoMutation
  <2> SUFFICES ASSUME NEW d \in Client, client'[d] # CO!Idle
               PROVE  /\ client'[d].mutation \in CO!Mutation
                      /\ mutations[client'[d].mutation] # CO!NoMutation
    OBVIOUS
  <2>1. client'[d] \in Confirmations
    BY <1>1
  <2>2. client'[d].mutation \in CO!Mutation
    BY <2>1 DEF Confirmations
  <2>3. mutations[client'[d].mutation] # CO!NoMutation
    BY <1>0, <1>1 DEF Proposing
  <2> QED BY <2>2, <2>3
<1>6. Proposing'
  <2>1. \A d \in Client : client'[d] # CO!Idle => mutations'[client'[d].mutation] # CO!NoMutation
    BY <1>4, <1>5
  <2>2. \A u \in PersonalTurn : mutations'[u] # CO!NoMutation => turn[u].at = "answered"
    BY <1>0, <1>4 DEF Proposing, CO!Mutation
  <2> QED BY <1>0, <2>1, <2>2 DEF Proposing
<1>7. Beginning'
  <2>1. \A d \in Client : client'[d].at = "journey" => client[d].at = "journey"
    BY <1>1
  <2>2. profile = NoPhase =>
          \A m \in CO!Mutation : mutations'[m] # CO!NoMutation => mutations'[m].from = DefaultPhase
    BY <1>0, <1>4 DEF Beginning
  <2> QED BY <1>0, <2>1, <2>2 DEF Beginning
<1>8. Following'
  <2>1. \A d \in Lagging : d # c /\ client'[d] = client[d] /\ client[d] # CO!Idle
    BY <1>1, <1>3 DEF Lagging, CO!Idle
  <2>2. \A d \in Lagging : /\ CO!Accepted(d)'.from = CO!Accepted(d).from
                           /\ CO!Accepted(d)'.to = CO!Accepted(d).to
    <3> SUFFICES ASSUME NEW d \in Lagging
                 PROVE  /\ mutations'[client'[d].mutation].from = mutations[client[d].mutation].from
                        /\ mutations'[client'[d].mutation].to = mutations[client[d].mutation].to
      BY DEF CO!Accepted
    <3>1. d \in Client
      BY DEF Lagging
    <3> QED BY <1>4, <1>5, <2>1, <3>1
  <2>3. ASSUME NEW d \in Lagging, ~disturbed
        PROVE  profile = (CO!Accepted(d).to)' /\ (LeadTo(CO!Accepted(d).from))'
    <3> PICK from : from = CO!Accepted(d).from
      OBVIOUS
    <3>1. profile = CO!Accepted(d).to /\ LeadTo(from)
      BY <1>0, <2>3 DEF Following
    <3> QED BY <2>2, <3>1 DEF LeadTo
  <2>4. (LeadTo(profile))' <=> LeadTo(profile)
    BY DEF LeadTo
  <2> QED BY <1>0, <1>3, <2>3, <2>4 DEF Following
<1> QED BY <1>2, <1>6, <1>7, <1>8 DEF CoachInv

LEMMA ConfirmingKeeps ==
  ASSUME CoachInv, NEW c \in Client,
         \/ \E m \in CO!Mutation, d \in {"accepted", "rejected"} : CO!Confirm(c, m, d)
         \/ CO!Resolve(c)
  PROVE  CoachInv'
<1>0. CoachTyped /\ Proposing
  BY DEF CoachInv
<1>1. UNCHANGED <<profile, journey, preference, turn, disturbed>>
  BY DEF CO!Confirm, CO!Resolve, CO!stored
<1>2. ASSUME NEW m \in CO!Mutation, NEW d \in {"accepted", "rejected"}, CO!Confirm(c, m, d)
      PROVE  CoachInv'
  <2> PICK next : next = [at |-> "resolve", mutation |-> m, decision |-> d]
    OBVIOUS
  <2>1. next \in Confirmations /\ next.at = "resolve" /\ next.mutation = m
    BY DEF Confirmations
  <2>2. /\ client' = [client EXCEPT ![c] = next] /\ client[c].at # "journey"
        /\ mutations[m] # CO!NoMutation /\ UNCHANGED mutations
    BY <1>2 DEF CO!Confirm, CO!Idle
  <2>3. mutations' \in [CO!Mutation -> {CO!NoMutation} \cup Proposals]
    BY <1>0, <2>2 DEF CoachTyped
  <2> QED BY <1>1, <2>1, <2>2, <2>3, ClientKeeps
<1>3. CASE CO!Resolve(c)
  <2>1. client[c].at = "resolve"
    BY <1>3 DEF CO!Resolve
  <2>2. client[c] \in Confirmations /\ client[c] # CO!Idle
    BY <1>0, <2>1 DEF CoachTyped, CO!Idle
  <2> PICK m : m = client[c].mutation
    OBVIOUS
  <2>3. m \in CO!Mutation /\ mutations[m] # CO!NoMutation
    BY <1>0, <2>2 DEF Confirmations, Proposing
  <2>4. mutations[m] \in Proposals
    BY <1>0, <2>3 DEF CoachTyped
  <2>5. CASE mutations[m].status = "pending"
    <3> PICK next : next = IF client[c].decision = "accepted"
                           THEN [client[c] EXCEPT !.at = "profile"] ELSE CO!Idle
      OBVIOUS
    <3>1. /\ next \in {CO!Idle} \cup Confirmations /\ next.at # "journey"
          /\ next # CO!Idle => next.mutation = m
      BY <2>2 DEF Confirmations, CO!Idle
    <3>2. client' = [client EXCEPT ![c] = next]
      BY <1>0, <1>3, <2>5 DEF CO!Resolve, CoachTyped
    <3> PICK row : row = [mutations[m] EXCEPT !.status = client[c].decision]
      OBVIOUS
    <3>3. /\ row \in Proposals /\ row.from = mutations[m].from /\ row.to = mutations[m].to
          /\ row.system = mutations[m].system /\ row # CO!NoMutation
      <4>1. client[c].decision \in {"accepted", "rejected"}
        BY <2>2 DEF Confirmations
      <4>2. /\ row.status = client[c].decision /\ row.from = mutations[m].from
            /\ row.to = mutations[m].to /\ row.system = mutations[m].system
            /\ row \in [status : {"pending", "accepted", "rejected"}, system : CO!PhaseSystem,
                        from : Phase, to : Phase]
        BY <2>4, <4>1 DEF Proposals
      <4>3. Follows(row.system, row.from, row.to)
        BY <2>4, <4>2 DEF Proposals
      <4>4. row # CO!NoMutation
        BY <4>1, <4>2 DEF CO!NoMutation
      <4> QED BY <4>2, <4>3, <4>4 DEF Proposals
    <3>4. mutations' = [mutations EXCEPT ![m] = row]
      <4>1. mutations' = [mutations EXCEPT ![m].status = client[c].decision]
        BY <1>3, <2>5 DEF CO!Resolve
      <4> QED BY <1>0, <4>1 DEF CoachTyped
    <3>5. /\ mutations' \in [CO!Mutation -> {CO!NoMutation} \cup Proposals]
          /\ mutations'[m] = row /\ \A n \in CO!Mutation : n # m => mutations'[n] = mutations[n]
      BY <1>0, <2>3, <3>3, <3>4 DEF CoachTyped
    <3>6. \A n \in CO!Mutation :
            \/ mutations'[n] = mutations[n]
            \/ /\ mutations[n] # CO!NoMutation /\ mutations'[n] # CO!NoMutation
               /\ mutations'[n].from = mutations[n].from /\ mutations'[n].to = mutations[n].to
               /\ mutations'[n].system = mutations[n].system
      BY <2>3, <3>3, <3>5
    <3>7. next # CO!Idle => mutations[next.mutation] # CO!NoMutation
      BY <2>3, <3>1
    <3>8. client[c].at # "journey"
      BY <2>1
    <3> QED BY <1>1, <3>1, <3>2, <3>5, <3>6, <3>7, <3>8, ClientKeeps
  <2>6. CASE mutations[m].status # "pending"
    <3>1. UNCHANGED mutations /\ client' = [client EXCEPT ![c] = CO!Idle]
      BY <1>3, <2>6 DEF CO!Resolve
    <3>2. mutations' \in [CO!Mutation -> {CO!NoMutation} \cup Proposals]
      BY <1>0, <3>1 DEF CoachTyped
    <3>3. client[c].at # "journey" /\ CO!Idle.at # "journey"
      BY <2>1 DEF CO!Idle
    <3> QED BY <1>1, <3>1, <3>2, <3>3, ClientKeeps
  <2> QED BY <2>5, <2>6
<1> QED BY <1>2, <1>3

\* A confirmation that is under way has a transition to apply.
LEMMA AcceptedIs ==
  ASSUME CoachInv, NEW c \in Client, client[c] # CO!Idle
  PROVE  /\ client[c] \in Confirmations /\ client[c].mutation \in CO!Mutation
         /\ CO!Accepted(c) = mutations[client[c].mutation]
         /\ CO!Accepted(c) \in Proposals /\ CO!Accepted(c) # CO!NoMutation
<1>0. CoachTyped /\ Proposing
  BY DEF CoachInv
<1>1. client[c] \in Confirmations /\ client[c].mutation \in CO!Mutation
  BY <1>0 DEF CoachTyped, Confirmations
<1>2. mutations[client[c].mutation] # CO!NoMutation
  BY <1>0 DEF Proposing
<1>3. mutations[client[c].mutation] \in Proposals
  BY <1>0, <1>1, <1>2 DEF CoachTyped
<1> QED BY <1>1, <1>2, <1>3 DEF CO!Accepted

LEMMA MoveKeeps ==
  ASSUME PhaseData, CoachInv, NEW c \in Client, CO!ApplyToProfile(c)
  PROVE  CoachInv'
<1>0. CoachTyped /\ Proposing /\ Beginning /\ Following
  BY DEF CoachInv
<1>1. /\ client[c].at = "profile"
      /\ UNCHANGED <<journey, preference, turn, mutations>>
  BY DEF CO!ApplyToProfile
<1> PICK m : m = CO!Accepted(c)
  OBVIOUS
<1>2. /\ client[c] \in Confirmations /\ client[c].mutation \in CO!Mutation
      /\ m = mutations[client[c].mutation] /\ m \in Proposals
  BY <1>1, AcceptedIs DEF CO!Idle
<1>3. CASE ~CO!PhaseIsFrom(m)
  <2>1. client' = [client EXCEPT ![c] = CO!Idle] /\ UNCHANGED <<profile, disturbed>>
    BY <1>3 DEF CO!ApplyToProfile
  <2>2. mutations' \in [CO!Mutation -> {CO!NoMutation} \cup Proposals]
    BY <1>0, <1>1 DEF CoachTyped
  <2>3. client[c].at # "journey" /\ CO!Idle.at # "journey"
    BY <1>1 DEF CO!Idle
  <2> QED BY <1>1, <2>1, <2>2, <2>3, ClientKeeps
<1>4. CASE CO!PhaseIsFrom(m)
  <2> PICK next : next = [client[c] EXCEPT !.at = "journey"]
    OBVIOUS
  <2>1. next \in Confirmations /\ next.at = "journey" /\ next.mutation = client[c].mutation
    BY <1>2 DEF Confirmations
  <2>2. /\ profile' = m.to /\ client' = [client EXCEPT ![c] = next]
        /\ disturbed' = (disturbed \/ Lagging # {}) /\ profile \in {NoPhase, m.from}
    <3>1. /\ profile' = m.to /\ client' = [client EXCEPT ![c].at = "journey"]
          /\ disturbed' = (disturbed \/ \E d \in Client : client[d].at = "journey")
      BY <1>4 DEF CO!ApplyToProfile
    <3>2. client' = [client EXCEPT ![c] = next]
      BY <1>0, <3>1 DEF CoachTyped
    <3>3. (\E d \in Client : client[d].at = "journey") <=> Lagging # {}
      BY DEF Lagging
    <3> QED BY <1>4, <3>1, <3>2, <3>3 DEF CO!PhaseIsFrom
  <2>3. m.to \in Phase /\ m.to # NoPhase
    BY <1>2 DEF Proposals, Follows, PhaseData
  <2>4. /\ client' \in [Client -> {CO!Idle} \cup Confirmations]
        /\ client'[c] = next /\ \A d \in Client : d # c => client'[d] = client[d]
    BY <1>0, <2>1, <2>2 DEF CoachTyped
  <2>5. CoachTyped'
    BY <1>0, <1>1, <2>2, <2>3, <2>4 DEF CoachTyped
  <2>6. Proposing'
    <3>1. \A d \in Client : client'[d] # CO!Idle =>
            client[d] # CO!Idle /\ client'[d].mutation = client[d].mutation
      <4> TAKE d \in Client
      <4> HAVE client'[d] # CO!Idle
      <4>1. CASE d = c
        <5>1. client[c] # CO!Idle
          BY <1>1 DEF CO!Idle
        <5> QED BY <2>1, <2>4, <4>1, <5>1
      <4>2. CASE d # c
        BY <2>4, <4>2
      <4> QED BY <4>1, <4>2
    <3>2. \A d \in Client : client'[d] # CO!Idle => mutations[client'[d].mutation] # CO!NoMutation
      BY <1>0, <3>1 DEF Proposing
    <3> QED BY <1>0, <1>1, <3>2 DEF Proposing
  <2>7. Beginning'
    BY <2>2, <2>3 DEF Beginning
  <2>8. Following'
    <3> SUFFICES ASSUME ~disturbed, Lagging = {}
                 PROVE  Following'
      BY <2>2 DEF Following
    <3>1. Lagging' = {c}
      BY <2>1, <2>4 DEF Lagging
    <3>2. (CO!Accepted(c))' = m
      BY <1>1, <1>2, <2>1, <2>4 DEF CO!Accepted
    <3>3. LeadTo(m.from)
      <4>1. CASE profile = NoPhase
        BY <1>0, <4>1 DEF Beginning, LeadTo, CO!NoJourney
      <4>2. CASE profile = m.from
        BY <1>0, <4>2 DEF Following
      <4> QED BY <2>2, <4>1, <4>2
    <3>4. (LeadTo(m.from))'
      BY <1>1, <3>3 DEF LeadTo
    <3> QED BY <2>2, <3>1, <3>2, <3>4 DEF Following
  <2> QED BY <2>5, <2>6, <2>7, <2>8 DEF CoachInv
<1> QED BY <1>3, <1>4

\* What leads to a phase also leads to the one that follows it.
LEMMA OneFurther ==
  ASSUME CoachTyped, SharedPhases, NEW m \in Proposals, LeadTo(m.from),
         journey'.completed = Append(journey.completed, m.from)
  PROVE  (LeadTo(m.to))'
<1> PICK done : done = journey.completed
  OBVIOUS
<1> PICK more : more = Append(done, m.from)
  OBVIOUS
<1> PICK all : all = Append(more, m.to)
  OBVIOUS
<1>1. done \in Seq(Phase) /\ m.from \in Phase /\ m.to \in Phase
  BY DEF CoachTyped, Proposals
<1>2. /\ Len(done) \in Nat /\ more \in Seq(Phase) /\ Len(more) = Len(done) + 1
      /\ DOMAIN more = 1..(Len(done) + 1) /\ DOMAIN done = 1..Len(done)
      /\ more[Len(done) + 1] = m.from /\ \A i \in 1..Len(done) : more[i] = done[i]
  BY <1>1
<1>3. all[Len(done) + 2] = m.to /\ \A i \in 1..(Len(done) + 1) : all[i] = more[i]
  BY <1>1, <1>2
<1>4. ASSUME NEW sys \in CO!PhaseSystem, m.to \in CO!Codes(sys), NEW i \in DOMAIN more
      PROVE  CO!PhaseOf(sys, more[i]).next = all[i + 1]
  <2>1. /\ m.system \in CO!PhaseSystem /\ m.from \in CO!Codes(m.system)
        /\ CO!PhaseOf(m.system, m.from).next = m.to
    BY DEF Proposals, Follows
  <2>2. m.from \in CO!Codes(sys) /\ CO!PhaseOf(sys, m.from).next = m.to
    BY <1>4, <2>1 DEF SharedPhases
  <2>3. CASE i = Len(done) + 1
    <3>1. more[i] = m.from /\ all[i + 1] = m.to
      BY <1>2, <1>3, <2>3
    <3> QED BY <2>2, <3>1
  <2>4. CASE i # Len(done) + 1
    <3>1. i \in 1..Len(done) /\ i + 1 \in 1..(Len(done) + 1)
      BY <1>2, <2>4
    <3>2. CO!PhaseOf(sys, done[i]).next = more[i + 1]
      BY <1>2, <2>2, <3>1 DEF LeadTo
    <3> QED BY <1>2, <1>3, <3>1, <3>2
  <2> QED BY <2>3, <2>4
<1>5. journey'.completed = more
  OBVIOUS
<1> QED BY <1>4, <1>5 DEF LeadTo

LEMMA JourneyKeeps ==
  ASSUME PhaseData, SharedPhases, CoachInv, NEW c \in Client, CO!ApplyToJourney(c)
  PROVE  CoachInv'
<1>0. CoachTyped /\ Proposing /\ Beginning /\ Following
  BY DEF CoachInv
<1> PICK m : m = CO!Accepted(c)
  OBVIOUS
<1>1. /\ client[c].at = "journey" /\ client' = [client EXCEPT ![c] = CO!Idle]
      /\ journey' = [system |-> m.system, current |-> m.to,
                     completed |-> Append(journey.completed, m.from)]
      /\ UNCHANGED <<profile, preference, turn, mutations, disturbed>>
  BY DEF CO!ApplyToJourney, CO!JourneyRow
<1>2. m \in Proposals
  BY <1>1, AcceptedIs DEF CO!Idle
<1>3. /\ m.system \in CO!PhaseSystem /\ m.from \in Phase /\ m.to \in Phase
      /\ m.to \in CO!Codes(m.system)
  BY <1>2 DEF Proposals, Follows
<1>4. /\ client' \in [Client -> {CO!Idle} \cup Confirmations]
      /\ client'[c] = CO!Idle /\ \A d \in Client : d # c => client'[d] = client[d]
  BY <1>0, <1>1 DEF CoachTyped
<1>5. /\ journey'.system = m.system /\ journey'.current = m.to
      /\ journey'.completed = Append(journey.completed, m.from)
      /\ journey' \in [system : CO!PhaseSystem \cup {NoSystem}, current : Phase \cup {NoPhase},
                       completed : Seq(Phase)]
  <2>1. Append(journey.completed, m.from) \in Seq(Phase)
    BY <1>0, <1>3 DEF CoachTyped
  <2> QED BY <1>1, <1>3, <2>1
<1>6. CoachTyped'
  BY <1>0, <1>1, <1>4, <1>5 DEF CoachTyped
<1>7. Proposing'
  <2>1. \A d \in Client : client'[d] # CO!Idle => client'[d] = client[d]
    BY <1>4
  <2> QED BY <1>0, <1>1, <2>1 DEF Proposing
<1>8. Beginning'
  <2>1. profile # NoPhase
    BY <1>0, <1>1 DEF Beginning
  <2> QED BY <1>1, <2>1 DEF Beginning
<1>9. Following'
  <2> SUFFICES ASSUME ~disturbed PROVE Following'
    BY <1>1 DEF Following
  <2>1. c \in Lagging /\ \A d \in Lagging : d = c
    BY <1>0, <1>1 DEF Lagging, Following
  <2>2. Lagging' = {}
    BY <1>4, <2>1 DEF Lagging, CO!Idle
  <2>3. profile = m.to /\ LeadTo(m.from)
    BY <1>0, <2>1 DEF Following
  <2>4. (LeadTo(m.to))'
    BY <1>0, <1>2, <1>5, <2>3, OneFurther
  <2>5. (LeadTo(profile))'
    BY <1>1, <2>3, <2>4 DEF LeadTo
  <2> QED BY <1>1, <1>3, <1>5, <2>2, <2>3, <2>5 DEF Following
<1> QED BY <1>6, <1>7, <1>8, <1>9 DEF CoachInv

LEMMA ConfirmFailsKeeps ==
  ASSUME CoachInv, NEW c \in Client, CO!ConfirmFails(c)
  PROVE  CoachInv'
<1>0. CoachTyped /\ Proposing /\ Beginning /\ Following
  BY DEF CoachInv
<1>1. /\ client' = [client EXCEPT ![c] = CO!Idle]
      /\ disturbed' = (disturbed \/ client[c].at = "journey")
      /\ UNCHANGED <<profile, journey, preference, turn, mutations>>
  BY DEF CO!ConfirmFails, CO!stored
<1>2. CASE client[c].at # "journey" /\ ~disturbed
  <2>1. disturbed' <=> disturbed
    BY <1>1, <1>2
  <2>2. mutations' \in [CO!Mutation -> {CO!NoMutation} \cup Proposals] /\ CO!Idle.at # "journey"
    BY <1>0, <1>1 DEF CoachTyped, CO!Idle
  <2> QED BY <1>1, <1>2, <2>1, <2>2, ClientKeeps
<1>3. CASE client[c].at = "journey" \/ disturbed
  <2>1. /\ client' \in [Client -> {CO!Idle} \cup Confirmations]
        /\ \A d \in Client : client'[d] = CO!Idle \/ client'[d] = client[d]
    BY <1>0, <1>1 DEF CoachTyped
  <2>2. CoachTyped'
    BY <1>0, <1>1, <2>1 DEF CoachTyped
  <2>3. Proposing'
    BY <1>0, <1>1, <2>1 DEF Proposing
  <2>4. Beginning'
    BY <1>0, <1>1, <2>1 DEF Beginning, CO!Idle
  <2>5. Following'
    BY <1>1, <1>3 DEF Following
  <2> QED BY <2>2, <2>3, <2>4, <2>5 DEF CoachInv
<1> QED BY <1>2, <1>3

LEMMA CoachStep ==
  ASSUME PhaseData, SharedPhases, CoachInv, [CO!Next]_(CO!vars)
  PROVE  CoachInv'
<1>0. preference \in [{Scope[i] : i \in DOMAIN Scope} -> CO!PhaseSystem \cup {NoSystem}]
  BY DEF CoachInv, CoachTyped
<1>1. CASE UNCHANGED CO!vars
  BY <1>0, <1>1, CoachAside DEF CO!vars
<1>2. ASSUME NEW s \in CO!ToSet(Scope), NEW sys \in CO!PhaseSystem, CO!SavePreference(s, sys)
      PROVE  CoachInv'
  BY <1>0, <1>2, CoachAside DEF CO!SavePreference
<1>3. ASSUME NEW t \in Turn, CO!TurnStep(t)
      PROVE  CoachInv'
  BY <1>3, StartsKeeps, TurningKeeps, EvaluateKeeps, ProposeKeeps DEF CO!TurnStep
<1>4. ASSUME NEW c \in Client, CO!ClientStep(c)
      PROVE  CoachInv'
  BY <1>4, ConfirmingKeeps, MoveKeeps, JourneyKeeps, ConfirmFailsKeeps DEF CO!ClientStep
<1> QED BY <1>1, <1>2, <1>3, <1>4 DEF CO!Next

\* Only the compare-and-set of a confirmation moves the profile.
LEMMA MoveIsOn ==
  ASSUME PhaseData, CoachInv, [CO!Next]_(CO!vars)
  PROVE  CO!MovesOn
<1> SUFFICES ASSUME profile' # profile PROVE CO!MovesOn
  BY DEF CO!MovesOn
<1>1. PICK c \in Client : CO!ApplyToProfile(c)
  <2>1. ASSUME NEW t \in Turn PROVE ~CO!TurnStep(t)
    BY DEF CO!TurnStep, CO!TurnStarts, CO!FindConversation, CO!CreateConversation,
           CO!AppendQuestion, CO!Evaluate, CO!SaveEvaluation, CO!SaveSnapshot, CO!AppendAnswer,
           CO!RegisterMutations, CO!TurnFails, CO!stored
  <2>2. ASSUME NEW c \in Client, CO!ClientStep(c) PROVE CO!ApplyToProfile(c)
    BY <2>2 DEF CO!ClientStep, CO!Confirm, CO!Resolve, CO!ApplyToJourney, CO!ConfirmFails, CO!stored
  <2> QED BY <2>1, <2>2 DEF CO!Next, CO!SavePreference, CO!vars
<1> PICK m : m = CO!Accepted(c)
  OBVIOUS
<1>2. profile' = m.to /\ profile \in {NoPhase, m.from} /\ client[c].at = "profile"
  BY <1>1 DEF CO!ApplyToProfile, CO!PhaseIsFrom
<1>3. /\ m \in Proposals /\ client[c].mutation \in CO!Mutation
      /\ m = mutations[client[c].mutation] /\ m # CO!NoMutation
  BY <1>2, AcceptedIs DEF CO!Idle
<1>4. /\ m.system \in CO!PhaseSystem /\ m.from \in CO!Codes(m.system)
      /\ m.to = CO!PhaseOf(m.system, m.from).next
  BY <1>3 DEF Proposals, Follows
<1>5. CO!CurrentPhase = m.from
  <2>1. CASE profile = NoPhase
    BY <1>3, <2>1 DEF CoachInv, Beginning, CO!CurrentPhase
  <2>2. CASE profile # NoPhase
    BY <1>2, <2>2 DEF CO!CurrentPhase
  <2> QED BY <2>1, <2>2
<1> QED BY <1>2, <1>4, <1>5 DEF CO!MovesOn

\* A candidate moves from a phase to the phase that follows it, never back or
\* over one, whichever pending transitions are accepted, in whatever order and
\* by however many clients: for every set of phase systems, turns and clients
\* (PostgresChatMutationApplier.applyPhaseTransition).
THEOREM PhasesMoveOn ==
  ASSUME PhaseData, SharedPhases PROVE CO!Spec => CO!NeverMovesBack
<1>1. CO!Init => CoachInv
  BY CoachStart
<1>2. CoachInv /\ [CO!Next]_(CO!vars) => CoachInv'
  BY CoachStep
<1>3. CoachInv /\ [CO!Next]_(CO!vars) => [CO!MovesOn]_(CO!vars)
  BY MoveIsOn
<1> QED BY <1>1, <1>2, <1>3, PTL DEF CO!Spec, CO!NeverMovesBack

LEMMA CoachHolds == CoachInv => CO!JourneyFollowsProfile
<1> SUFFICES ASSUME CoachInv, ~disturbed, Lagging = {}
             PROVE  CO!JourneyFollowsProfile
  BY DEF CO!JourneyFollowsProfile, Lagging
<1>1. /\ journey.current = profile /\ LeadTo(profile)
      /\ journey.completed # <<>> =>
           journey.system \in CO!PhaseSystem /\ profile \in CO!Codes(journey.system)
  BY DEF CoachInv, Following
<1>2. journey.completed \in Seq(Phase)
  BY DEF CoachInv, CoachTyped
<1>3. ASSUME NEW i \in DOMAIN journey.completed
      PROVE  CO!PhaseOf(journey.system, journey.completed[i]).next =
               (journey.completed \o <<profile>>)[i + 1]
  <2>1. journey.completed # <<>>
    BY <1>2
  <2>2. CO!PhaseOf(journey.system, journey.completed[i]).next =
          Append(journey.completed, profile)[i + 1]
    BY <1>1, <2>1 DEF LeadTo
  <2>3. Append(journey.completed, profile)[i + 1] = (journey.completed \o <<profile>>)[i + 1]
    BY <1>2
  <2> QED BY <2>2, <2>3
<1> QED BY <1>1, <1>3 DEF CO!JourneyFollowsProfile

\* Between confirmations the journey is at the phase of the profile and has
\* completed the phases that lead to it, unless a statement failed in between
\* or two transitions were applied at once: for every set of phase systems in
\* which a shared phase follows the same phase.
THEOREM JourneyKeepsUp ==
  ASSUME PhaseData, SharedPhases PROVE CO!Spec => []CO!JourneyFollowsProfile
<1>1. CO!Init => CoachInv
  BY CoachStart
<1>2. CoachInv /\ [CO!Next]_(CO!vars) => CoachInv'
  BY CoachStep
<1>3. CoachInv => CO!JourneyFollowsProfile
  BY CoachHolds
<1> QED BY <1>1, <1>2, <1>3, PTL DEF CO!Spec

\* What is in the conversation.
Transcript == messages \subseteq Turn \X {"user", "assistant"}

\* Only a question and an answer are added to the conversation.
LEMMA TranscriptStart == CO!Init => Transcript
BY DEF CO!Init, Transcript

LEMMA TranscriptStep == Transcript /\ [CO!Next]_(CO!vars) => Transcript'
<1> SUFFICES ASSUME Transcript, [CO!Next]_(CO!vars) PROVE Transcript'
  OBVIOUS
<1> USE DEF Transcript
<1>1. CASE UNCHANGED CO!vars
  BY <1>1 DEF CO!vars
<1>2. ASSUME NEW s, NEW sys, CO!SavePreference(s, sys)
      PROVE  Transcript'
  BY <1>2 DEF CO!SavePreference
<1>3. ASSUME NEW t \in Turn, CO!TurnStep(t)
      PROVE  Transcript'
  BY <1>3 DEF CO!TurnStep, CO!TurnStarts, CO!FindConversation, CO!CreateConversation,
     CO!AppendQuestion, CO!Evaluate, CO!SaveEvaluation, CO!SaveSnapshot, CO!AppendAnswer,
     CO!RegisterMutations, CO!TurnFails, CO!stored
<1>4. ASSUME NEW c \in Client, CO!ClientStep(c)
      PROVE  Transcript'
  BY <1>4 DEF CO!ClientStep, CO!Confirm, CO!Resolve, CO!ApplyToProfile, CO!ApplyToJourney,
     CO!ConfirmFails, CO!stored
<1> QED BY <1>1, <1>2, <1>3, <1>4 DEF CO!Next

LEMMA CoachIsTyped == CoachInv /\ Transcript => CO!TypeOK
<1> SUFFICES ASSUME CoachInv, Transcript PROVE CO!TypeOK
  OBVIOUS
<1>1. \A m \in CO!Mutation : mutations[m].status \in {"none", "pending", "accepted", "rejected"}
  BY DEF CoachInv, CoachTyped, CO!NoMutation, Proposals
<1>2. \A c \in Client : client[c].at \in {"idle", "resolve", "profile", "journey"}
  BY DEF CoachInv, CoachTyped, CO!Idle, Confirmations
<1> QED BY <1>1, <1>2 DEF CoachInv, CoachTyped, CO!TypeOK, Transcript, Phase

\* A mutation has one of its four states, a profile and a journey are at phases of
\* the data, and only questions and answers of turns are in the conversation,
\* however turns and confirmations interleave (PostgresChatMutationApplier).
THEOREM CoachesStayTyped ==
  ASSUME PhaseData, SharedPhases PROVE CO!Spec => []CO!TypeOK
<1>1. CO!Init => CoachInv /\ Transcript
  BY CoachStart, TranscriptStart
<1>2. CoachInv /\ Transcript /\ [CO!Next]_(CO!vars) => (CoachInv /\ Transcript)'
  BY CoachStep, TranscriptStep
<1>3. CoachInv /\ Transcript => CO!TypeOK
  BY CoachIsTyped
<1> QED BY <1>1, <1>2, <1>3, PTL DEF CO!Spec

-----------------------------------------------------------------------------
(***************************************************************************)
(* The advisor channel.                                                    *)
(*                                                                         *)
(* LastWord relates the statements under way to the handlers: while no     *)
(* LISTEN has failed, the last statement sent asks for what the handlers   *)
(* need.  Owing accounts for every message an open stream is owed.         *)
(***************************************************************************)
Streams  == {"none", "start", "connecting", "subscribe", "listen", "open", "closed", "leaked",
             "stuck"}
Statements == {"LISTEN", "UNLISTEN"}

ChannelTyped ==
  /\ stream \in [Viewer -> Streams]
  /\ handlers \subseteq Viewer
  /\ queue \in Seq(Statements)
  /\ listening \in BOOLEAN
  /\ wire \in Seq(Viewer)
  /\ heard \in [Viewer -> SUBSET Viewer]
  /\ owed \in [Viewer -> SUBSET Viewer]

Attached == \A v \in Viewer : stream[v] \in {"listen", "open"} => v \in handlers

LastWord ==
  deaf \/ /\ queue = <<>> => (listening <=> handlers # {})
          /\ queue # <<>> => (queue[Len(queue)] = "LISTEN" <=> handlers # {})

Arriving == {wire[i] : i \in 1..Len(wire)}

Owing ==
  \A v \in Viewer :
    /\ stream[v] \notin {"open", "closed"} => owed[v] = {}
    /\ ~deaf /\ stream[v] = "open" => owed[v] \subseteq heard[v] \cup Arriving

ChannelInv == ChannelTyped /\ Attached /\ LastWord /\ Owing

LEMMA ChannelStart == AC!Init => ChannelInv
<1> SUFFICES ASSUME AC!Init PROVE ChannelInv
  OBVIOUS
<1>1. ChannelTyped
  <2>1. stream \in [Viewer -> Streams]
    BY DEF AC!Init, Streams
  <2>2. queue \in Seq(Statements) /\ wire \in Seq(Viewer)
    BY DEF AC!Init
  <2>3. handlers \subseteq Viewer /\ listening \in BOOLEAN
    BY DEF AC!Init
  <2>4. heard \in [Viewer -> SUBSET Viewer] /\ owed \in [Viewer -> SUBSET Viewer]
    BY DEF AC!Init
  <2> QED BY <2>1, <2>2, <2>3, <2>4 DEF ChannelTyped
<1>2. Attached /\ LastWord /\ Owing
  BY DEF AC!Init, Attached, LastWord, Owing
<1> QED BY <1>1, <1>2 DEF ChannelInv

\* A stream moves on before it is attached to the channel, or off it early.
LEMMA StreamMoves ==
  ASSUME ChannelInv, NEW v \in Viewer, NEW stage \in Streams,
         stream' = [stream EXCEPT ![v] = stage],
         stream[v] \notin {"open", "closed"}, stage \notin {"listen", "open", "closed"},
         UNCHANGED <<handlers, queue, listening, wire, heard, owed, deaf>>
  PROVE  ChannelInv'
<1>1. ChannelTyped'
  BY DEF ChannelInv, ChannelTyped
<1>2. stream'[v] = stage /\ \A w \in Viewer : w # v => stream'[w] = stream[w]
  BY DEF ChannelInv, ChannelTyped
<1>3. Attached' /\ LastWord'
  BY <1>2 DEF ChannelInv, Attached, LastWord
<1>4. Owing'
  BY <1>2 DEF ChannelInv, Owing, Arriving
<1> QED BY <1>1, <1>3, <1>4 DEF ChannelInv

\* What has nothing to do with the channel leaves it alone.
LEMMA ChannelAside ==
  ASSUME ChannelInv, UNCHANGED <<stream, handlers, queue, listening, wire, heard, owed, deaf>>
  PROVE  ChannelInv'
BY DEF ChannelInv, ChannelTyped, Attached, LastWord, Owing, Arriving

LEMMA StartingKeeps ==
  ASSUME ChannelInv, NEW v \in Viewer,
         \/ AC!StartToPublish(v) \/ AC!StartToSubscribe(v)
         \/ AC!Connected(v) \/ AC!ConnectFails(v)
  PROVE  ChannelInv'
<1> USE DEF AC!Ask, AC!Follow, AC!wires
<1>1. CASE AC!StartToPublish(v)
  <2>1. UNCHANGED <<stream, handlers, queue, listening, wire, heard, owed, deaf>>
    BY <1>1 DEF AC!StartToPublish
  <2> QED BY <2>1, ChannelAside
<1>2. CASE AC!StartToSubscribe(v)
  <2>1. /\ UNCHANGED <<handlers, queue, listening, wire, heard, owed, deaf>>
        /\ stream[v] = "start"
        /\ \E s \in {"connecting", "subscribe", "stuck"} : stream' = [stream EXCEPT ![v] = s]
    BY <1>2 DEF AC!StartToSubscribe, AC!Starting
  <2> QED BY <2>1, StreamMoves DEF Streams
<1>3. CASE AC!Connected(v) \/ AC!ConnectFails(v)
  <2>1. UNCHANGED <<handlers, queue, listening, wire, heard, owed, deaf>>
    BY <1>3 DEF AC!Connected, AC!ConnectFails
  <2>2. \/ UNCHANGED stream
        \/ /\ stream[v] = "connecting"
           /\ \E s \in {"subscribe", "stuck"} : stream' = [stream EXCEPT ![v] = s]
    BY <1>3 DEF AC!Connected, AC!ConnectFails
  <2> QED BY <2>1, <2>2, StreamMoves, ChannelAside DEF Streams
<1> QED BY <1>1, <1>2, <1>3

LEMMA PageKeeps ==
  ASSUME ChannelInv, NEW v \in Viewer,
         \/ AC!Send(v) \/ AC!EnsureConversation(v) \/ AC!AppendMessage(v) \/ AC!Reload(v)
         \/ AC!OpenPage(v) \/ AC!CloseEarly(v) \/ AC!Read(v)
  PROVE  ChannelInv'
<1> USE DEF AC!wires
<1>1. UNCHANGED <<handlers, queue, listening, wire, heard, owed, deaf>>
  BY DEF AC!Send, AC!EnsureConversation, AC!AppendMessage, AC!Reload, AC!OpenPage,
         AC!CloseEarly, AC!Read
<1>2. \/ UNCHANGED stream
      \/ stream[v] = "none" /\ stream' = [stream EXCEPT ![v] = "start"]
      \/ stream[v] = "listen" /\ stream' = [stream EXCEPT ![v] = "leaked"]
  BY DEF AC!Send, AC!EnsureConversation, AC!AppendMessage, AC!Reload, AC!OpenPage,
         AC!CloseEarly, AC!Read, AC!Follow
<1> QED BY <1>1, <1>2, StreamMoves, ChannelAside DEF Streams

\* A message is owed only while the broker listens, and is then on the wire.
LEMMA PublishKeeps ==
  ASSUME ChannelInv, NEW v \in Viewer, AC!Publish(v)
  PROVE  ChannelInv'
<1>0. ChannelTyped /\ Attached /\ LastWord /\ Owing
  BY DEF ChannelInv
<1>1. UNCHANGED <<stream, handlers, queue, listening, heard, deaf>>
  BY DEF AC!Publish
<1>2. CASE v \in TooLong
  <2>1. UNCHANGED <<wire, owed>>
    BY <1>2 DEF AC!Publish, AC!wires
  <2> QED BY <1>1, <2>1, ChannelAside
<1>3. CASE v \notin TooLong
  <2>1. /\ wire' = IF listening THEN Append(wire, v) ELSE wire
        /\ owed' = [w \in Viewer |-> owed[w] \cup IF AC!Attends(w) THEN {v} ELSE {}]
    BY <1>3 DEF AC!Publish
  <2>2. ChannelTyped'
    <3>1. wire' \in Seq(Viewer)
      BY <1>0, <2>1 DEF ChannelTyped
    <3>2. owed' \in [Viewer -> SUBSET Viewer]
      BY <1>0, <2>1 DEF ChannelTyped
    <3> QED BY <1>0, <1>1, <3>1, <3>2 DEF ChannelTyped
  <2>3. Attached' /\ LastWord'
    BY <1>0, <1>1 DEF Attached, LastWord
  <2>4. /\ Arriving' = Arriving \cup IF listening THEN {v} ELSE {}
    <3>1. CASE listening
      <4>1. /\ Len(wire') = Len(wire) + 1 /\ Len(wire) \in Nat /\ wire'[Len(wire) + 1] = v
            /\ \A i \in 1..Len(wire) : wire'[i] = wire[i]
        BY <1>0, <2>1, <3>1 DEF ChannelTyped
      <4>2. \A x : x \in Arriving' <=> \E i \in 1..(Len(wire) + 1) : x = wire'[i]
        BY <4>1 DEF Arriving
      <4>3. \A x : x \in Arriving <=> \E i \in 1..Len(wire) : x = wire'[i]
        BY <4>1 DEF Arriving
      <4>4. \A i : i \in 1..(Len(wire) + 1) <=> i \in 1..Len(wire) \/ i = Len(wire) + 1
        BY <4>1
      <4> QED BY <3>1, <4>1, <4>2, <4>3, <4>4
    <3>2. CASE ~listening
      BY <2>1, <3>2 DEF Arriving
    <3> QED BY <3>1, <3>2
  <2>5. ASSUME ~deaf, NEW w \in Viewer, AC!Attends(w)
        PROVE  listening
    <3>1. w \in handlers /\ ~AC!Contains(queue, "LISTEN")
      BY <1>0, <2>5 DEF AC!Attends, Attached
    <3>2. CASE queue = <<>>
      BY <1>0, <2>5, <3>1, <3>2 DEF LastWord
    <3>3. CASE queue # <<>>
      <4>1. Len(queue) \in 1..Len(queue)
        BY <1>0, <3>3 DEF ChannelTyped
      <4>2. queue[Len(queue)] = "LISTEN"
        BY <1>0, <2>5, <3>1, <3>3 DEF LastWord
      <4> QED BY <3>1, <4>1, <4>2 DEF AC!Contains
    <3> QED BY <3>2, <3>3
  <2>6. Owing'
    <3> SUFFICES ASSUME NEW w \in Viewer
                 PROVE  /\ stream[w] \notin {"open", "closed"} => owed'[w] = {}
                        /\ ~deaf /\ stream[w] = "open" => owed'[w] \subseteq heard[w] \cup Arriving'
      BY <1>1 DEF Owing
    <3>1. owed'[w] = owed[w] \cup IF AC!Attends(w) THEN {v} ELSE {}
      BY <2>1
    <3>2. AC!Attends(w) => stream[w] = "open"
      BY DEF AC!Attends
    <3>3. stream[w] \notin {"open", "closed"} => owed'[w] = {}
      BY <1>0, <3>1, <3>2 DEF Owing
    <3>4. ~deaf /\ stream[w] = "open" => owed'[w] \subseteq heard[w] \cup Arriving'
      BY <1>0, <2>4, <2>5, <3>1 DEF Owing
    <3> QED BY <3>3, <3>4
  <2> QED BY <2>2, <2>3, <2>6 DEF ChannelInv
<1> QED BY <1>2, <1>3

LEMMA SubscribeKeeps ==
  ASSUME ChannelInv, NEW v \in Viewer, AC!Subscribe(v)
  PROVE  ChannelInv'
<1>0. ChannelTyped /\ Attached /\ LastWord /\ Owing
  BY DEF ChannelInv
<1>1. /\ handlers' = handlers \cup {v} /\ stream[v] = "subscribe"
      /\ UNCHANGED <<listening, wire, heard, owed, deaf>>
  BY DEF AC!Subscribe
<1>2. PICK stage \in {"listen", "open"} : stream' = [stream EXCEPT ![v] = stage]
  BY DEF AC!Subscribe, AC!Follow
<1>3. queue' = IF handlers = {} THEN Append(queue, "LISTEN") ELSE queue
  BY DEF AC!Subscribe
<1>4. ChannelTyped'
  BY <1>0, <1>1, <1>2, <1>3 DEF ChannelTyped, Streams, Statements
<1>5. stream'[v] = stage /\ \A w \in Viewer : w # v => stream'[w] = stream[w]
  BY <1>0, <1>2 DEF ChannelTyped
<1>6. Attached'
  BY <1>0, <1>1, <1>5 DEF Attached
<1>7. LastWord'
  <2>1. CASE handlers = {}
    <3>1. queue' # <<>> /\ queue'[Len(queue')] = "LISTEN"
      BY <1>0, <1>3, <2>1 DEF ChannelTyped, Statements
    <3> QED BY <1>1, <3>1 DEF LastWord
  <2>2. CASE handlers # {}
    BY <1>0, <1>1, <1>3, <2>2 DEF LastWord
  <2> QED BY <2>1, <2>2
<1>8. Owing'
  <2>1. owed[v] = {}
    BY <1>0, <1>1 DEF Owing
  <2> QED BY <1>0, <1>1, <1>5, <2>1 DEF Owing, Arriving
<1> QED BY <1>4, <1>6, <1>7, <1>8 DEF ChannelInv

LEMMA CloseKeeps ==
  ASSUME ChannelInv, NEW v \in Viewer, AC!Close(v)
  PROVE  ChannelInv'
<1>0. ChannelTyped /\ Attached /\ LastWord /\ Owing
  BY DEF ChannelInv
<1>1. /\ handlers' = handlers \ {v} /\ stream[v] = "open"
      /\ stream' = [stream EXCEPT ![v] = "closed"]
      /\ queue' = IF handlers \subseteq {v} THEN Append(queue, "UNLISTEN") ELSE queue
      /\ UNCHANGED <<listening, wire, heard, owed, deaf>>
  BY DEF AC!Close, AC!Follow, AC!LastHandler
<1>2. ChannelTyped'
  BY <1>0, <1>1 DEF ChannelTyped, Streams, Statements
<1>3. stream'[v] = "closed" /\ \A w \in Viewer : w # v => stream'[w] = stream[w]
  BY <1>0, <1>1 DEF ChannelTyped
<1>4. Attached'
  BY <1>0, <1>1, <1>3 DEF Attached
<1>5. LastWord'
  <2>1. CASE handlers \subseteq {v}
    <3>1. queue' = Append(queue, "UNLISTEN") /\ queue \in Seq(Statements)
      BY <1>0, <1>1, <2>1 DEF ChannelTyped
    <3>2. queue' # <<>> /\ queue'[Len(queue')] = "UNLISTEN"
      BY <3>1 DEF Statements
    <3>3. handlers' = {}
      BY <1>1, <2>1
    <3> QED BY <3>2, <3>3 DEF LastWord
  <2>2. CASE ~(handlers \subseteq {v})
    <3>1. queue' = queue /\ handlers # {} /\ handlers' # {}
      BY <1>1, <2>2
    <3> QED BY <1>0, <1>1, <3>1 DEF LastWord
  <2> QED BY <2>1, <2>2
<1>6. Owing'
  BY <1>0, <1>1, <1>3 DEF Owing, Arriving
<1> QED BY <1>2, <1>4, <1>5, <1>6 DEF ChannelInv

LEMMA ExecuteKeeps ==
  ASSUME ChannelInv, AC!Execute
  PROVE  ChannelInv'
<1>0. ChannelTyped /\ Attached /\ LastWord /\ Owing
  BY DEF ChannelInv
<1>1. /\ queue # <<>> /\ queue' = Tail(queue) /\ listening' = (Head(queue) = "LISTEN")
      /\ UNCHANGED <<handlers, wire, heard, owed, deaf>>
  BY DEF AC!Execute
<1>2. /\ stream' \in [Viewer -> Streams]
      /\ \A v \in Viewer : stream'[v] = stream[v] \/ (stream[v] = "listen" /\ stream'[v] = "open")
  <2>1. stream' = [v \in Viewer |-> IF Head(queue) = "LISTEN" /\ stream[v] = "listen"
                                   THEN "open" ELSE stream[v]]
    BY DEF AC!Execute
  <2>2. stream \in [Viewer -> Streams] /\ "open" \in Streams
    BY <1>0 DEF ChannelTyped, Streams
  <2>3. stream' \in [Viewer -> Streams]
    BY <2>1, <2>2
  <2>4. \A v \in Viewer : stream'[v] = stream[v] \/ (stream[v] = "listen" /\ stream'[v] = "open")
    BY <2>1
  <2> QED BY <2>3, <2>4
<1>3. ChannelTyped'
  BY <1>0, <1>1, <1>2 DEF ChannelTyped
<1>4. Attached'
  BY <1>0, <1>1, <1>2 DEF Attached
<1>5. LastWord'
  <2>1. /\ Len(queue) \in Nat \ {0} /\ Len(queue') = Len(queue) - 1 /\ Head(queue) = queue[1]
        /\ \A i \in 1..(Len(queue) - 1) : queue'[i] = queue[i + 1]
        /\ queue' \in Seq(Statements)
    BY <1>0, <1>1 DEF ChannelTyped
  <2>2. CASE Len(queue) = 1
    <3>1. queue' = <<>> /\ Head(queue) = queue[Len(queue)]
      BY <2>1, <2>2
    <3> QED BY <1>0, <1>1, <3>1 DEF LastWord
  <2>3. CASE Len(queue) # 1
    <3>1. queue' # <<>> /\ queue'[Len(queue')] = queue[Len(queue)]
      BY <2>1, <2>3
    <3> QED BY <1>0, <1>1, <3>1 DEF LastWord
  <2> QED BY <2>2, <2>3
<1>6. Owing'
  BY <1>0, <1>1, <1>2 DEF Owing, Arriving
<1> QED BY <1>3, <1>4, <1>5, <1>6 DEF ChannelInv

LEMMA ListenFailsKeeps ==
  ASSUME ChannelInv, AC!ListenFails
  PROVE  ChannelInv'
<1>0. ChannelTyped /\ Attached /\ LastWord /\ Owing
  BY DEF ChannelInv
<1>1. /\ queue # <<>> /\ queue' = Tail(queue) /\ deaf'
      /\ UNCHANGED <<handlers, listening, wire, heard, owed>>
  BY DEF AC!ListenFails
<1>2. /\ stream' \in [Viewer -> Streams]
      /\ \A v \in Viewer : stream'[v] = stream[v] \/ (stream[v] = "listen" /\ stream'[v] = "stuck")
  <2>1. stream' = [v \in Viewer |-> IF stream[v] = "listen" THEN "stuck" ELSE stream[v]]
    BY DEF AC!ListenFails
  <2>2. stream \in [Viewer -> Streams] /\ "stuck" \in Streams
    BY <1>0 DEF ChannelTyped, Streams
  <2>3. stream' \in [Viewer -> Streams]
    BY <2>1, <2>2
  <2>4. \A v \in Viewer : stream'[v] = stream[v] \/ (stream[v] = "listen" /\ stream'[v] = "stuck")
    BY <2>1
  <2> QED BY <2>3, <2>4
<1>3. ChannelTyped'
  BY <1>0, <1>1, <1>2 DEF ChannelTyped
<1>4. Attached' /\ LastWord'
  BY <1>0, <1>1, <1>2 DEF Attached, LastWord
<1>5. Owing'
  BY <1>0, <1>1, <1>2 DEF Owing
<1> QED BY <1>3, <1>4, <1>5 DEF ChannelInv

LEMMA NotifyKeeps ==
  ASSUME ChannelInv, AC!Notify
  PROVE  ChannelInv'
<1>0. ChannelTyped /\ Attached /\ LastWord /\ Owing
  BY DEF ChannelInv
<1>1. /\ wire # <<>> /\ wire' = Tail(wire)
      /\ heard' = [v \in Viewer |-> heard[v] \cup IF v \in handlers THEN {Head(wire)} ELSE {}]
      /\ UNCHANGED <<stream, handlers, queue, listening, owed, deaf>>
  BY DEF AC!Notify
<1>2. ChannelTyped'
  <2>1. Head(wire) \in Viewer /\ wire' \in Seq(Viewer)
    BY <1>0, <1>1 DEF ChannelTyped
  <2>2. heard' \in [Viewer -> SUBSET Viewer]
    BY <1>0, <1>1, <2>1 DEF ChannelTyped
  <2> QED BY <1>0, <1>1, <2>1, <2>2 DEF ChannelTyped
<1>3. Attached' /\ LastWord'
  BY <1>0, <1>1 DEF Attached, LastWord
<1>4. Arriving \subseteq Arriving' \cup {Head(wire)}
  <2>1. /\ Len(wire) \in Nat \ {0} /\ Len(wire') = Len(wire) - 1 /\ Head(wire) = wire[1]
        /\ \A i \in 1..(Len(wire) - 1) : wire'[i] = wire[i + 1]
    BY <1>0, <1>1 DEF ChannelTyped
  <2> SUFFICES ASSUME NEW i \in 1..Len(wire), i # 1
               PROVE  wire[i] \in Arriving'
    BY <2>1 DEF Arriving
  <2>2. i - 1 \in 1..(Len(wire) - 1) /\ wire'[i - 1] = wire[i]
    BY <2>1
  <2> QED BY <2>1, <2>2 DEF Arriving
<1>5. Owing'
  <2>1. \A v \in Viewer : /\ heard[v] \subseteq heard'[v]
                          /\ v \in handlers => Head(wire) \in heard'[v]
    BY <1>1
  <2>2. \A v \in Viewer : stream[v] = "open" => v \in handlers
    BY <1>0 DEF Attached
  <2>3. \A v \in Viewer :
          ~deaf /\ stream[v] = "open" => owed[v] \subseteq heard'[v] \cup Arriving'
    BY <1>0, <1>4, <2>1, <2>2 DEF Owing
  <2> QED BY <1>0, <1>1, <2>3 DEF Owing
<1> QED BY <1>2, <1>3, <1>5 DEF ChannelInv

LEMMA ChannelStep ==
  ASSUME ChannelInv, [AC!Next]_(AC!vars)
  PROVE  ChannelInv'
<1>1. CASE UNCHANGED AC!vars
  BY <1>1, ChannelAside DEF AC!vars
<1>2. ASSUME NEW v \in Viewer,
             \/ AC!StartToPublish(v) \/ AC!StartToSubscribe(v) \/ AC!Connected(v)
             \/ AC!ConnectFails(v) \/ AC!Send(v) \/ AC!EnsureConversation(v)
             \/ AC!AppendMessage(v) \/ AC!Publish(v) \/ AC!Reload(v) \/ AC!OpenPage(v)
             \/ AC!Subscribe(v) \/ AC!Close(v) \/ AC!CloseEarly(v) \/ AC!Read(v)
      PROVE  ChannelInv'
  BY <1>2, StartingKeeps, PageKeeps, PublishKeeps, SubscribeKeeps, CloseKeeps
<1> QED BY <1>1, <1>2, ExecuteKeeps, ListenFailsKeeps, NotifyKeeps DEF AC!Next

LEMMA ChannelHolds == ChannelInv => AC!OpenStreamsHear
<1> SUFFICES ASSUME ChannelInv, wire = <<>>, ~deaf, NEW v \in Viewer, stream[v] = "open"
             PROVE  owed[v] \subseteq heard[v]
  BY DEF AC!OpenStreamsHear
<1>1. Arriving = {}
  BY DEF Arriving
<1> QED BY <1>1 DEF ChannelInv, Owing

\* A stream that stays open is written every message published while it is
\* open, whoever subscribes and leaves around it and whenever PostgreSQL takes
\* the statements, unless a LISTEN failed: for every number of viewers
\* (PostgresRealtimeBroker.subscribe, publishAdvisorMessage).
THEOREM OpenStreamsAreWritten == AC!Spec => []AC!OpenStreamsHear
<1>1. AC!Init => ChannelInv
  BY ChannelStart
<1>2. ChannelInv /\ [AC!Next]_(AC!vars) => ChannelInv'
  BY ChannelStep
<1>3. ChannelInv => AC!OpenStreamsHear
  BY ChannelHolds
<1> QED BY <1>1, <1>2, <1>3, PTL DEF AC!Spec

(***************************************************************************)
(* What a page reads.  In what is written to a stream every "data: " is    *)
(* followed by a message and no three line ends are in a row, wherever the *)
(* page cuts it; so it shows messages only.                                *)
(***************************************************************************)
\* The pieces of an event.
Kind == "event: message"
Data == "data: "
Gap  == "newline"

\* No message is one of them.
MessagesApart == Viewer \cap {Kind, Gap, Data, AC!LineEnd} = {}

Piece == Viewer \cup {Kind, Gap, Data, AC!LineEnd}

Legible(s) ==
  /\ s \in Seq(Piece)
  /\ \A i \in 1..Len(s) : s[i] = Data => i < Len(s) /\ s[i + 1] \in Viewer
  /\ \A i \in 1..(Len(s) - 2) : ~(s[i] = AC!LineEnd /\ s[i + 1] = AC!LineEnd /\ s[i + 2] = AC!LineEnd)

Begins(s) == s # <<>> => s[1] # AC!LineEnd

Asked == {"idle", "find", "create", "append", "start", "connecting", "publish", "published",
          "sent", "failed"}

PagesTyped ==
  /\ broker \in {"new", "connecting", "started"}
  /\ request \in [Viewer -> Asked]
  /\ history \in Seq(Viewer)
  /\ known \in [Viewer -> SUBSET Viewer]
  /\ DOMAIN buffer = Viewer /\ \A v \in Viewer : Legible(buffer[v])
  /\ DOMAIN written = Viewer /\ \A v \in Viewer : Legible(written[v]) /\ Begins(written[v])
  /\ buffer = [v \in Viewer |-> buffer[v]] /\ written = [v \in Viewer |-> written[v]]

LEMMA NothingIsLegible == Legible(<<>>) /\ Begins(<<>>)
BY DEF Legible, Begins

LEMMA JoinedIsLegible ==
  ASSUME NEW s, NEW t, Legible(s), Legible(t), Begins(t)
  PROVE  Legible(s \o t)
<1> PICK j : j = s \o t
  OBVIOUS
<1>1. /\ s \in Seq(Piece) /\ t \in Seq(Piece) /\ j \in Seq(Piece)
      /\ Len(s) \in Nat /\ Len(t) \in Nat /\ Len(j) = Len(s) + Len(t)
      /\ \A i \in 1..Len(s) : j[i] = s[i]
      /\ \A i \in (Len(s) + 1)..Len(j) : j[i] = t[i - Len(s)]
  BY DEF Legible
<1>2. ASSUME NEW i \in 1..Len(j), j[i] = Data
      PROVE  i < Len(j) /\ j[i + 1] \in Viewer
  <2>1. CASE i \in 1..Len(s)
    BY <1>1, <1>2, <2>1 DEF Legible
  <2>2. CASE i \notin 1..Len(s)
    <3>1. i - Len(s) \in 1..Len(t) /\ t[i - Len(s)] = Data
      BY <1>1, <1>2, <2>2
    <3>2. i - Len(s) < Len(t) /\ t[(i - Len(s)) + 1] \in Viewer
      BY <3>1 DEF Legible
    <3>3. i + 1 \in (Len(s) + 1)..Len(j) /\ (i + 1) - Len(s) = (i - Len(s)) + 1
      BY <1>1, <3>1, <3>2
    <3> QED BY <1>1, <3>2, <3>3
  <2> QED BY <2>1, <2>2
<1>3. ASSUME NEW i \in 1..(Len(j) - 2), j[i] = AC!LineEnd, j[i + 1] = AC!LineEnd, j[i + 2] = AC!LineEnd
      PROVE  FALSE
  <2>1. CASE i + 2 \in 1..Len(s)
    <3>1. i \in 1..(Len(s) - 2) /\ i + 1 \in 1..Len(s)
      BY <1>1, <2>1
    <3> QED BY <1>1, <1>3, <2>1, <3>1 DEF Legible
  <2>2. CASE i > Len(s)
    <3>1. /\ i - Len(s) \in 1..(Len(t) - 2)
          /\ {i, i + 1, i + 2} \subseteq (Len(s) + 1)..Len(j)
          /\ (i + 1) - Len(s) = (i - Len(s)) + 1 /\ (i + 2) - Len(s) = (i - Len(s)) + 2
      BY <1>1, <2>2
    <3>2. /\ t[i - Len(s)] = AC!LineEnd /\ t[(i - Len(s)) + 1] = AC!LineEnd
          /\ t[(i - Len(s)) + 2] = AC!LineEnd
      BY <1>1, <1>3, <3>1
    <3> QED BY <3>1, <3>2 DEF Legible
  <2>3. CASE i \in 1..Len(s) /\ i + 2 \notin 1..Len(s)
    <3>1. Len(s) + 1 \in {i + 1, i + 2} /\ Len(s) + 1 \in (Len(s) + 1)..Len(j) /\ t # <<>>
      BY <1>1, <2>3
    <3>2. j[Len(s) + 1] = t[(Len(s) + 1) - Len(s)] /\ (Len(s) + 1) - Len(s) = 1
      BY <1>1, <3>1
    <3> QED BY <1>3, <3>1, <3>2 DEF Begins
  <2> QED BY <1>1, <2>1, <2>2, <2>3
<1> QED BY <1>1, <1>2, <1>3 DEF Legible

LEMMA ThreeOfRest ==
  ASSUME NEW n \in Nat, NEW k \in 1..(n + 1), NEW i \in 1..((n - k + 1) - 2)
  PROVE  /\ i \in 1..(n - k + 1) /\ i + 1 \in 1..(n - k + 1) /\ i + 2 \in 1..(n - k + 1)
         /\ i + k - 1 \in 1..(n - 2)
         /\ (i + 1) + k - 1 = (i + k - 1) + 1 /\ (i + 2) + k - 1 = (i + k - 1) + 2
OBVIOUS

LEMMA TwoOfRest ==
  ASSUME NEW n \in Nat, NEW k \in 1..(n + 1), NEW i \in 1..(n - k + 1), i + k - 1 < n
  PROVE  i < n - k + 1 /\ i + 1 \in 1..(n - k + 1) /\ (i + 1) + k - 1 = (i + k - 1) + 1
OBVIOUS

LEMMA RestIsLegible ==
  ASSUME NEW s, Legible(s), NEW k \in 1..(Len(s) + 1)
  PROVE  Legible(SubSeq(s, k, Len(s)))
<1> PICK r : r = SubSeq(s, k, Len(s))
  OBVIOUS
<1>1. /\ s \in Seq(Piece) /\ Len(s) \in Nat /\ r \in Seq(Piece) /\ Len(r) = Len(s) - k + 1
      /\ \A i \in 1..Len(r) : r[i] = s[i + k - 1]
  BY DEF Legible
<1>2. ASSUME NEW i \in 1..Len(r), r[i] = Data
      PROVE  i < Len(r) /\ r[i + 1] \in Viewer
  <2>1. i + k - 1 \in 1..Len(s) /\ s[i + k - 1] = Data
    BY <1>1, <1>2
  <2>2. i + k - 1 < Len(s) /\ s[(i + k - 1) + 1] \in Viewer
    BY <2>1 DEF Legible
  <2>3. i < Len(r) /\ i + 1 \in 1..Len(r) /\ (i + 1) + k - 1 = (i + k - 1) + 1
    <3>1. Len(s) \in Nat /\ i \in 1..(Len(s) - k + 1) /\ Len(r) = Len(s) - k + 1
      BY <1>1
    <3>2. i + k - 1 < Len(s)
      BY <2>2
    <3> QED BY <3>1, <3>2, TwoOfRest
  <2> QED BY <1>1, <2>2, <2>3
<1>3. ASSUME NEW i \in 1..(Len(r) - 2), r[i] = AC!LineEnd, r[i + 1] = AC!LineEnd, r[i + 2] = AC!LineEnd
      PROVE  FALSE
  <2>1. /\ i \in 1..Len(r) /\ i + 1 \in 1..Len(r) /\ i + 2 \in 1..Len(r)
        /\ i + k - 1 \in 1..(Len(s) - 2)
        /\ (i + 1) + k - 1 = (i + k - 1) + 1 /\ (i + 2) + k - 1 = (i + k - 1) + 2
    <3>1. Len(s) \in Nat /\ i \in 1..((Len(s) - k + 1) - 2) /\ Len(r) = Len(s) - k + 1
      BY <1>1
    <3> QED BY <3>1, ThreeOfRest
  <2>2. /\ s[i + k - 1] = AC!LineEnd /\ s[(i + k - 1) + 1] = AC!LineEnd
        /\ s[(i + k - 1) + 2] = AC!LineEnd
    BY <1>1, <1>3, <2>1
  <2> QED BY <2>1, <2>2 DEF Legible
<1> QED BY <1>1, <1>2, <1>3 DEF Legible

\* What Notify writes.
LEMMA PiecesDiffer == Kind # Data /\ Kind # AC!LineEnd /\ Gap # Data /\ Gap # AC!LineEnd /\ Data # AC!LineEnd
BY Zenon DEF Kind, Data, Gap, AC!LineEnd

LEMMA FrameIsLegible ==
  ASSUME MessagesApart, NEW m \in Viewer
  PROVE  Legible(AC!Frame(m)) /\ Begins(AC!Frame(m))
<1>1. m \notin {Kind, Gap, Data, AC!LineEnd}
  BY DEF MessagesApart
<1>2. PICK F : F = AC!Frame(m)
  OBVIOUS
<1>3. PICK x, z : x = <<Kind, Gap, Data, m>> /\ z = <<Gap, Gap>>
  OBVIOUS
<1>4. /\ x \in Seq(Piece) /\ Len(x) = 4 /\ x[1] = Kind /\ x[2] = Gap /\ x[3] = Data /\ x[4] = m
      /\ z \in Seq(Piece) /\ Len(z) = 2 /\ z[1] = Gap /\ z[2] = Gap
  BY <1>3 DEF Piece
<1>5. CASE m \in TwoLines
  <2>0. PICK y : y = <<AC!LineEnd, AC!LineEnd>>
    OBVIOUS
  <2>1. PICK w : w = x \o y
    OBVIOUS
  <2>2. F = w \o z
    BY <1>2, <1>3, <1>5, <2>0, <2>1, Zenon DEF AC!Frame, Kind, Gap, Data, AC!LineEnd
  <2>3. /\ w \in Seq(Piece) /\ Len(w) = 6 /\ w[5] = AC!LineEnd /\ w[6] = AC!LineEnd
        /\ w[1] = Kind /\ w[2] = Gap /\ w[3] = Data /\ w[4] = m
    <3>1. y \in Seq(Piece) /\ Len(y) = 2 /\ y[1] = AC!LineEnd /\ y[2] = AC!LineEnd
      BY <2>0 DEF Piece
    <3>2. /\ w \in Seq(Piece) /\ Len(w) = Len(x) + Len(y)
          /\ \A i \in 1..Len(x) : w[i] = x[i]
          /\ \A i \in 1..Len(y) : w[Len(x) + i] = y[i]
      <4>1. x \in Seq(Piece) /\ y \in Seq(Piece)
        BY <1>4, <3>1
      <4> QED BY <2>1, <4>1
    <3>3. w[4 + 1] = y[1] /\ w[4 + 2] = y[2]
      BY <1>4, <3>1, <3>2
    <3> QED BY <1>4, <3>1, <3>2, <3>3
  <2>4. /\ F \in Seq(Piece) /\ Len(F) = 8
        /\ F[1] = Kind /\ F[2] = Gap /\ F[3] = Data /\ F[4] = m
        /\ F[5] = AC!LineEnd /\ F[6] = AC!LineEnd /\ F[7] = Gap /\ F[8] = Gap
    <3>1. /\ F \in Seq(Piece) /\ Len(F) = Len(w) + Len(z)
          /\ \A i \in 1..Len(w) : F[i] = w[i]
          /\ \A i \in 1..Len(z) : F[Len(w) + i] = z[i]
      <4>1. w \in Seq(Piece) /\ z \in Seq(Piece)
        BY <1>4, <2>3
      <4> QED BY <2>2, <4>1
    <3>2. F[6 + 1] = z[1] /\ F[6 + 2] = z[2]
      BY <1>4, <2>3, <3>1
    <3> QED BY <1>4, <2>3, <3>1, <3>2
  <2> QED BY <1>1, <1>2, <2>4, PiecesDiffer DEF Legible, Begins
<1>6. CASE m \notin TwoLines
  <2>1. x \o << >> = x
    BY <1>4
  <2>2. F = x \o z
    BY <1>2, <1>3, <1>6, <2>1, Zenon DEF AC!Frame, Kind, Gap, Data, AC!LineEnd
  <2>3. /\ F \in Seq(Piece) /\ Len(F) = 6
        /\ F[1] = Kind /\ F[2] = Gap /\ F[3] = Data /\ F[4] = m /\ F[5] = Gap /\ F[6] = Gap
    <3>1. /\ F \in Seq(Piece) /\ Len(F) = Len(x) + Len(z)
          /\ \A i \in 1..Len(x) : F[i] = x[i]
          /\ \A i \in 1..Len(z) : F[Len(x) + i] = z[i]
      <4>1. x \in Seq(Piece) /\ z \in Seq(Piece)
        BY <1>4
      <4> QED BY <2>2, <4>1
    <3>2. F[4 + 1] = z[1] /\ F[4 + 2] = z[2]
      BY <1>4, <3>1
    <3> QED BY <1>4, <3>1, <3>2
  <2> QED BY <1>1, <1>2, <2>3, PiecesDiffer DEF Legible, Begins
<1> QED BY <1>5, <1>6

\* The first line of an event that starts with "data: " goes on with a message.
LEMMA ShownIsMessage ==
  ASSUME NEW s, Legible(s), NEW i \in 1..(Len(s) + 1), NEW m \in Nat, m < Len(s), i <= m + 1
  PROVE  AC!Shown(SubSeq(s, i, m)) \subseteq Viewer
<1> PICK event : event = SubSeq(s, i, m)
  OBVIOUS
<1>1. /\ s \in Seq(Piece) /\ Len(s) \in Nat /\ event \in Seq(Piece) /\ Len(event) = m - i + 1
      /\ \A n \in 1..Len(event) : event[n] = s[n + i - 1]
  BY DEF Legible
<1> SUFFICES ASSUME NEW l \in AC!Lines(event), Len(l) > 1, l[1] = Data
             PROVE  l[2] \in Viewer
  BY Zenon DEF AC!Shown, Data
<1>2. PICK k \in 1..(Len(event) + 1) : l = SubSeq(event, k, Len(event))
  <2>1. PICK starts : starts = {1} \cup {n + 1 : n \in {x \in DOMAIN event : event[x] = AC!LineEnd}}
    OBVIOUS
  <2>2. PICK k \in starts : l = SubSeq(event, k, Len(event))
    BY <2>1 DEF AC!Lines
  <2>3. starts \subseteq 1..(Len(event) + 1)
    BY <1>1, <2>1
  <2> QED BY <2>2, <2>3
<1>3. /\ Len(l) = Len(event) - k + 1
      /\ \A n \in 1..Len(l) : l[n] = event[n + k - 1]
  BY <1>1, <1>2
<1>4. 1 \in 1..Len(l) /\ 2 \in 1..Len(l) /\ k \in 1..Len(event) /\ k + 1 \in 1..Len(event)
  BY <1>1, <1>2, <1>3
<1>5. l[1] = event[k] /\ l[2] = event[k + 1]
  BY <1>3, <1>4
<1>6. l[1] = s[k + i - 1] /\ l[2] = s[(k + i - 1) + 1] /\ k + i - 1 \in 1..Len(s)
  BY <1>1, <1>4, <1>5
<1> QED BY <1>6 DEF Legible

LEMMA LastOfSome ==
  ASSUME NEW n \in Nat, NEW S \in SUBSET (0..n), S # {}
  PROVE  AC!Max(S) \in S /\ \A y \in S : y <= AC!Max(S)
<1>0. \A x, y \in 0..n : /\ n - x \in 0..n /\ n - (n - x) = x
                         /\ y <= n - x => x <= n - y
  OBVIOUS
<1>1. PICK R : R = {n - x : x \in S}
  OBVIOUS
<1>2. PICK r \in R : \A y \in R : r <= y
  <2>1. R # {}
    BY <1>1
  <2>2. \A x \in S : n - x \in Nat
    BY <1>0
  <2>3. R \in SUBSET Nat
    BY <1>1, <2>2
  <2> QED BY <2>1, <2>3, Least
<1>3. PICK x \in S : r = n - x
  BY <1>1
<1>4. ASSUME NEW y \in S PROVE y <= x
  <2>1. n - y \in R /\ x \in 0..n /\ y \in 0..n
    BY <1>1
  <2>2. n - x <= n - y
    BY <1>2, <1>3, <2>1
  <2> HIDE <1>0
  <2> QED BY <2>1, <2>2
<1>5. \E m \in S : \A y \in S : m >= y
  <2>1. \A y \in S : x >= y
    BY <1>4
  <2> QED BY <2>1
<1>6. AC!Max(S) \in S /\ \A y \in S : AC!Max(S) >= y
  BY <1>5 DEF AC!Max
<1> QED BY <1>6

LEMMA FirstOfSome ==
  ASSUME NEW S \in SUBSET Nat, S # {}
  PROVE  AC!Min(S) \in S
BY Least DEF AC!Min

\* What a page makes of what it reads: messages to show, and a rest to go on with.
LEMMA ReadIsLegible ==
  ASSUME PagesTyped, NEW v \in Viewer, AC!Read(v)
  PROVE  /\ \E rest : Legible(rest) /\ buffer' = [buffer EXCEPT ![v] = rest]
         /\ \E shown \in SUBSET Viewer : known' = [known EXCEPT ![v] = @ \cup shown]
<1>1. PICK text : text = buffer[v] \o written[v]
  OBVIOUS
<1>2. PICK ends : ends = {i \in 1..(Len(text) - 1) : AC!SplitsAt(text, i)}
  OBVIOUS
<1>3. PICK starts : starts = {1} \cup {i + 2 : i \in ends}
  OBVIOUS
<1>4. /\ buffer' = [buffer EXCEPT ![v] = SubSeq(text, AC!Max(starts), Len(text))]
      /\ known' = [known EXCEPT ![v] = @ \cup
           UNION {AC!Shown(SubSeq(text, i, AC!Min({e \in ends : e >= i}) - 1)) :
                    i \in starts \ {AC!Max(starts)}}]
  BY <1>1, <1>2, <1>3 DEF AC!Read
<1>5. Legible(text)
  BY <1>1, JoinedIsLegible DEF PagesTyped
<1>6. text \in Seq(Piece) /\ Len(text) \in Nat
  BY <1>5 DEF Legible
<1>7. \A e \in ends : /\ e \in Nat /\ e >= 1 /\ e + 1 <= Len(text)
                      /\ text[e] = AC!LineEnd /\ text[e + 1] = AC!LineEnd
  BY <1>2, <1>6 DEF AC!SplitsAt
<1>8. starts \subseteq 1..(Len(text) + 1) /\ starts # {}
  BY <1>3, <1>6, <1>7
<1>9. PICK max : max = AC!Max(starts)
  OBVIOUS
<1>10. max \in starts /\ \A i \in starts : i <= max
  <2>1. Len(text) + 1 \in Nat /\ starts \in SUBSET (0..(Len(text) + 1))
    BY <1>6, <1>8
  <2> QED BY <1>8, <1>9, <2>1, LastOfSome
<1>11. Legible(SubSeq(text, max, Len(text)))
  BY <1>5, <1>8, <1>10, RestIsLegible
<1>12. ASSUME NEW i \in starts \ {max}
       PROVE  AC!Shown(SubSeq(text, i, AC!Min({e \in ends : e >= i}) - 1)) \subseteq Viewer
  <2>1. PICK later : later = {e \in ends : e >= i}
    OBVIOUS
  <2>2. PICK last \in ends : max = last + 2
    <3>1. max \in Nat /\ i \in Nat /\ i >= 1 /\ i <= max /\ i # max
      BY <1>8, <1>10, <1>12
    <3>2. max # 1
      BY <3>1
    <3> QED BY <1>3, <1>10, <3>2
  <2>3. i \in Nat /\ i >= 1 /\ i <= max /\ i # max /\ last \in Nat
    BY <1>7, <1>8, <1>10, <2>2
  <2>4. last >= i
    <3> SUFFICES ASSUME last = i - 1 PROVE FALSE
      BY <2>2, <2>3
    <3>1. i # 1
      BY <1>7, <2>3
    <3>2. PICK e \in ends : i = e + 2
      BY <1>3, <1>12, <3>1
    <3>3. last = e + 1 /\ e \in Nat
      BY <1>7, <2>3, <3>2
    <3>4. e \in 1..(Len(text) - 2)
      BY <1>6, <1>7, <2>2, <3>3
    <3>5. text[e] = AC!LineEnd /\ text[e + 1] = AC!LineEnd /\ text[(e + 1) + 1] = AC!LineEnd
      BY <1>7, <2>2, <3>2, <3>3
    <3>6. (e + 1) + 1 = e + 2
      BY <3>3
    <3> QED BY <1>5, <3>4, <3>5, <3>6 DEF Legible
  <2>5. AC!Min(later) \in later
    <3>1. later \in SUBSET Nat /\ later # {}
      BY <1>7, <2>1, <2>2, <2>4
    <3> QED BY <3>1, FirstOfSome
  <2>6. PICK m : m = AC!Min(later) - 1
    OBVIOUS
  <2>7. AC!Min(later) \in Nat /\ AC!Min(later) >= i /\ AC!Min(later) + 1 <= Len(text)
    BY <1>7, <2>1, <2>5
  <2>8. m \in Nat /\ m < Len(text) /\ i <= m + 1 /\ i \in 1..(Len(text) + 1)
    BY <1>6, <1>8, <2>3, <2>6, <2>7
  <2>9. AC!Shown(SubSeq(text, i, m)) \subseteq Viewer
    BY <1>5, <2>8, ShownIsMessage
  <2> QED BY <2>1, <2>6, <2>9
<1>13. UNION {AC!Shown(SubSeq(text, i, AC!Min({e \in ends : e >= i}) - 1)) :
                i \in starts \ {max}} \subseteq Viewer
  BY <1>12
<1> QED BY <1>4, <1>9, <1>11, <1>13

LEMMA PagesStart == AC!Init => PagesTyped
<1> SUFFICES ASSUME AC!Init PROVE PagesTyped
  OBVIOUS
<1>1. broker = "new" /\ history \in Seq(Viewer)
  BY DEF AC!Init
<1>2. request \in [Viewer -> Asked] /\ known \in [Viewer -> SUBSET Viewer]
  BY DEF AC!Init, Asked
<1>3. /\ DOMAIN buffer = Viewer /\ \A v \in Viewer : buffer[v] = << >>
      /\ DOMAIN written = Viewer /\ \A v \in Viewer : written[v] = << >>
      /\ buffer = [v \in Viewer |-> buffer[v]] /\ written = [v \in Viewer |-> written[v]]
  BY DEF AC!Init
<1> QED BY <1>1, <1>2, <1>3, NothingIsLegible DEF PagesTyped

\* What touches neither the streams nor what the pages show.
LEMMA PagesAside ==
  ASSUME PagesTyped, UNCHANGED <<written, buffer>>,
         broker' \in {"new", "connecting", "started"}, request' \in [Viewer -> Asked],
         history' \in Seq(Viewer), known' \in [Viewer -> SUBSET Viewer]
  PROVE  PagesTyped'
BY DEF PagesTyped

LEMMA PagesStep ==
  ASSUME MessagesApart, ChannelTyped, PagesTyped, [AC!Next]_(AC!vars)
  PROVE  PagesTyped'
<1>0. /\ broker \in {"new", "connecting", "started"} /\ request \in [Viewer -> Asked]
      /\ history \in Seq(Viewer) /\ known \in [Viewer -> SUBSET Viewer]
  BY DEF PagesTyped
<1>1. CASE UNCHANGED AC!vars
  BY <1>0, <1>1, PagesAside DEF AC!vars
<1>2. ASSUME NEW v \in Viewer,
             \/ AC!StartToPublish(v) \/ AC!StartToSubscribe(v) \/ AC!Connected(v)
             \/ AC!ConnectFails(v) \/ AC!Send(v) \/ AC!EnsureConversation(v)
             \/ AC!AppendMessage(v) \/ AC!Publish(v) \/ AC!Subscribe(v) \/ AC!Close(v)
             \/ AC!CloseEarly(v)
      PROVE  PagesTyped'
  <2> USE DEF AC!wires, AC!page, AC!store
  <2>1. /\ UNCHANGED <<written, buffer, known>>
        /\ history' = history \/ history' = Append(history, v)
    BY <1>2 DEF AC!StartToPublish, AC!StartToSubscribe, AC!Connected, AC!ConnectFails, AC!Send,
       AC!EnsureConversation, AC!AppendMessage, AC!Publish, AC!Subscribe, AC!Close, AC!CloseEarly
  <2>2. broker' \in {"new", "connecting", "started"}
    BY <1>0, <1>2 DEF AC!StartToPublish, AC!StartToSubscribe, AC!Connected, AC!ConnectFails, AC!Send,
       AC!EnsureConversation, AC!AppendMessage, AC!Publish, AC!Subscribe, AC!Close, AC!CloseEarly,
       AC!Starting
  <2>3. request' = request \/ \E stage \in Asked : request' = [request EXCEPT ![v] = stage]
    BY <1>2 DEF AC!StartToPublish, AC!StartToSubscribe, AC!Connected, AC!ConnectFails, AC!Send,
       AC!EnsureConversation, AC!AppendMessage, AC!Publish, AC!Subscribe, AC!Close, AC!CloseEarly,
       AC!Starting, AC!Ask, Asked
  <2>4. request' \in [Viewer -> Asked]
    BY <1>0, <2>3
  <2>5. history' \in Seq(Viewer)
    BY <1>0, <2>1
  <2> QED BY <1>0, <2>1, <2>2, <2>4, <2>5, PagesAside
<1>3. ASSUME NEW v \in Viewer, AC!Reload(v) \/ AC!OpenPage(v)
      PROVE  PagesTyped'
  <2> USE DEF AC!wires, AC!store
  <2>1. UNCHANGED <<written, buffer, broker, history>>
    BY <1>3 DEF AC!Reload, AC!OpenPage
  <2>2. request' \in [Viewer -> Asked]
    BY <1>0, <1>3 DEF AC!Reload, AC!OpenPage, AC!Ask, Asked
  <2>3. AC!ToSet(history) \subseteq Viewer
    BY <1>0 DEF AC!ToSet
  <2>4. known' \in [Viewer -> SUBSET Viewer]
    BY <1>0, <1>3, <2>3 DEF AC!Reload, AC!OpenPage
  <2> QED BY <1>0, <2>1, <2>2, <2>4, PagesAside
<1>4. ASSUME NEW v \in Viewer, AC!Read(v)
      PROVE  PagesTyped'
  <2>1. PICK rest : Legible(rest) /\ buffer' = [buffer EXCEPT ![v] = rest]
    BY <1>4, ReadIsLegible
  <2>2. PICK shown \in SUBSET Viewer : known' = [known EXCEPT ![v] = @ \cup shown]
    BY <1>4, ReadIsLegible
  <2>3. written' = [written EXCEPT ![v] = << >>] /\ UNCHANGED <<broker, history, request>>
    BY <1>4 DEF AC!Read, AC!store
  <2>4. known' \in [Viewer -> SUBSET Viewer]
    BY <1>0, <2>2
  <2>5. /\ DOMAIN buffer' = Viewer /\ buffer'[v] = rest
        /\ \A w \in Viewer : w # v => buffer'[w] = buffer[w]
        /\ buffer' = [w \in Viewer |-> buffer'[w]]
    BY <2>1 DEF PagesTyped
  <2>6. /\ DOMAIN written' = Viewer /\ written'[v] = << >>
        /\ \A w \in Viewer : w # v => written'[w] = written[w]
        /\ written' = [w \in Viewer |-> written'[w]]
    BY <2>3 DEF PagesTyped
  <2>7. \A w \in Viewer : Legible(buffer'[w]) /\ Legible(written'[w]) /\ Begins(written'[w])
    BY <2>1, <2>5, <2>6, NothingIsLegible DEF PagesTyped
  <2> QED BY <1>0, <2>3, <2>4, <2>5, <2>6, <2>7 DEF PagesTyped
<1>5. CASE AC!Execute \/ AC!ListenFails
  <2>1. UNCHANGED <<written, buffer, known, broker, history, request>>
    BY <1>5 DEF AC!Execute, AC!ListenFails, AC!page, AC!store
  <2> QED BY <1>0, <2>1, PagesAside
<1>6. CASE AC!Notify
  <2>1. PICK m : m = Head(wire)
    OBVIOUS
  <2>2. /\ wire # << >>
        /\ written' = [v \in Viewer |-> IF v \in handlers /\ stream[v] = "open"
                                        THEN written[v] \o AC!Frame(m) ELSE written[v]]
        /\ UNCHANGED <<buffer, known, broker, history, request>>
    BY <1>6, <2>1 DEF AC!Notify, AC!page, AC!store
  <2>3. m \in Viewer
    BY <2>1, <2>2 DEF ChannelTyped
  <2>4. ASSUME NEW s, Legible(s), Begins(s)
        PROVE  Legible(s \o AC!Frame(m)) /\ Begins(s \o AC!Frame(m))
    <3>1. PICK F : F = AC!Frame(m)
      OBVIOUS
    <3>2. Legible(F) /\ Begins(F)
      BY <2>3, <3>1, FrameIsLegible
    <3>3. Legible(s \o F)
      BY <2>4, <3>2, JoinedIsLegible
    <3>4. s \in Seq(Piece) /\ F \in Seq(Piece)
      BY <2>4, <3>2 DEF Legible
    <3>5. CASE s = << >>
      <4>1. s \o F = F
        BY <3>4, <3>5
      <4> QED BY <3>1, <3>2, <3>3, <4>1
    <3>6. CASE s # << >>
      <4>1. (s \o F)[1] = s[1]
        BY <3>4, <3>6
      <4> QED BY <2>4, <3>1, <3>3, <3>6, <4>1 DEF Begins
    <3> QED BY <3>5, <3>6
  <2>5. DOMAIN written' = Viewer /\ written' = [v \in Viewer |-> written'[v]]
    BY <2>2
  <2>6. \A v \in Viewer : written'[v] = written[v] \/ written'[v] = written[v] \o AC!Frame(m)
    BY <2>2
  <2>7. \A v \in Viewer : Legible(written'[v]) /\ Begins(written'[v])
    BY <2>4, <2>6 DEF PagesTyped
  <2>8. /\ DOMAIN buffer' = Viewer /\ buffer' = [v \in Viewer |-> buffer'[v]]
        /\ \A v \in Viewer : Legible(buffer'[v])
    BY <2>2 DEF PagesTyped
  <2> QED BY <1>0, <2>2, <2>5, <2>7, <2>8 DEF PagesTyped
<1> QED BY <1>1, <1>2, <1>3, <1>4, <1>5, <1>6 DEF AC!Next

LEMMA ChannelIsTyped == ChannelInv /\ PagesTyped => AC!TypeOK
<1> SUFFICES ASSUME ChannelTyped, PagesTyped PROVE AC!TypeOK
  BY DEF ChannelInv
<1>1. AC!ToSet(history) \subseteq Viewer /\ AC!ToSet(wire) \subseteq Viewer
  BY DEF ChannelTyped, PagesTyped, AC!ToSet
<1> QED BY <1>1 DEF AC!TypeOK, ChannelTyped, PagesTyped, Asked, Streams, Statements

\* A page shows messages only, however the events of its stream are joined and
\* cut where it reads them, and the history, the queue and the handlers are
\* those of the viewers (PostgresRealtimeBroker, readAdvisorStream).
THEOREM ChannelStaysTyped == ASSUME MessagesApart PROVE AC!Spec => []AC!TypeOK
<1>1. AC!Init => ChannelInv /\ PagesTyped
  BY ChannelStart, PagesStart
<1>2. ChannelInv /\ PagesTyped /\ [AC!Next]_(AC!vars) => (ChannelInv /\ PagesTyped)'
  BY ChannelStep, PagesStep DEF ChannelInv
<1>3. ChannelInv /\ PagesTyped => AC!TypeOK
  BY ChannelIsTyped
<1> QED BY <1>1, <1>2, <1>3, PTL DEF AC!Spec

-----------------------------------------------------------------------------
(***************************************************************************)
(* Answers.                                                                *)
(*                                                                         *)
(* What is validated last is what is shown, and validating takes every     *)
(* mark away and cuts the text (Clean).  Passed says what the relevance    *)
(* gate has let through by the time the answer is validated, which is what *)
(* the citations rest on (Cited).                                          *)
(***************************************************************************)
Sentence == SUBSET Marks

\* Texts are sequences of sentences, and every intent is allowed one at least.
TextData ==
  /\ Body \in [Item -> Seq(Sentence)] /\ Draft \subseteq Seq(Sentence)
  /\ MaxSentences \in [AN!Intent -> Nat \ {0}]
  /\ Limit \in Nat

Grounded ==
  /\ intent \in AN!Intent
  /\ candidates \in Seq(Item) /\ internal \in Seq(Item)
  /\ generated \in Seq(Sentence)

\* The generator is asked about what the gate let through.
Passed == at = "validate" => AN!Personal \/ external \/ AN!TopRelates

Clean ==
  at \in {"respond", "answered"} =>
    /\ \A i \in DOMAIN answer : answer[i] \cap Marks = {}
    /\ Len(answer) <= MaxSentences[intent] + 1

Cited ==
  at \in {"respond", "answered"} /\ citations # {} =>
    AN!TopRelates \/ (external /\ ~AN!Personal)

AnswerInv == Grounded /\ Passed /\ Clean /\ Cited

LEMMA AnswerStart == AN!Init => AnswerInv
BY DEF AN!Init, AnswerInv, Grounded, Passed, Clean, Cited, AN!Intent

LEMMA RepairedIsClean ==
  ASSUME TextData, intent \in AN!Intent, NEW text \in Seq(Sentence)
  PROVE  /\ AN!LocalRepair(text) \in Seq(Sentence)
         /\ \A i \in DOMAIN AN!LocalRepair(text) : AN!LocalRepair(text)[i] \cap Marks = {}
         /\ Len(AN!LocalRepair(text)) <= MaxSentences[intent] + 1
<1>1. MaxSentences[intent] + 1 \in Nat
  BY DEF TextData
<1>2. PICK max \in Nat : max = AN!Maximum /\ max <= MaxSentences[intent] + 1
  BY DEF TextData, AN!Maximum, AN!Additional
<1> DEFINE clean == [i \in DOMAIN text |-> text[i] \ Marks]
           m == IF Len(clean) < max THEN Len(clean) ELSE max
<1>3. clean \in Seq(Sentence) /\ Len(clean) = Len(text)
  BY DEF Sentence
<1> HIDE DEF clean
<1>4. m \in 0..Len(clean) /\ m <= MaxSentences[intent] + 1
  <2>1. Len(clean) \in Nat
    BY <1>3
  <2> QED BY <1>1, <1>2, <2>1
<1>5. AN!LocalRepair(text) = SubSeq(clean, 1, m)
  BY <1>2 DEF AN!LocalRepair, clean
<1>6. \A i \in 1..m : clean[i] \cap Marks = {}
  BY <1>3, <1>4 DEF clean
<1> HIDE DEF m
<1>7. /\ SubSeq(clean, 1, m) \in Seq(Sentence) /\ Len(SubSeq(clean, 1, m)) = m
      /\ \A i \in 1..m : SubSeq(clean, 1, m)[i] = clean[i]
  BY <1>3, <1>4
<1> QED BY <1>4, <1>5, <1>6, <1>7

LEMMA ValidatedIsText ==
  ASSUME TextData, Grounded
  PROVE  AN!ToValidate \in Seq(Sentence)
<1>1. ASSUME NEW text \in Seq(Sentence) PROVE AN!Compact(text) \in Seq(Sentence)
  <2>1. UNION AN!ToSet(text) \in Sentence
    BY DEF AN!ToSet, Sentence
  <2> QED BY <2>1 DEF AN!Compact
<1>2. AN!Source \in Seq(Sentence)
  BY DEF AN!Source, Sentence
<1>3. internal # <<>> => Body[Head(internal)] \in Seq(Sentence)
  BY DEF Grounded, TextData
<1>4. <<{}>> \in Seq(Sentence)
  BY DEF Sentence
<1>5. AN!Extract \in Seq(Sentence)
  BY <1>2, <1>3, <1>4 DEF AN!Extract, AN!CanGround
<1>6. generated \in Seq(Sentence) /\ AN!Compact(generated) \in Seq(Sentence)
  BY <1>1 DEF Grounded
<1> QED BY <1>5, <1>6 DEF AN!ToValidate

LEMMA AnswerStep ==
  ASSUME TextData, AnswerInv, [AN!Next]_(AN!vars)
  PROVE  AnswerInv'
<1> USE DEF AnswerInv, AN!asked, AN!result
<1>1. CASE UNCHANGED AN!vars
  BY <1>1 DEF AN!vars, Grounded, Passed, Clean, Cited, AN!Personal, AN!TopRelates
<1>2. CASE AN!Classify
  <2>1. intent' \in AN!Intent
    BY <1>2 DEF AN!Classify, AN!HeuristicIntent, AN!Intent
  <2> QED BY <1>2, <2>1 DEF AN!Classify, Grounded, Passed, Clean, Cited
<1>3. CASE AN!Search
  <2>1. candidates' \in Seq(Item)
    BY <1>3 DEF AN!Search, TextData
  <2> QED BY <1>3, <2>1 DEF AN!Search, Grounded, Passed, Clean, Cited
<1>4. CASE AN!Rerank
  <2>1. internal' \in Seq(Item)
    <3> DEFINE n == IF Len(candidates) < 3 THEN Len(candidates) ELSE 3
               best == SubSeq(candidates, 1, n)
    <3>1. candidates \in Seq(Item) /\ n \in 0..Len(candidates)
      BY DEF Grounded
    <3>2. best \in Seq(Item)
      BY <3>1
    <3>3. ASSUME NEW p \in [1..3 -> DOMAIN candidates]
          PROVE  [i \in 1..3 |-> candidates[p[i]]] \in Seq(Item)
      BY <3>1
    <3>4. \/ internal' = best
          \/ \E p \in [1..3 -> DOMAIN candidates] : internal' = [i \in 1..3 |-> candidates[p[i]]]
      BY <1>4 DEF AN!Rerank
    <3> QED BY <3>2, <3>3, <3>4
  <2>2. candidates' = <<>> /\ at' = "web" /\ UNCHANGED <<intent, generated>>
    BY <1>4 DEF AN!Rerank
  <2> QED BY <2>1, <2>2 DEF Grounded, Passed, Clean, Cited
<1>5. CASE AN!AskWeb
  BY <1>5 DEF AN!AskWeb, Grounded, Passed, Clean, Cited
<1>6. CASE AN!Decline
  <2>1. Len(<<{}, {}>>) = 2 /\ MaxSentences[intent] \in Nat \ {0}
    BY DEF Grounded, TextData
  <2>2. Clean'
    BY <1>6, <2>1 DEF AN!Decline, Clean
  <2> QED BY <1>6, <2>2 DEF AN!Decline, Grounded, Passed, Cited
<1>7. CASE AN!Generate
  <2>1. generated' \in Seq(Sentence)
    <3>1. <<{}>> \in Seq(Sentence)
      BY DEF Sentence
    <3>2. generated' \in Draft \cup {<<{}>>}
      BY <1>7 DEF AN!Generate
    <3> QED BY <3>1, <3>2 DEF TextData
  <2>2. Passed'
    BY <1>7 DEF AN!Generate, Passed, AN!Answerable, AN!Personal, AN!TopRelates
  <2> QED BY <1>7, <2>1, <2>2 DEF AN!Generate, Grounded, Clean, Cited
<1>8. CASE AN!Validate
  <2>1. PICK text \in {AN!LocalRepair(AN!ToValidate)} \cup Draft : answer' = AN!LocalRepair(text)
    BY <1>8 DEF AN!Validate, AN!Repaired
  <2>2. text \in Seq(Sentence)
    BY <2>1, ValidatedIsText, RepairedIsClean DEF TextData, Grounded
  <2>3. Clean'
    BY <1>8, <2>1, <2>2, RepairedIsClean DEF AN!Validate, Clean, Grounded
  <2>4. citations' # {} => AN!CanGround
    BY <1>8 DEF AN!Validate
  <2>5. Cited'
    BY <1>8, <2>4 DEF AN!Validate, Cited, Passed, AN!CanGround, AN!TopRelates, AN!Personal
  <2> QED BY <1>8, <2>3, <2>5 DEF AN!Validate, Grounded, Passed
<1>9. CASE AN!Respond
  BY <1>9 DEF AN!Respond, Grounded, Passed, Clean, Cited, AN!TopRelates, AN!Personal
<1>10. CASE AN!Fails
  BY <1>10 DEF AN!Fails, Grounded, Passed, Clean, Cited
<1> QED BY <1>1, <1>2, <1>3, <1>4, <1>5, <1>6, <1>7, <1>8, <1>9, <1>10 DEF AN!Next

LEMMA AnswerHolds == AnswerInv => AN!NothingInternalShown /\ AN!CitedIsRelated
BY DEF AnswerInv, Clean, Cited, AN!NothingInternalShown, AN!CitedIsRelated

\* Whatever the models answer and whichever of them fail, for all texts, items
\* and messages: what is shown carries no internal mark and is at most one
\* sentence longer than its intent asks, and a citation is given only for a top
\* item that relates to the question, or for a web answer of the general coach
\* (validate and createDraft of AdaptiveRetrievalAnswerDraftProvider).
THEOREM AnswersAreGrounded ==
  ASSUME TextData
  PROVE  AN!Spec => [](AN!NothingInternalShown /\ AN!CitedIsRelated)
<1>1. AnswerInv /\ [AN!Next]_(AN!vars) => AnswerInv'
  BY AnswerStep
<1> QED BY AnswerStart, AnswerHolds, <1>1, PTL DEF AN!Spec

\* What the answer under way is of, besides its items (Grounded).
Replied ==
  /\ at \in {"idle", "search", "rerank", "web", "gate", "validate", "respond", "answered", "failed"}
  /\ message \in Message /\ channel \in AN!Channel /\ external \in BOOLEAN
  /\ citations \subseteq Item /\ links \subseteq Link \cup {"web", "page"}
  /\ mode \in {"none", "clarify_batch", "source_check", "handoff", "direct"}

LEMMA RepliedStart == AN!Init => Replied
BY DEF AN!Init, Replied

LEMMA RepliedStep ==
  ASSUME Grounded, Replied, [AN!Next]_(AN!vars)
  PROVE  Replied'
<1> USE DEF Replied, AN!asked, AN!result
<1>1. CASE UNCHANGED AN!vars
  BY <1>1 DEF AN!vars
<1>2. CASE AN!Classify \/ AN!Search \/ AN!Rerank \/ AN!Generate \/ AN!Fails
  BY <1>2 DEF AN!Classify, AN!Search, AN!Rerank, AN!Generate, AN!Fails
<1>3. CASE AN!AskWeb \/ AN!Decline
  BY <1>3 DEF AN!AskWeb, AN!Decline
<1>4. CASE AN!Validate
  <2>1. AN!ToSet(internal) \subseteq Item
    BY DEF Grounded, AN!ToSet
  <2>2. citations' \subseteq Item
    BY <1>4, <2>1 DEF AN!Validate
  <2>3. links' \subseteq Link \cup {"web", "page"}
    BY <1>4 DEF AN!Validate
  <2>4. at' = "respond" /\ UNCHANGED <<message, channel, external, mode>>
    BY <1>4 DEF AN!Validate
  <2> QED BY <2>2, <2>3, <2>4
<1>5. CASE AN!Respond
  BY <1>5 DEF AN!Respond
<1> QED BY <1>1, <1>2, <1>3, <1>4, <1>5 DEF AN!Next

LEMMA AnswersAreTyped == Grounded /\ Replied => AN!TypeOK
<1> SUFFICES ASSUME Grounded, Replied PROVE AN!TypeOK
  OBVIOUS
<1>1. AN!ToSet(candidates) \subseteq Item /\ AN!ToSet(internal) \subseteq Item
  BY DEF Grounded, AN!ToSet
<1> QED BY <1>1 DEF Grounded, Replied, AN!TypeOK

\* A citation is an item and a link one of the texts, whatever the models answer
\* (AdaptiveRetrievalAnswerDraftProvider).
THEOREM AnswersStayTyped == ASSUME TextData PROVE AN!Spec => []AN!TypeOK
<1>1. AN!Init => AnswerInv /\ Replied
  BY AnswerStart, RepliedStart
<1>2. AnswerInv /\ Replied /\ [AN!Next]_(AN!vars) => (AnswerInv /\ Replied)'
  BY AnswerStep, RepliedStep DEF AnswerInv
<1>3. AnswerInv /\ Replied => AN!TypeOK
  BY AnswersAreTyped DEF AnswerInv
<1> QED BY <1>1, <1>2, <1>3, PTL DEF AN!Spec

-----------------------------------------------------------------------------
(***************************************************************************)
(* Prompts.                                                                *)
(*                                                                         *)
(* AllChosen follows an approval through the tables, committed and not,    *)
(* and the requests.  Serial says what a request has written when it comes *)
(* to its next statement as long as nothing strayed: one transaction is    *)
(* open at most, and it ends with one approved version or is rolled back.  *)
(***************************************************************************)
Version == 1..MaxVersions
Status  == {"draft", "approved", "archived"}
Tables  == UNION {[D -> Status] : D \in SUBSET Version}

OpenTx   == [open : {TRUE}, ok : BOOLEAN, active : 0..MaxVersions, status : Tables]
Waiting  == [at : {"begin"}, op : {"create", "activate"}, version : Version]
Changing == [at : {"versions", "config", "commit", "rollback", "reread"},
             op : {"create", "activate"}, version : Version, began : Conn]

PromptsTyped ==
  /\ stored \in [active : 0..MaxVersions, status : Tables]
  /\ tx \in [Conn -> {PO!Closed} \cup OpenTx]
  /\ admin \in [Admin -> {PO!Idle} \cup Waiting \cup Changing]
  /\ coach \in [Coach -> [at : {"idle", "read"}, active : 0..MaxVersions,
                          served : 0..MaxVersions]]
  /\ strayed \in BOOLEAN

ApprovedIn(status, K) == \A v \in DOMAIN status : status[v] = "approved" => v \in K

\* What is approved, wherever it is written, was chosen.
AllChosen ==
  /\ ApprovedIn(stored.status, chosen)
  /\ \A c \in Conn : tx[c].open => ApprovedIn(tx[c].status, chosen)
  /\ \A a \in Admin : admin[a] # PO!Idle /\ admin[a].op = "activate" => admin[a].version \in chosen
  /\ \A k \in Coach : coach[k].served \in chosen \cup {0}

OnlyApproved(status, v) ==
  v \in DOMAIN status /\ \A w \in DOMAIN status : status[w] = "approved" <=> w = v

\* What the transaction of a has written when a comes to its next statement.
Written(a) ==
  LET own == tx[admin[a].began]
      v   == admin[a].version
  IN  /\ own.open
      /\ admin[a].at # "rollback" => own.ok
      /\ admin[a].op = "create" =>
           /\ admin[a].at = "config" => own.active = 0 /\ DOMAIN own.status = {}
           /\ admin[a].at = "versions" =>
                own.active = v /\ DOMAIN own.status = {} /\ stored.active = 0
           /\ admin[a].at = "commit" =>
                /\ own.active = v /\ stored.active = 0
                /\ DOMAIN own.status = {v} /\ own.status[v] = "approved"
      /\ admin[a].op = "activate" =>
           /\ admin[a].at = "versions" => own.active = 0 /\ DOMAIN own.status = {}
           /\ admin[a].at = "config" =>
                /\ own.active = 0 /\ OnlyApproved(own.status, v)
                /\ DOMAIN own.status = DOMAIN stored.status
           /\ admin[a].at = "commit" =>
                /\ own.active = v /\ OnlyApproved(own.status, v)
                /\ DOMAIN own.status = DOMAIN stored.status

Doing == {"versions", "config", "commit", "rollback"}
Busy  == {a \in Admin : admin[a].at \in Doing}

\* As long as nothing strayed there is one transaction at most, that of the
\* administrator who began it.
Serial ==
  ~strayed =>
    /\ \A a, b \in Busy : a = b
    /\ \A c \in Conn : tx[c].open => \E a \in Busy : admin[a].began = c
    /\ \A a \in Busy : Written(a)
    /\ \A a \in Admin : admin[a].at = "begin" \/ a \in Busy =>
         /\ admin[a].op = "create" => admin[a].version = 1
         /\ admin[a].op = "activate" => admin[a].version \in DOMAIN stored.status
    /\ stored.active = 0 => DOMAIN stored.status = {}
    /\ stored.active # 0 => OnlyApproved(stored.status, stored.active)

PromptsInv == PromptsTyped /\ AllChosen /\ Serial

SomeVersions == MaxVersions \in Nat \ {0}

LEMMA BegunIsBusy == PO!Begun = Busy
BY DEF PO!Begun, Busy, Doing

LEMMA EmptyTable == << >> \in Tables /\ DOMAIN << >> = {}
<1>1. << >> \in [{} -> Status]
  OBVIOUS
<1> QED BY <1>1 DEF Tables

LEMMA PromptsStart == SomeVersions /\ PO!Init => PromptsInv
<1> SUFFICES ASSUME SomeVersions, PO!Init PROVE PromptsInv
  OBVIOUS
<1>1. PromptsTyped
  <2>1. 0 \in 0..MaxVersions
    BY DEF SomeVersions
  <2> QED BY <2>1, EmptyTable DEF PO!Init, PromptsTyped, PO!Nothing
<1>2. AllChosen
  BY EmptyTable DEF PO!Init, AllChosen, ApprovedIn, PO!Closed, PO!Nothing
<1>3. Serial
  BY EmptyTable DEF PO!Init, Serial, Busy, Doing, PO!Closed, PO!Idle
<1> QED BY <1>1, <1>2, <1>3 DEF PromptsInv

LEMMA OpenIsTyped ==
  ASSUME PromptsTyped, NEW c \in Conn, tx[c].open
  PROVE  tx[c] \in OpenTx
BY DEF PromptsTyped, PO!Closed

LEMMA OverTables ==
  ASSUME NEW f \in Tables, NEW g \in Tables
  PROVE  /\ PO!Over(f, g) \in Tables /\ DOMAIN PO!Over(f, g) = DOMAIN f \cup DOMAIN g
         /\ \A v \in DOMAIN f : PO!Over(f, g)[v] = f[v]
         /\ \A v \in DOMAIN g \ DOMAIN f : PO!Over(f, g)[v] = g[v]
<1>1. /\ DOMAIN f \in SUBSET Version /\ \A v \in DOMAIN f : f[v] \in Status
      /\ DOMAIN g \in SUBSET Version /\ \A v \in DOMAIN g : g[v] \in Status
  BY DEF Tables
<1>2. PO!Over(f, g) \in [DOMAIN f \cup DOMAIN g -> Status]
  BY <1>1 DEF PO!Over
<1>3. DOMAIN f \cup DOMAIN g \in SUBSET Version
  BY <1>1
<1> QED BY <1>2, <1>3 DEF PO!Over, Tables

LEMMA SingleTable ==
  ASSUME NEW v \in Version, NEW s \in Status
  PROVE  [w \in {v} |-> s] \in Tables
<1>1. [w \in {v} |-> s] \in [{v} -> Status] /\ {v} \in SUBSET Version
  OBVIOUS
<1> QED BY <1>1 DEF Tables

LEMMA ApproveTable ==
  ASSUME NEW f \in Tables, NEW v
  PROVE  /\ PO!Approve(f, v) \in Tables /\ DOMAIN PO!Approve(f, v) = DOMAIN f
         /\ \A w \in DOMAIN f : PO!Approve(f, v)[w] = "approved" <=> w = v
<1>1. DOMAIN f \in SUBSET Version /\ \A w \in DOMAIN f : f[w] \in Status
  BY DEF Tables
<1>2. PO!Approve(f, v) \in [DOMAIN f -> Status]
  BY <1>1 DEF PO!Approve, Status
<1> QED BY <1>1, <1>2 DEF PO!Approve, Tables, Status

LEMMA SeenTable ==
  ASSUME PromptsTyped, NEW c \in Conn
  PROVE  /\ PO!Seen(c) \in [active : 0..MaxVersions, status : Tables]
         /\ ~tx[c].open => PO!Seen(c) = stored
         /\ tx[c].open => PO!Seen(c).status = PO!Over(tx[c].status, stored.status)
<1>1. CASE tx[c].open
  <2>1. tx[c] \in OpenTx
    BY <1>1, OpenIsTyped
  <2>2. PO!Over(tx[c].status, stored.status) \in Tables
    BY <2>1, OverTables DEF PromptsTyped, OpenTx
  <2> QED BY <1>1, <2>1, <2>2 DEF PO!Seen, PromptsTyped, OpenTx
<1>2. CASE ~tx[c].open
  BY <1>2 DEF PO!Seen, PromptsTyped
<1> QED BY <1>1, <1>2

LEMMA SeenChosen ==
  ASSUME PromptsTyped, AllChosen, NEW c \in Conn
  PROVE  ApprovedIn(PO!Seen(c).status, chosen)
<1>1. CASE tx[c].open
  <2>1. tx[c].status \in Tables /\ stored.status \in Tables
    BY <1>1, OpenIsTyped DEF PromptsTyped, OpenTx
  <2>2. \A v \in DOMAIN PO!Over(tx[c].status, stored.status) :
           \/ v \in DOMAIN tx[c].status /\
                PO!Over(tx[c].status, stored.status)[v] = tx[c].status[v]
           \/ v \in DOMAIN stored.status /\
                PO!Over(tx[c].status, stored.status)[v] = stored.status[v]
    <3> TAKE v \in DOMAIN PO!Over(tx[c].status, stored.status)
    <3>1. v \in DOMAIN tx[c].status \cup DOMAIN stored.status
      BY <2>1, OverTables
    <3>2. CASE v \in DOMAIN tx[c].status
      BY <2>1, <3>2, OverTables
    <3>3. CASE v \in DOMAIN stored.status \ DOMAIN tx[c].status
      BY <2>1, <3>3, OverTables
    <3> QED BY <3>1, <3>2, <3>3
  <2>3. PO!Seen(c).status = PO!Over(tx[c].status, stored.status)
    BY <1>1, SeenTable
  <2> QED BY <1>1, <2>2, <2>3 DEF AllChosen, ApprovedIn
<1>2. CASE ~tx[c].open
  BY <1>2, SeenTable DEF AllChosen
<1> QED BY <1>1, <1>2

LEMMA WriteStatusTyped ==
  ASSUME PromptsTyped, NEW c \in Conn, NEW f \in Tables, PO!WriteStatus(c, f)
  PROVE  /\ stored' \in [active : 0..MaxVersions, status : Tables]
         /\ tx' \in [Conn -> {PO!Closed} \cup OpenTx]
<1>1. CASE tx[c].open
  <2>1. tx[c] \in OpenTx
    BY <1>1, OpenIsTyped
  <2>2. PICK over \in Tables : over = PO!Over(f, tx[c].status)
    BY <2>1, OverTables DEF OpenTx
  <2>3. [tx[c] EXCEPT !.status = over] \in OpenTx
    BY <2>1, <2>2 DEF OpenTx
  <2>4. tx' = [tx EXCEPT ![c].status = over] /\ UNCHANGED stored
    BY <1>1, <2>2 DEF PO!WriteStatus
  <2> QED BY <2>3, <2>4 DEF PromptsTyped
<1>2. CASE ~tx[c].open
  <2>1. PICK over \in Tables : over = PO!Over(f, stored.status)
    BY OverTables DEF PromptsTyped
  <2>2. stored' = [stored EXCEPT !.status = over] /\ UNCHANGED tx
    BY <1>2, <2>1 DEF PO!WriteStatus
  <2> QED BY <2>1, <2>2 DEF PromptsTyped
<1> QED BY <1>1, <1>2

LEMMA WriteActiveTyped ==
  ASSUME PromptsTyped, NEW c \in Conn, NEW v \in Version, PO!WriteActive(c, v)
  PROVE  /\ stored' \in [active : 0..MaxVersions, status : Tables]
         /\ tx' \in [Conn -> {PO!Closed} \cup OpenTx]
<1>0. v \in 0..MaxVersions
  BY DEF Version
<1>1. CASE tx[c].open
  <2>1. tx[c] \in OpenTx
    BY <1>1, OpenIsTyped
  <2>2. [tx[c] EXCEPT !.active = v] \in OpenTx
    BY <1>0, <2>1 DEF OpenTx
  <2>3. tx' = [tx EXCEPT ![c].active = v] /\ UNCHANGED stored
    BY <1>1 DEF PO!WriteActive
  <2> QED BY <2>2, <2>3 DEF PromptsTyped
<1>2. CASE ~tx[c].open
  BY <1>0, <1>2 DEF PO!WriteActive, PromptsTyped
<1> QED BY <1>1, <1>2

LEMMA NextVersion ==
  ASSUME SomeVersions, NEW f \in Tables
  PROVE  /\ PO!Max({0} \cup DOMAIN f) \in Nat
         /\ PO!Max({0} \cup DOMAIN f) + 1 \notin DOMAIN f
<1> PICK S : S = {0} \cup DOMAIN f
  OBVIOUS
<1>0. DOMAIN f \subseteq 1..MaxVersions
  BY DEF Tables, Version
<1>1. \A x \in S : x \in Nat /\ MaxVersions - x \in Nat
  BY <1>0 DEF SomeVersions
<1>2. PICK B : B = {MaxVersions - x : x \in S}
  OBVIOUS
<1>3. B \in SUBSET Nat /\ MaxVersions - 0 \in B
  BY <1>1, <1>2
<1>4. PICK b \in B : \A y \in B : b <= y
  BY <1>3, Least
<1>5. PICK m \in S : b = MaxVersions - m
  BY <1>2
<1>6. \A y \in S : MaxVersions - m <= MaxVersions - y
  BY <1>2, <1>4, <1>5
<1>7. \A y \in S : m >= y
  BY <1>1, <1>6 DEF SomeVersions
<1>8. PO!Max(S) \in S /\ \A y \in S : PO!Max(S) >= y
  BY <1>5, <1>7 DEF PO!Max
<1>9. PICK max \in Nat : max = PO!Max(S) /\ \A y \in S : max >= y
  BY <1>1, <1>8
<1>10. max + 1 \notin S
  BY <1>9
<1> QED BY <1>9, <1>10

LEMMA TypedAdmin ==
  ASSUME PromptsTyped, NEW a \in Admin, NEW next \in {PO!Idle} \cup Waiting \cup Changing,
         PO!Become(a, next)
  PROVE  /\ admin' \in [Admin -> {PO!Idle} \cup Waiting \cup Changing]
         /\ admin'[a] = next /\ \A b \in Admin \ {a} : admin'[b] = admin[b]
BY DEF PO!Become, PromptsTyped

LEMMA OverChosen ==
  ASSUME NEW f \in Tables, NEW g \in Tables, NEW K, ApprovedIn(f, K), ApprovedIn(g, K)
  PROVE  ApprovedIn(PO!Over(f, g), K)
<1> SUFFICES ASSUME NEW v \in DOMAIN PO!Over(f, g), PO!Over(f, g)[v] = "approved"
             PROVE  v \in K
  BY DEF ApprovedIn
<1>1. v \in DOMAIN f \cup DOMAIN g
  BY OverTables
<1>2. CASE v \in DOMAIN f
  BY <1>2, OverTables DEF ApprovedIn
<1>3. CASE v \in DOMAIN g \ DOMAIN f
  <2>1. PO!Over(f, g)[v] = g[v]
    BY <1>3, OverTables
  <2> QED BY <1>3, <2>1 DEF ApprovedIn
<1> QED BY <1>1, <1>2, <1>3

LEMMA WriteStatusChosen ==
  ASSUME PromptsTyped, AllChosen, NEW c \in Conn, NEW f \in Tables, PO!WriteStatus(c, f),
         NEW K, chosen \subseteq K, ApprovedIn(f, K)
  PROVE  /\ ApprovedIn(stored'.status, K)
         /\ \A d \in Conn : tx'[d].open => ApprovedIn(tx'[d].status, K)
<1>0. /\ ApprovedIn(stored.status, K) /\ stored.status \in Tables
      /\ \A d \in Conn : tx[d].open => ApprovedIn(tx[d].status, K) /\ tx[d].status \in Tables
  BY OpenIsTyped DEF AllChosen, ApprovedIn, PromptsTyped, OpenTx
<1>1. CASE tx[c].open
  <2>1. PICK over : over = PO!Over(f, tx[c].status) /\ ApprovedIn(over, K)
    BY <1>0, <1>1, OverChosen
  <2>2. tx' = [tx EXCEPT ![c].status = over] /\ UNCHANGED stored /\ tx[c] \in OpenTx
    BY <1>1, <2>1, OpenIsTyped DEF PO!WriteStatus
  <2>3. tx'[c].status = over /\ \A d \in Conn \ {c} : tx'[d] = tx[d]
    BY <2>2 DEF PromptsTyped, OpenTx
  <2> QED BY <1>0, <2>1, <2>2, <2>3
<1>2. CASE ~tx[c].open
  <2>1. PICK over : over = PO!Over(f, stored.status) /\ ApprovedIn(over, K)
    BY <1>0, OverChosen
  <2>2. stored' = [stored EXCEPT !.status = over] /\ UNCHANGED tx
    BY <1>2, <2>1 DEF PO!WriteStatus
  <2>3. stored'.status = over
    BY <2>2 DEF PromptsTyped
  <2> QED BY <1>0, <2>1, <2>2, <2>3
<1> QED BY <1>1, <1>2

\* What writes no table keeps what was chosen.
LEMMA ChosenAside ==
  ASSUME PromptsTyped, AllChosen, UNCHANGED stored, chosen \subseteq chosen',
         \A c \in Conn : tx'[c].open =>
           DOMAIN tx'[c].status = {} \/ (tx[c].open /\ tx'[c].status = tx[c].status),
         \A a \in Admin :
           \/ admin'[a] = PO!Idle
           \/ admin'[a].op = "activate" => admin'[a].version \in chosen',
         \A k \in Coach : coach'[k].served \in chosen \cup {0}
  PROVE  AllChosen'
<1>1. ApprovedIn(stored.status, chosen')
  BY DEF AllChosen, ApprovedIn
<1>2. \A c \in Conn : tx'[c].open => ApprovedIn(tx'[c].status, chosen')
  BY DEF AllChosen, ApprovedIn
<1> QED BY <1>1, <1>2 DEF AllChosen

\* What touches neither a table nor a transaction keeps the rest serial.
LEMMA SerialAside ==
  ASSUME Serial, UNCHANGED <<stored, tx>>, strayed => strayed',
         \A b \in Admin :
           \/ admin'[b] = admin[b]
           \/ /\ admin[b].at \notin Doing /\ admin'[b].at \notin Doing
              /\ admin'[b].at = "begin" =>
                   /\ admin'[b].op = "create" => admin'[b].version = 1
                   /\ ~strayed' /\ admin'[b].op = "activate" =>
                        admin'[b].version \in DOMAIN stored.status
  PROVE  Serial'
<1> SUFFICES ASSUME ~strayed' PROVE Serial'
  BY DEF Serial
<1>1. \A b \in Admin : admin'[b].at \in Doing => admin'[b] = admin[b]
  OBVIOUS
<1>2. Busy' = Busy
  BY <1>1 DEF Busy
<1>3. \A b \in Busy : admin'[b] = admin[b]
  BY <1>1, <1>2 DEF Busy
<1>4. \A b \in Busy : Written(b)'
  BY <1>3 DEF Serial, Written
<1> QED BY <1>1, <1>2, <1>3, <1>4 DEF Serial

Requests == {PO!Idle} \cup Waiting \cup Changing

LEMMA RequestIs ==
  ASSUME PromptsTyped, NEW a \in Admin
  PROVE  /\ admin[a] \in Requests
         /\ admin[a].at = "begin" => admin[a] \in Waiting
         /\ admin[a].at \in Doing \cup {"reread"} => admin[a] \in Changing
         /\ admin[a] # PO!Idle => admin[a] \in Waiting \cup Changing
BY DEF PromptsTyped, Requests, PO!Idle, Waiting, Changing, Doing

\* A request that takes its next step, or ends.
LEMMA NextRequest ==
  ASSUME PromptsTyped, NEW a \in Admin, NEW stage \in Doing \cup {"reread"},
         admin[a].at \in Doing \cup {"reread"}
  PROVE  /\ [admin[a] EXCEPT !.at = stage] \in Changing
         /\ [admin[a] EXCEPT !.at = stage].at = stage
         /\ [admin[a] EXCEPT !.at = stage].op = admin[a].op
         /\ [admin[a] EXCEPT !.at = stage].version = admin[a].version
         /\ [admin[a] EXCEPT !.at = stage].began = admin[a].began
<1>1. admin[a] \in Changing
  BY RequestIs
<1> QED BY <1>1 DEF Changing, Doing

LEMMA CreateKeeps ==
  ASSUME SomeVersions, PromptsInv, NEW a \in Admin, PO!Create(a)
  PROVE  PromptsInv'
<1> PICK next : next = [at |-> "begin", op |-> "create", version |-> 1]
  OBVIOUS
<1>0. /\ next \in Waiting /\ next.at = "begin" /\ next.op = "create" /\ next.version = 1
      /\ PO!Become(a, next) /\ UNCHANGED <<stored, tx, coach, chosen, strayed>>
      /\ admin[a] = PO!Idle
  BY DEF PO!Create, SomeVersions, Waiting, Version
<1>1. /\ admin' \in [Admin -> {PO!Idle} \cup Waiting \cup Changing]
      /\ admin'[a] = next /\ \A b \in Admin \ {a} : admin'[b] = admin[b]
  BY <1>0, TypedAdmin DEF PromptsInv
<1>2. PromptsTyped'
  BY <1>0, <1>1 DEF PromptsInv, PromptsTyped
<1>3. AllChosen'
  BY <1>0, <1>1 DEF PromptsInv, AllChosen
<1>4. admin[a].at \notin Doing /\ admin'[a].at \notin Doing
  BY <1>0, <1>1 DEF PO!Idle, Doing
<1>5. Serial'
  BY <1>0, <1>1, <1>4, SerialAside DEF PromptsInv
<1> QED BY <1>2, <1>3, <1>5 DEF PromptsInv

LEMMA ActivateKeeps ==
  ASSUME SomeVersions, PromptsInv, NEW a \in Admin, NEW c \in Conn, NEW v \in Version,
         PO!Activate(a, c, v)
  PROVE  PromptsInv'
<1> PICK next : next = [at |-> "begin", op |-> "activate", version |-> v]
  OBVIOUS
<1>0. /\ next \in Waiting /\ next.at = "begin" /\ next.op = "activate" /\ next.version = v
      /\ PO!Become(a, next) /\ UNCHANGED <<stored, tx, coach>>
      /\ admin[a] = PO!Idle /\ chosen' = chosen \cup {v} /\ strayed' = (strayed \/ tx[c].open)
      /\ v \in DOMAIN PO!Seen(c).status
  BY DEF PO!Activate, Waiting
<1>1. /\ admin' \in [Admin -> {PO!Idle} \cup Waiting \cup Changing]
      /\ admin'[a] = next /\ \A b \in Admin \ {a} : admin'[b] = admin[b]
  BY <1>0, TypedAdmin DEF PromptsInv
<1>2. PromptsTyped'
  <2>1. strayed' \in BOOLEAN
    BY <1>0
  <2> QED BY <1>0, <1>1, <2>1 DEF PromptsInv, PromptsTyped
<1>3. AllChosen'
  BY <1>0, <1>1 DEF PromptsInv, AllChosen, ApprovedIn
<1>4. admin[a].at \notin Doing /\ admin'[a].at \notin Doing
  BY <1>0, <1>1 DEF PO!Idle, Doing
<1>5. ~strayed' => v \in DOMAIN stored.status
  BY <1>0, SeenTable DEF PromptsInv
<1>6. Serial'
  BY <1>0, <1>1, <1>4, <1>5, SerialAside DEF PromptsInv
<1> QED BY <1>2, <1>3, <1>6 DEF PromptsInv

LEMMA EndKeeps ==
  ASSUME SomeVersions, PromptsInv, NEW a \in Admin, admin[a].at \in {"begin", "reread"},
         PO!Become(a, PO!Idle), strayed => strayed', strayed' \in BOOLEAN,
         \/ UNCHANGED tx
         \/ strayed' /\ \E c \in Conn : tx[c].open /\ tx' = [tx EXCEPT ![c].ok = FALSE],
         UNCHANGED <<stored, coach, chosen>>
  PROVE  PromptsInv'
<1>1. /\ admin' \in [Admin -> {PO!Idle} \cup Waiting \cup Changing]
      /\ admin'[a] = PO!Idle /\ \A b \in Admin \ {a} : admin'[b] = admin[b]
  BY TypedAdmin DEF PromptsInv
<1>2. /\ tx' \in [Conn -> {PO!Closed} \cup OpenTx]
      /\ \A d \in Conn : tx'[d].open => tx[d].open /\ tx'[d].status = tx[d].status
  <2>1. CASE UNCHANGED tx
    BY <2>1 DEF PromptsInv, PromptsTyped
  <2>2. ASSUME NEW c \in Conn, tx[c].open, tx' = [tx EXCEPT ![c].ok = FALSE]
        PROVE  /\ tx' \in [Conn -> {PO!Closed} \cup OpenTx]
               /\ \A d \in Conn : tx'[d].open => tx[d].open /\ tx'[d].status = tx[d].status
    <3>1. tx[c] \in OpenTx
      BY <2>2, OpenIsTyped DEF PromptsInv
    <3>2. [tx[c] EXCEPT !.ok = FALSE] \in OpenTx
          /\ [tx[c] EXCEPT !.ok = FALSE].status = tx[c].status
      BY <3>1 DEF OpenTx
    <3> QED BY <2>2, <3>2 DEF PromptsInv, PromptsTyped
  <2> QED BY <2>1, <2>2
<1>3. PromptsTyped'
  BY <1>1, <1>2 DEF PromptsInv, PromptsTyped
<1>4. AllChosen'
  BY <1>1, <1>2 DEF PromptsInv, AllChosen
<1>5. admin[a].at \notin Doing /\ admin'[a].at \notin Doing /\ admin'[a].at # "begin"
  BY <1>1 DEF PO!Idle, Doing
<1>6. Serial'
  <2>1. CASE UNCHANGED tx
    BY <1>1, <1>5, <2>1, SerialAside DEF PromptsInv
  <2>2. CASE strayed'
    BY <2>2 DEF Serial
  <2> QED BY <2>1, <2>2
<1> QED BY <1>3, <1>4, <1>6 DEF PromptsInv

LEMMA CoachReads ==
  ASSUME SomeVersions, PromptsInv, NEW k \in Coach, NEW c \in Conn,
         PO!ReadConfig(k, c) \/ PO!ReadVersions(k, c)
  PROVE  PromptsInv'
<1>0. UNCHANGED <<stored, tx, admin, chosen, strayed>>
  BY DEF PO!ReadConfig, PO!ReadVersions
<1>1. /\ coach' \in [Coach -> [at : {"idle", "read"}, active : 0..MaxVersions,
                                served : 0..MaxVersions]]
      /\ \A j \in Coach : coach'[j].served \in chosen \cup {0}
  <2>0. /\ coach \in [Coach -> [at : {"idle", "read"}, active : 0..MaxVersions,
                                served : 0..MaxVersions]]
        /\ 0 \in 0..MaxVersions
        /\ \A j \in Coach : coach[j].served \in chosen \cup {0}
    BY DEF PromptsInv, PromptsTyped, AllChosen, SomeVersions
  <2>1. CASE PO!ReadConfig(k, c)
    <3>1. PO!Seen(c).active \in 0..MaxVersions
      BY SeenTable DEF PromptsInv
    <3>2. coach' = [coach EXCEPT ![k] = [at |-> "read", active |-> PO!Seen(c).active,
                                          served |-> 0]]
      BY <2>1 DEF PO!ReadConfig
    <3> QED BY <2>0, <3>1, <3>2
  <2>2. CASE PO!ReadVersions(k, c)
    <3> DEFINE v == coach[k].active
    <3>1. PICK served : /\ served \in {0, v}
                        /\ served = v => v = 0 \/
                             (v \in DOMAIN PO!Seen(c).status /\ PO!Seen(c).status[v] = "approved")
                        /\ coach' = [coach EXCEPT ![k] = [at |-> "idle", active |-> 0,
                                                           served |-> served]]
      BY <2>2 DEF PO!ReadVersions
    <3>2. served \in chosen \cup {0} /\ served \in 0..MaxVersions
      BY <2>0, <3>1, SeenChosen DEF PromptsInv, ApprovedIn
    <3> QED BY <2>0, <3>1, <3>2
  <2> QED BY <2>1, <2>2
<1>2. PromptsTyped' /\ AllChosen'
  BY <1>0, <1>1 DEF PromptsInv, PromptsTyped, AllChosen
<1>3. Serial'
  BY <1>0, SerialAside DEF PromptsInv
<1> QED BY <1>2, <1>3 DEF PromptsInv

LEMMA BeginKeeps ==
  ASSUME SomeVersions, PromptsInv, NEW a \in Admin, NEW c \in Conn, PO!Begin(a, c)
  PROVE  PromptsInv'
<1> PICK stage : stage = IF admin[a].op = "create" THEN "config" ELSE "versions"
  OBVIOUS
<1> PICK next : next = [at |-> stage, op |-> admin[a].op, version |-> admin[a].version, began |-> c]
  OBVIOUS
<1> PICK new : new = PO!Opened
  OBVIOUS
<1>0. /\ admin[a].at = "begin" /\ PO!Become(a, next) /\ UNCHANGED <<stored, coach, chosen>>
      /\ tx' = [tx EXCEPT ![c] = IF tx[c].open THEN tx[c] ELSE new]
      /\ strayed' = (strayed \/ tx[c].open \/ Busy # {})
  BY BegunIsBusy DEF PO!Begin
<1>1. /\ new \in OpenTx /\ DOMAIN new.status = {} /\ new.active = 0 /\ new.open /\ new.ok
  BY EmptyTable DEF PO!Opened, OpenTx, SomeVersions
<1>2. /\ next \in Changing /\ next.at = stage /\ next.op = admin[a].op
      /\ next.version = admin[a].version /\ next.began = c
  BY <1>0, RequestIs DEF PromptsInv, Waiting, Changing
<1>3. /\ admin' \in [Admin -> {PO!Idle} \cup Waiting \cup Changing]
      /\ admin'[a] = next /\ \A b \in Admin \ {a} : admin'[b] = admin[b]
  BY <1>0, <1>2, TypedAdmin DEF PromptsInv
<1>4. /\ tx' \in [Conn -> {PO!Closed} \cup OpenTx]
      /\ tx'[c] = IF tx[c].open THEN tx[c] ELSE new
      /\ \A d \in Conn \ {c} : tx'[d] = tx[d]
  BY <1>0, <1>1 DEF PromptsInv, PromptsTyped
<1>5. PromptsTyped'
  <2>1. strayed' \in BOOLEAN
    BY <1>0
  <2> QED BY <1>0, <1>3, <1>4, <2>1 DEF PromptsInv, PromptsTyped
<1>6. AllChosen'
  <2>1. \A b \in Admin : admin'[b] = PO!Idle \/
           (admin'[b].op = "activate" => admin'[b].version \in chosen')
    <3>1. admin[a].op = "activate" => admin[a].version \in chosen
      BY <1>0 DEF PromptsInv, AllChosen, PO!Idle
    <3> QED BY <1>0, <1>2, <1>3, <3>1 DEF PromptsInv, AllChosen
  <2>2. \A d \in Conn : tx'[d].open =>
           DOMAIN tx'[d].status = {} \/ (tx[d].open /\ tx'[d].status = tx[d].status)
    BY <1>1, <1>4
  <2>3. \A k \in Coach : coach'[k].served \in chosen \cup {0}
    BY <1>0 DEF PromptsInv, AllChosen
  <2> QED BY <1>0, <2>1, <2>2, <2>3, ChosenAside DEF PromptsInv
<1>7. Serial'
  <2> SUFFICES ASSUME ~strayed' PROVE Serial'
    BY DEF Serial
  <2>1. ~strayed /\ ~tx[c].open /\ Busy = {}
    BY <1>0
  <2>2. tx'[c] = new /\ \A d \in Conn \ {c} : ~tx'[d].open
    BY <1>4, <2>1 DEF PromptsInv, Serial
  <2>3. Busy' = {a}
    BY <1>2, <1>3, <2>1 DEF Busy, Doing
  <2>4. /\ admin[a].op = "create" => admin[a].version = 1
        /\ admin[a].op = "activate" => admin[a].version \in DOMAIN stored.status
        /\ admin[a].op \in {"create", "activate"}
    BY <1>0, <2>1, RequestIs DEF PromptsInv, Serial, Waiting
  <2>5. Written(a)'
    BY <1>1, <1>2, <1>3, <2>2, <2>4 DEF Written
  <2>6. \A b \in Admin : admin'[b].at = "begin" \/ b \in Busy' =>
           /\ admin'[b].op = "create" => admin'[b].version = 1
           /\ admin'[b].op = "activate" => admin'[b].version \in DOMAIN stored'.status
    BY <1>0, <1>2, <1>3, <2>1, <2>3, <2>4 DEF PromptsInv, Serial
  <2>7. \A d \in Conn : tx'[d].open => \E b \in Busy' : admin'[b].began = d
    BY <1>2, <1>3, <2>2, <2>3
  <2> QED BY <1>0, <2>1, <2>3, <2>5, <2>6, <2>7 DEF PromptsInv, Serial
<1> QED BY <1>5, <1>6, <1>7 DEF PromptsInv

\* While nothing strayed, the one who is busy has the only open transaction.
LEMMA OwnTransaction ==
  ASSUME PromptsInv, ~strayed, NEW a \in Admin, admin[a].at \in Doing
  PROVE  /\ admin[a] \in Changing /\ tx[admin[a].began] \in OpenTx
         /\ Written(a) /\ Busy = {a}
         /\ \A d \in Conn \ {admin[a].began} : ~tx[d].open
         /\ admin[a].op = "create" => admin[a].version = 1
         /\ admin[a].op = "activate" => admin[a].version \in DOMAIN stored.status
<1>1. admin[a] \in Changing /\ a \in Busy
  BY RequestIs DEF PromptsInv, Busy
<1>2. Written(a) /\ Busy = {a}
  BY <1>1 DEF PromptsInv, Serial, Busy
<1>3. admin[a].began \in Conn
  BY <1>1 DEF Changing
<1> QED BY <1>1, <1>2, <1>3, OpenIsTyped DEF PromptsInv, Serial, Written

\* Who is alone stays so while its request goes on in its own transaction.
LEMMA SerialGoesOn ==
  ASSUME PromptsInv, ~strayed, NEW a \in Admin, admin[a].at \in Doing,
         NEW next \in Changing, next.at \in Doing, next.op = admin[a].op,
         next.version = admin[a].version, next.began = admin[a].began,
         admin' = [admin EXCEPT ![a] = next], UNCHANGED stored, ~strayed',
         \A d \in Conn \ {admin[a].began} : tx'[d] = tx[d],
         Written(a)'
  PROVE  Serial'
<1>0. /\ admin'[a] = next /\ \A b \in Admin \ {a} : admin'[b] = admin[b]
  BY DEF PromptsInv, PromptsTyped
<1>1. Busy' = {a}
  BY <1>0, OwnTransaction DEF Busy
<1>2. \A d \in Conn : tx'[d].open => \E b \in Busy' : admin'[b].began = d
  BY <1>0, <1>1, OwnTransaction
<1>3. \A b \in Admin : admin'[b].at = "begin" \/ b \in Busy' =>
         /\ admin'[b].op = "create" => admin'[b].version = 1
         /\ admin'[b].op = "activate" => admin'[b].version \in DOMAIN stored'.status
  BY <1>0, <1>1, OwnTransaction DEF PromptsInv, Serial
<1> QED BY <1>1, <1>2, <1>3 DEF PromptsInv, Serial

LEMMA ChosenRequests ==
  ASSUME PromptsInv, NEW a \in Admin, admin[a] # PO!Idle, NEW next,
         next.op = admin[a].op, next.version = admin[a].version,
         chosen \subseteq chosen', admin' = [admin EXCEPT ![a] = next]
  PROVE  \A b \in Admin : admin'[b] = PO!Idle \/
           (admin'[b].op = "activate" => admin'[b].version \in chosen')
<1>0. /\ admin'[a] = next /\ \A b \in Admin \ {a} : admin'[b] = admin[b]
  BY DEF PromptsInv, PromptsTyped
<1> QED BY <1>0 DEF PromptsInv, AllChosen

LEMMA OwnStatus ==
  ASSUME NEW f \in Tables, NEW g \in Tables, DOMAIN g = {}
  PROVE  /\ DOMAIN PO!Over(f, g) = DOMAIN f /\ \A v \in DOMAIN f : PO!Over(f, g)[v] = f[v]
         /\ DOMAIN PO!Over(g, f) = DOMAIN f /\ \A v \in DOMAIN f : PO!Over(g, f)[v] = f[v]
BY OverTables

LEMMA VersionsKeeps ==
  ASSUME SomeVersions, PromptsInv, NEW a \in Admin, NEW c \in Conn, PO!Versions(a, c)
  PROVE  PromptsInv'
<1> PICK f : f = IF admin[a].op = "create" THEN [v \in {1} |-> "approved"]
                 ELSE PO!Approve(PO!Seen(c).status, admin[a].version)
  OBVIOUS
<1> PICK stage : stage = IF admin[a].op = "create" THEN "commit" ELSE "config"
  OBVIOUS
<1> PICK next : next = [admin[a] EXCEPT !.at = stage]
  OBVIOUS
<1>0. /\ admin[a].at = "versions" /\ PO!WriteStatus(c, f) /\ UNCHANGED coach
      /\ strayed' = (strayed \/ admin[a].began # c)
      /\ chosen' = IF admin[a].op = "create" THEN chosen \cup {1} ELSE chosen
      /\ PO!Become(a, next)
  BY DEF PO!Versions, PO!Strays
<1>1. /\ next \in Changing /\ next.at = stage /\ next.op = admin[a].op
      /\ next.version = admin[a].version /\ next.began = admin[a].began
      /\ admin[a].op \in {"create", "activate"} /\ admin[a].version \in Version
      /\ admin[a] # PO!Idle
  BY <1>0, NextRequest, RequestIs DEF PromptsInv, Doing, Changing, PO!Idle
<1>2. admin' \in [Admin -> {PO!Idle} \cup Waiting \cup Changing]
  BY <1>0, <1>1, TypedAdmin DEF PromptsInv
<1>3. f \in Tables
  <2>1. CASE admin[a].op = "create"
    <3>1. 1 \in Version /\ "approved" \in Status
      BY DEF SomeVersions, Version, Status
    <3> QED BY <2>1, <3>1, SingleTable
  <2>2. CASE admin[a].op # "create"
    BY <2>2, SeenTable, ApproveTable DEF PromptsInv
  <2> QED BY <2>1, <2>2
<1>4. PromptsTyped'
  <2>1. strayed' \in BOOLEAN
    BY <1>0
  <2> QED BY <1>0, <1>2, <1>3, <2>1, WriteStatusTyped DEF PromptsInv, PromptsTyped
<1>5. AllChosen'
  <2>1. ApprovedIn(f, chosen')
    <3>1. CASE admin[a].op = "create"
      BY <1>0, <3>1 DEF ApprovedIn
    <3>2. CASE admin[a].op # "create"
      <4>1. admin[a].version \in chosen'
        BY <1>0, <1>1, <3>2 DEF PromptsInv, AllChosen
      <4>2. \A w \in DOMAIN f : f[w] = "approved" <=> w = admin[a].version
        BY <3>2, SeenTable, ApproveTable DEF PromptsInv
      <4> QED BY <4>1, <4>2 DEF ApprovedIn
    <3> QED BY <3>1, <3>2
  <2>2. chosen \subseteq chosen'
    BY <1>0
  <2>3. /\ ApprovedIn(stored'.status, chosen')
        /\ \A d \in Conn : tx'[d].open => ApprovedIn(tx'[d].status, chosen')
    BY <1>0, <1>3, <2>1, <2>2, WriteStatusChosen DEF PromptsInv
  <2>4. \A b \in Admin : admin'[b] = PO!Idle \/
           (admin'[b].op = "activate" => admin'[b].version \in chosen')
    BY <1>0, <1>1, <2>2, ChosenRequests DEF PO!Become
  <2> QED BY <1>0, <2>2, <2>3, <2>4 DEF PromptsInv, AllChosen
<1>6. Serial'
  <2> SUFFICES ASSUME ~strayed' PROVE Serial'
    BY DEF Serial
  <2>1. ~strayed /\ admin[a].began = c /\ admin[a].at \in Doing
    BY <1>0 DEF Doing
  <2>2. /\ tx[c] \in OpenTx /\ tx[c].open /\ tx[c].ok /\ DOMAIN tx[c].status = {}
        /\ admin[a].op = "create" =>
             tx[c].active = 1 /\ stored.active = 0 /\ admin[a].version = 1
        /\ admin[a].op = "activate" =>
             tx[c].active = 0 /\ admin[a].version \in DOMAIN stored.status
    BY <1>0, <1>1, <2>1, OwnTransaction DEF Written
  <2>3. PICK over : over = PO!Over(f, tx[c].status)
    OBVIOUS
  <2>4. tx[c].status \in Tables /\ stored.status \in Tables
    BY <2>2 DEF PromptsInv, PromptsTyped, OpenTx
  <2>5. DOMAIN over = DOMAIN f /\ \A v \in DOMAIN f : over[v] = f[v]
    <3>1. /\ DOMAIN PO!Over(f, tx[c].status) = DOMAIN f
          /\ \A v \in DOMAIN f : PO!Over(f, tx[c].status)[v] = f[v]
      BY <1>3, <2>2, <2>4, OwnStatus
    <3> QED BY <2>3, <3>1
  <2>6. tx' = [tx EXCEPT ![c].status = over] /\ UNCHANGED stored
    BY <1>0, <2>2, <2>3 DEF PO!WriteStatus
  <2>7. /\ tx'[c].status = over /\ tx'[c].open /\ tx'[c].ok /\ tx'[c].active = tx[c].active
        /\ \A d \in Conn \ {c} : tx'[d] = tx[d]
    BY <2>2, <2>6 DEF PromptsInv, PromptsTyped, OpenTx
  <2>8. Written(a)'
    <3>1. admin'[a] = next
      BY <1>0, <1>1, TypedAdmin DEF PromptsInv
    <3>2. CASE admin[a].op = "create"
      <4>1. DOMAIN f = {1} /\ f[1] = "approved"
        BY <3>2
      <4> QED BY <1>1, <2>1, <2>2, <2>5, <2>6, <2>7, <3>1, <3>2, <4>1 DEF Written
    <3>3. CASE admin[a].op = "activate"
      <4>1. DOMAIN f = DOMAIN stored.status
        <5>1. PO!Seen(c).status = PO!Over(tx[c].status, stored.status)
          BY <2>2, SeenTable DEF PromptsInv
        <5>2. DOMAIN PO!Seen(c).status = DOMAIN stored.status
          <6>1. DOMAIN PO!Over(tx[c].status, stored.status) = DOMAIN stored.status
            BY <2>2, <2>4, OwnStatus
          <6> QED BY <5>1, <6>1
        <5> QED BY <3>3, <5>2, SeenTable, ApproveTable DEF PromptsInv
      <4>2. \A w \in DOMAIN f : f[w] = "approved" <=> w = admin[a].version
        BY <3>3, SeenTable, ApproveTable DEF PromptsInv
      <4>3. OnlyApproved(over, admin[a].version) /\ DOMAIN over = DOMAIN stored.status
        BY <2>2, <2>5, <3>3, <4>1, <4>2 DEF OnlyApproved
      <4> QED BY <1>1, <2>1, <2>2, <2>6, <2>7, <3>1, <3>3, <4>3 DEF Written
    <3> QED BY <1>1, <3>2, <3>3
  <2>9. next.at \in Doing
    BY <1>1 DEF Doing
  <2> QED BY <1>0, <1>1, <2>1, <2>6, <2>7, <2>8, <2>9, SerialGoesOn DEF PO!Become
<1> QED BY <1>4, <1>5, <1>6 DEF PromptsInv

LEMMA ConfigKeeps ==
  ASSUME SomeVersions, PromptsInv, NEW a \in Admin, NEW c \in Conn, PO!Config(a, c)
  PROVE  PromptsInv'
<1> PICK stage : stage = IF admin[a].op = "create" THEN "versions" ELSE "commit"
  OBVIOUS
<1> PICK next : next = [admin[a] EXCEPT !.at = stage]
  OBVIOUS
<1>0. /\ admin[a].at = "config" /\ PO!WriteActive(c, admin[a].version)
      /\ UNCHANGED <<coach, chosen>> /\ strayed' = (strayed \/ admin[a].began # c)
      /\ admin[a].op = "create" => PO!Seen(c).active = 0
      /\ PO!Become(a, next)
  BY DEF PO!Config, PO!Strays
<1>1. /\ next \in Changing /\ next.at = stage /\ next.op = admin[a].op
      /\ next.version = admin[a].version /\ next.began = admin[a].began
      /\ admin[a].op \in {"create", "activate"} /\ admin[a].version \in Version
      /\ admin[a] # PO!Idle
  BY <1>0, NextRequest, RequestIs DEF PromptsInv, Doing, Changing, PO!Idle
<1>2. admin' \in [Admin -> {PO!Idle} \cup Waiting \cup Changing]
  BY <1>0, <1>1, TypedAdmin DEF PromptsInv
<1>3. PromptsTyped'
  <2>1. strayed' \in BOOLEAN
    BY <1>0
  <2> QED BY <1>0, <1>1, <1>2, <2>1, WriteActiveTyped DEF PromptsInv, PromptsTyped
<1>4. AllChosen'
  <2>1. stored'.status = stored.status /\ \A d \in Conn : tx'[d].open =>
           tx[d].open /\ tx'[d].status = tx[d].status
    <3>1. CASE tx[c].open
      <4>1. tx[c] \in OpenTx /\ tx' = [tx EXCEPT ![c].active = admin[a].version]
            /\ UNCHANGED stored
        BY <1>0, <3>1, OpenIsTyped DEF PO!WriteActive, PromptsInv
      <4> QED BY <3>1, <4>1 DEF PromptsInv, PromptsTyped, OpenTx
    <3>2. CASE ~tx[c].open
      <4>1. stored' = [stored EXCEPT !.active = admin[a].version] /\ UNCHANGED tx
        BY <1>0, <3>2 DEF PO!WriteActive
      <4> QED BY <4>1 DEF PromptsInv, PromptsTyped
    <3> QED BY <3>1, <3>2
  <2>2. \A b \in Admin : admin'[b] = PO!Idle \/
           (admin'[b].op = "activate" => admin'[b].version \in chosen')
    BY <1>0, <1>1, ChosenRequests DEF PO!Become
  <2> QED BY <1>0, <2>1, <2>2 DEF PromptsInv, AllChosen
<1>5. Serial'
  <2> SUFFICES ASSUME ~strayed' PROVE Serial'
    BY DEF Serial
  <2>1. ~strayed /\ admin[a].began = c /\ admin[a].at \in Doing
    BY <1>0 DEF Doing
  <2>2. /\ tx[c] \in OpenTx /\ tx[c].open /\ tx[c].ok /\ tx[c].active = 0
        /\ admin[a].op = "create" => DOMAIN tx[c].status = {}
        /\ admin[a].op = "activate" =>
             /\ OnlyApproved(tx[c].status, admin[a].version)
             /\ DOMAIN tx[c].status = DOMAIN stored.status
    BY <1>0, <1>1, <2>1, OwnTransaction DEF Written
  <2>3. tx' = [tx EXCEPT ![c].active = admin[a].version] /\ UNCHANGED stored
    BY <1>0, <2>2 DEF PO!WriteActive
  <2>4. /\ tx'[c].status = tx[c].status /\ tx'[c].open /\ tx'[c].ok
        /\ tx'[c].active = admin[a].version
        /\ \A d \in Conn \ {c} : tx'[d] = tx[d]
    BY <2>2, <2>3 DEF PromptsInv, PromptsTyped, OpenTx
  <2>5. admin[a].op = "create" => stored.active = 0
    BY <1>0, <2>2 DEF PO!Seen
  <2>6. admin'[a] = next
    BY <1>0, <1>1, TypedAdmin DEF PromptsInv
  <2>7. Written(a)'
    BY <1>1, <2>1, <2>2, <2>3, <2>4, <2>5, <2>6 DEF Written
  <2>8. next.at \in Doing
    BY <1>1 DEF Doing
  <2> QED BY <1>0, <1>1, <2>1, <2>3, <2>4, <2>7, <2>8, SerialGoesOn DEF PO!Become
<1> QED BY <1>3, <1>4, <1>5 DEF PromptsInv

LEMMA CommitKeeps ==
  ASSUME SomeVersions, PromptsInv, NEW a \in Admin, NEW c \in Conn, PO!Commit(a, c)
  PROVE  PromptsInv'
<1> PICK next : next = [admin[a] EXCEPT !.at = "reread"]
  OBVIOUS
<1>0. /\ admin[a].at = "commit" /\ UNCHANGED <<coach, chosen>>
      /\ strayed' = (strayed \/ admin[a].began # c)
      /\ stored' = IF PO!Runs(c) THEN PO!Seen(c) ELSE stored
      /\ tx' = [tx EXCEPT ![c] = PO!Closed]
      /\ PO!Become(a, next)
  BY DEF PO!Commit, PO!Strays
<1>1. /\ next \in Changing /\ next.at = "reread" /\ next.op = admin[a].op
      /\ next.version = admin[a].version
      /\ admin[a].op \in {"create", "activate"} /\ admin[a].version \in Version
      /\ admin[a] # PO!Idle
  BY <1>0, NextRequest, RequestIs DEF PromptsInv, Doing, Changing, PO!Idle
<1>2. /\ admin' \in [Admin -> {PO!Idle} \cup Waiting \cup Changing]
      /\ admin'[a] = next /\ \A b \in Admin \ {a} : admin'[b] = admin[b]
  BY <1>0, <1>1, TypedAdmin DEF PromptsInv
<1>3. /\ tx' \in [Conn -> {PO!Closed} \cup OpenTx] /\ ~tx'[c].open
      /\ \A d \in Conn \ {c} : tx'[d] = tx[d]
  BY <1>0 DEF PromptsInv, PromptsTyped, PO!Closed
<1>4. PromptsTyped'
  <2>1. strayed' \in BOOLEAN
    BY <1>0
  <2>2. stored' \in [active : 0..MaxVersions, status : Tables]
    BY <1>0, SeenTable DEF PromptsInv, PromptsTyped
  <2> QED BY <1>0, <1>2, <1>3, <2>1, <2>2 DEF PromptsInv, PromptsTyped
<1>5. AllChosen'
  <2>1. ApprovedIn(stored'.status, chosen)
    BY <1>0, SeenChosen DEF PromptsInv, AllChosen
  <2>2. \A d \in Conn : tx'[d].open => ApprovedIn(tx'[d].status, chosen)
    BY <1>3 DEF PromptsInv, AllChosen
  <2>3. \A b \in Admin : admin'[b] = PO!Idle \/
           (admin'[b].op = "activate" => admin'[b].version \in chosen')
    BY <1>0, <1>1, ChosenRequests DEF PO!Become
  <2> QED BY <1>0, <2>1, <2>2, <2>3 DEF PromptsInv, AllChosen
<1>6. Serial'
  <2> SUFFICES ASSUME ~strayed' PROVE Serial'
    BY DEF Serial
  <2>1. ~strayed /\ admin[a].began = c /\ admin[a].at \in Doing
    BY <1>0 DEF Doing
  <2>2. /\ tx[c] \in OpenTx /\ tx[c].open /\ tx[c].ok /\ tx[c].active = admin[a].version
        /\ admin[a].op = "create" =>
             /\ stored.active = 0
             /\ DOMAIN tx[c].status = {admin[a].version}
             /\ tx[c].status[admin[a].version] = "approved"
        /\ admin[a].op = "activate" =>
             /\ OnlyApproved(tx[c].status, admin[a].version)
             /\ DOMAIN tx[c].status = DOMAIN stored.status
        /\ \A d \in Conn \ {c} : ~tx[d].open
        /\ Busy = {a}
    BY <1>0, <1>1, <2>1, OwnTransaction DEF Written
  <2>3. tx[c].status \in Tables /\ stored.status \in Tables
    BY <2>2 DEF PromptsInv, PromptsTyped, OpenTx
  <2>4. stored.active = 0 => DOMAIN stored.status = {}
    BY <2>1 DEF PromptsInv, Serial
  <2>5. DOMAIN stored.status \subseteq DOMAIN tx[c].status /\
        OnlyApproved(tx[c].status, admin[a].version)
    BY <1>1, <2>2, <2>4 DEF OnlyApproved
  <2>6. /\ DOMAIN PO!Over(tx[c].status, stored.status) = DOMAIN tx[c].status
        /\ \A v \in DOMAIN tx[c].status :
             PO!Over(tx[c].status, stored.status)[v] = tx[c].status[v]
    <3>1. /\ DOMAIN PO!Over(tx[c].status, stored.status)
               = DOMAIN tx[c].status \cup DOMAIN stored.status
          /\ \A v \in DOMAIN tx[c].status :
               PO!Over(tx[c].status, stored.status)[v] = tx[c].status[v]
      BY <2>3, OverTables
    <3> QED BY <2>5, <3>1
  <2>7. OnlyApproved(PO!Over(tx[c].status, stored.status), admin[a].version)
    BY <2>5, <2>6 DEF OnlyApproved
  <2>8. /\ stored' = PO!Seen(c) /\ stored'.status = PO!Over(tx[c].status, stored.status)
        /\ stored'.active = admin[a].version
    <3>1. admin[a].version # 0
      BY <1>1 DEF Version
    <3> QED BY <1>0, <2>2, <3>1 DEF PO!Runs, PO!Seen
  <2>9. Busy' = {} /\ \A d \in Conn : ~tx'[d].open
    <3>1. \A b \in Admin : admin'[b].at \notin Doing
      <4>1. \A b \in Admin \ {a} : admin[b].at \notin Doing
        BY <2>2 DEF Busy
      <4>2. admin'[a].at \notin Doing
        BY <1>1, <1>2 DEF Doing
      <4> QED BY <1>2, <4>1, <4>2
    <3>2. \A d \in Conn : ~tx'[d].open
      BY <1>3, <2>2
    <3> QED BY <3>1, <3>2 DEF Busy
  <2>10. \A b \in Admin : admin'[b].at = "begin" \/ b \in Busy' =>
           /\ admin'[b].op = "create" => admin'[b].version = 1
           /\ admin'[b].op = "activate" => admin'[b].version \in DOMAIN stored'.status
    <3>1. ASSUME NEW b \in Admin, admin'[b].at = "begin"
          PROVE  /\ admin'[b].op = "create" => admin'[b].version = 1
                 /\ admin'[b].op = "activate" => admin'[b].version \in DOMAIN stored.status
      BY <1>1, <1>2, <2>1, <3>1 DEF PromptsInv, Serial
    <3>2. DOMAIN stored.status \subseteq DOMAIN stored'.status
      BY <2>5, <2>6, <2>8
    <3> QED BY <2>9, <3>1, <3>2
  <2>11. stored'.active # 0
    BY <1>1, <2>8 DEF Version
  <2> QED BY <2>7, <2>8, <2>9, <2>10, <2>11 DEF Serial
<1> QED BY <1>4, <1>5, <1>6 DEF PromptsInv

LEMMA FailStatementKeeps ==
  ASSUME SomeVersions, PromptsInv, NEW a \in Admin, NEW c \in Conn, PO!FailStatement(a, c)
  PROVE  PromptsInv'
<1> PICK next : next = [admin[a] EXCEPT !.at = "rollback"]
  OBVIOUS
<1>0. /\ admin[a].at \in {"versions", "config", "commit"} /\ UNCHANGED <<stored, coach, chosen>>
      /\ strayed' = (strayed \/ admin[a].began # c)
      /\ tx' = IF tx[c].open THEN [tx EXCEPT ![c].ok = FALSE] ELSE tx
      /\ PO!Become(a, next)
  BY DEF PO!FailStatement, PO!Strays
<1>1. /\ next \in Changing /\ next.at = "rollback" /\ next.op = admin[a].op
      /\ next.version = admin[a].version /\ next.began = admin[a].began
      /\ admin[a].op \in {"create", "activate"} /\ admin[a] # PO!Idle
  BY <1>0, NextRequest, RequestIs DEF PromptsInv, Doing, Changing, PO!Idle
<1>2. /\ admin' \in [Admin -> {PO!Idle} \cup Waiting \cup Changing]
      /\ admin'[a] = next
  BY <1>0, <1>1, TypedAdmin DEF PromptsInv
<1>3. /\ tx' \in [Conn -> {PO!Closed} \cup OpenTx]
      /\ \A d \in Conn : tx'[d].open = tx[d].open
      /\ \A d \in Conn : tx'[d].open => tx'[d].status = tx[d].status
      /\ \A d \in Conn \ {c} : tx'[d] = tx[d]
  <2>1. CASE tx[c].open
    <3>1. tx[c] \in OpenTx
      BY <2>1, OpenIsTyped DEF PromptsInv
    <3>2. /\ [tx[c] EXCEPT !.ok = FALSE] \in OpenTx
          /\ [tx[c] EXCEPT !.ok = FALSE].status = tx[c].status
          /\ [tx[c] EXCEPT !.ok = FALSE].open = tx[c].open
      BY <3>1 DEF OpenTx
    <3> QED BY <1>0, <2>1, <3>2 DEF PromptsInv, PromptsTyped
  <2>2. CASE ~tx[c].open
    BY <1>0, <2>2 DEF PromptsInv, PromptsTyped
  <2> QED BY <2>1, <2>2
<1>4. PromptsTyped'
  <2>1. strayed' \in BOOLEAN
    BY <1>0
  <2> QED BY <1>0, <1>2, <1>3, <2>1 DEF PromptsInv, PromptsTyped
<1>5. AllChosen'
  <2>1. \A b \in Admin : admin'[b] = PO!Idle \/
           (admin'[b].op = "activate" => admin'[b].version \in chosen')
    BY <1>0, <1>1, ChosenRequests DEF PO!Become
  <2> QED BY <1>0, <1>3, <2>1 DEF PromptsInv, AllChosen
<1>6. Serial'
  <2> SUFFICES ASSUME ~strayed' PROVE Serial'
    BY DEF Serial
  <2>1. ~strayed /\ admin[a].began = c /\ admin[a].at \in Doing /\ next.at \in Doing
    BY <1>0, <1>1 DEF Doing
  <2>2. tx'[c].open
    BY <1>3, <2>1, OwnTransaction DEF Written
  <2>3. Written(a)'
    BY <1>1, <1>2, <2>1, <2>2 DEF Written
  <2> QED BY <1>0, <1>1, <1>3, <2>1, <2>3, SerialGoesOn DEF PO!Become
<1> QED BY <1>4, <1>5, <1>6 DEF PromptsInv

LEMMA RollbackKeeps ==
  ASSUME SomeVersions, PromptsInv, NEW a \in Admin, NEW c \in Conn, PO!Rollback(a, c)
  PROVE  PromptsInv'
<1>0. /\ admin[a].at = "rollback" /\ UNCHANGED <<stored, coach, chosen>>
      /\ strayed' = (strayed \/ admin[a].began # c)
      /\ tx' = [tx EXCEPT ![c] = PO!Closed]
      /\ PO!Become(a, PO!Idle)
  BY DEF PO!Rollback, PO!Strays
<1>1. /\ admin' \in [Admin -> {PO!Idle} \cup Waiting \cup Changing]
      /\ admin'[a] = PO!Idle /\ \A b \in Admin \ {a} : admin'[b] = admin[b]
  BY <1>0, TypedAdmin DEF PromptsInv
<1>2. /\ tx' \in [Conn -> {PO!Closed} \cup OpenTx] /\ ~tx'[c].open
      /\ \A d \in Conn \ {c} : tx'[d] = tx[d]
  BY <1>0 DEF PromptsInv, PromptsTyped, PO!Closed
<1>3. PromptsTyped'
  <2>1. strayed' \in BOOLEAN
    BY <1>0
  <2> QED BY <1>0, <1>1, <1>2, <2>1 DEF PromptsInv, PromptsTyped
<1>4. AllChosen'
  BY <1>0, <1>1, <1>2 DEF PromptsInv, AllChosen
<1>5. Serial'
  <2> SUFFICES ASSUME ~strayed' PROVE Serial'
    BY DEF Serial
  <2>1. ~strayed /\ admin[a].began = c /\ admin[a].at \in Doing
    BY <1>0 DEF Doing
  <2>2. Busy' = {} /\ \A d \in Conn : ~tx'[d].open
    BY <1>1, <1>2, <2>1, OwnTransaction DEF Busy, Doing, PO!Idle
  <2>3. \A b \in Admin : admin'[b].at = "begin" \/ b \in Busy' =>
           /\ admin'[b].op = "create" => admin'[b].version = 1
           /\ admin'[b].op = "activate" => admin'[b].version \in DOMAIN stored'.status
    BY <1>0, <1>1, <2>1, <2>2 DEF PromptsInv, Serial, PO!Idle
  <2> QED BY <1>0, <2>1, <2>2, <2>3 DEF PromptsInv, Serial
<1> QED BY <1>3, <1>4, <1>5 DEF PromptsInv

\* A draft after the last version: no request has written a version meanwhile.
LEMMA CreateVersionKeeps ==
  ASSUME SomeVersions, PromptsInv, NEW a \in Admin, NEW c \in Conn, PO!CreateVersion(a, c)
  PROVE  PromptsInv'
<1> PICK next : next = PO!Max({0} \cup DOMAIN PO!Seen(c).status) + 1
  OBVIOUS
<1> PICK f : f = [v \in {next} |-> "draft"]
  OBVIOUS
<1>0. /\ PO!StatusFree(c) /\ PO!Seen(c).active # 0 /\ next <= MaxVersions
      /\ PO!WriteStatus(c, f) /\ strayed' = (strayed \/ tx[c].open)
      /\ UNCHANGED <<admin, coach, chosen>>
  BY DEF PO!CreateVersion
<1>1. PO!Seen(c).status \in Tables
  BY SeenTable DEF PromptsInv
<1>2. next \in Version /\ next \notin DOMAIN PO!Seen(c).status
  <2>1. PO!Max({0} \cup DOMAIN PO!Seen(c).status) \in Nat /\ next \notin DOMAIN PO!Seen(c).status
    BY <1>1, NextVersion
  <2> QED BY <1>0, <2>1 DEF Version, SomeVersions
<1>3. f \in Tables /\ DOMAIN f = {next} /\ f[next] = "draft"
  <2>1. "draft" \in Status
    BY DEF Status
  <2> QED BY <1>2, <2>1, SingleTable
<1>4. PromptsTyped'
  <2>1. strayed' \in BOOLEAN
    BY <1>0
  <2> QED BY <1>0, <1>3, <2>1, WriteStatusTyped DEF PromptsInv, PromptsTyped
<1>5. AllChosen'
  <2>1. ApprovedIn(f, chosen)
    BY <1>3 DEF ApprovedIn
  <2>2. /\ ApprovedIn(stored'.status, chosen)
        /\ \A d \in Conn : tx'[d].open => ApprovedIn(tx'[d].status, chosen)
    BY <1>0, <1>3, <2>1, WriteStatusChosen DEF PromptsInv
  <2> QED BY <1>0, <2>2 DEF PromptsInv, AllChosen
<1>6. Serial'
  <2> SUFFICES ASSUME ~strayed' PROVE Serial'
    BY DEF Serial
  <2>1. ~strayed /\ ~tx[c].open
    BY <1>0
  <2>2. PO!Seen(c) = stored /\ stored.active # 0 /\ stored.status \in Tables
        /\ next \notin DOMAIN stored.status
    BY <1>0, <1>1, <1>2, <2>1, SeenTable DEF PromptsInv
  <2>3. OnlyApproved(stored.status, stored.active)
    BY <2>1, <2>2 DEF PromptsInv, Serial
  <2>4. PICK over : over = PO!Over(f, stored.status)
    OBVIOUS
  <2>5. /\ DOMAIN over = {next} \cup DOMAIN stored.status /\ over[next] = "draft"
        /\ \A v \in DOMAIN stored.status : over[v] = stored.status[v]
    <3>1. /\ DOMAIN PO!Over(f, stored.status) = DOMAIN f \cup DOMAIN stored.status
          /\ \A v \in DOMAIN f : PO!Over(f, stored.status)[v] = f[v]
          /\ \A v \in DOMAIN stored.status \ DOMAIN f :
               PO!Over(f, stored.status)[v] = stored.status[v]
      BY <1>3, <2>2, OverTables
    <3> QED BY <1>3, <2>2, <2>4, <3>1
  <2>6. stored'.status = over /\ stored'.active = stored.active /\ UNCHANGED tx
    <3>1. stored' = [stored EXCEPT !.status = over] /\ UNCHANGED tx
      BY <1>0, <2>1, <2>4 DEF PO!WriteStatus
    <3> QED BY <3>1 DEF PromptsInv, PromptsTyped
  <2>7. OnlyApproved(stored'.status, stored'.active)
    BY <2>3, <2>5, <2>6 DEF OnlyApproved
  <2>8. Busy' = Busy
    BY <1>0 DEF Busy
  <2>9. ASSUME NEW b \in Busy
        PROVE  Written(b)'
    <3>1. Written(b) /\ tx[admin[b].began].open
      BY <2>1, <2>9 DEF PromptsInv, Serial, Written
    <3>2. admin[b].began \in Conn /\ admin[b].op \in {"create", "activate"}
      BY <2>9, RequestIs DEF PromptsInv, Busy, Changing
    <3>3. DOMAIN tx[admin[b].began].status = {}
      BY <1>0, <2>1, <3>1, <3>2, EmptyTable DEF PO!StatusFree
    <3>4. admin[b].op = "activate" => admin[b].at \notin {"config", "commit"}
      BY <3>1, <3>3 DEF Written, OnlyApproved
    <3>5. admin[b].op = "create" => admin[b].at \notin {"versions", "commit"}
      BY <2>2, <3>1 DEF Written
    <3> QED BY <1>0, <2>6, <3>1, <3>4, <3>5 DEF Written
  <2>10. \A b \in Admin : admin'[b].at = "begin" \/ b \in Busy' =>
           /\ admin'[b].op = "create" => admin'[b].version = 1
           /\ admin'[b].op = "activate" => admin'[b].version \in DOMAIN stored'.status
    BY <1>0, <2>1, <2>5, <2>6, <2>8 DEF PromptsInv, Serial
  <2>11. /\ \A b, d \in Busy' : b = d
         /\ \A d \in Conn : tx'[d].open => \E b \in Busy' : admin'[b].began = d
    BY <1>0, <2>1, <2>6, <2>8 DEF PromptsInv, Serial
  <2>12. stored'.active # 0
    BY <2>2, <2>6
  <2> QED BY <2>7, <2>8, <2>9, <2>10, <2>11, <2>12 DEF Serial
<1> QED BY <1>4, <1>5, <1>6 DEF PromptsInv

LEMMA PromptsStep == SomeVersions /\ PromptsInv /\ [PO!Next]_(PO!vars) => PromptsInv'
<1> SUFFICES ASSUME SomeVersions, PromptsInv, [PO!Next]_(PO!vars) PROVE PromptsInv'
  OBVIOUS
<1>1. CASE UNCHANGED PO!vars
  BY <1>1 DEF PO!vars, PromptsInv, PromptsTyped, AllChosen, Serial, Busy, Written
<1>2. ASSUME NEW c \in Conn, NEW a \in Admin, PO!Reread(a, c)
      PROVE  PromptsInv'
  <2>1. /\ admin[a].at \in {"begin", "reread"} /\ PO!Become(a, PO!Idle)
        /\ UNCHANGED <<stored, tx, coach, chosen, strayed>>
    BY <1>2 DEF PO!Reread
  <2>2. strayed' \in BOOLEAN
    BY <2>1 DEF PromptsInv, PromptsTyped
  <2> QED BY <2>1, <2>2, EndKeeps
<1>3. ASSUME NEW c \in Conn, NEW a \in Admin, PO!RequestFails(a, c)
      PROVE  PromptsInv'
  <2>1. /\ admin[a].at \in {"begin", "reread"} /\ PO!Become(a, PO!Idle)
        /\ UNCHANGED <<stored, coach, chosen>> /\ strayed' = (strayed \/ tx[c].open)
        /\ tx' = IF tx[c].open THEN [tx EXCEPT ![c].ok = FALSE] ELSE tx
    BY <1>3 DEF PO!RequestFails
  <2>2. strayed' \in BOOLEAN
    BY <2>1
  <2>3. CASE tx[c].open
    BY <2>1, <2>2, <2>3, EndKeeps
  <2>4. CASE ~tx[c].open
    BY <2>1, <2>2, <2>4, EndKeeps
  <2> QED BY <2>3, <2>4
<1>4. CASE PO!Next
  <2>1. PICK c \in Conn :
          \/ \E a \in Admin :
               \/ PO!Create(a) \/ \E v \in Version : PO!Activate(a, c, v)
               \/ PO!Begin(a, c) \/ PO!Versions(a, c) \/ PO!Config(a, c) \/ PO!Commit(a, c)
               \/ PO!Reread(a, c) \/ PO!FailStatement(a, c) \/ PO!RequestFails(a, c)
               \/ PO!Rollback(a, c) \/ PO!CreateVersion(a, c)
          \/ \E k \in Coach : PO!ReadConfig(k, c) \/ PO!ReadVersions(k, c)
    BY <1>4 DEF PO!Next, Version
  <2> QED BY <1>2, <1>3, <2>1, CreateKeeps, ActivateKeeps, BeginKeeps, VersionsKeeps, ConfigKeeps,
             CommitKeeps, FailStatementKeeps, RollbackKeeps, CreateVersionKeeps, CoachReads
<1> QED BY <1>1, <1>4

LEMMA PromptsHold == SomeVersions /\ PromptsInv => PO!OnlyChosenIsServed
<1> SUFFICES ASSUME SomeVersions, PromptsInv PROVE PO!OnlyChosenIsServed
  OBVIOUS
<1>1. \A k \in Coach : coach[k].served \in chosen \cup {0}
  BY DEF PromptsInv, AllChosen
<1>2. ASSUME ~strayed, stored.active # 0 PROVE PO!Approved = {stored.active}
  <2>1. OnlyApproved(stored.status, stored.active)
    BY <1>2 DEF PromptsInv, Serial
  <2> QED BY <2>1 DEF OnlyApproved, PO!Approved
<1> QED BY <1>1, <1>2 DEF PO!OnlyChosenIsServed

\* For every number of administrators, coaches, connections, versions and
\* failures: a coach is only given a version an administrator chose, and while
\* no statement strayed the active version is the only approved one
\* (PostgresPromptRepository, RepositoryActivePromptProvider).
THEOREM OnlyChosenServed == ASSUME SomeVersions PROVE PO!Spec => []PO!OnlyChosenIsServed
<1>1. PO!Init => PromptsInv
  BY PromptsStart
<1>2. PromptsInv /\ [PO!Next]_(PO!vars) => PromptsInv'
  BY PromptsStep
<1>3. PromptsInv => PO!OnlyChosenIsServed
  BY PromptsHold
<1> QED BY <1>1, <1>2, <1>3, PTL DEF PO!Spec

\* What was chosen and how much has failed, besides what PromptsTyped says.
Chosen == chosen \subseteq Version /\ answered \in BOOLEAN /\ faults \in 0..MaxFaults

\* A number of statements may fail.
SomeFaults == MaxFaults \in Nat

LEMMA ChosenStart == SomeFaults /\ PO!Init => Chosen
<1>1. SomeFaults => 0 \in 0..MaxFaults
  BY DEF SomeFaults
<1> QED BY <1>1 DEF PO!Init, Chosen

LEMMA ChosenStep ==
  ASSUME SomeVersions, SomeFaults, PromptsTyped, Chosen, [PO!Next]_(PO!vars)
  PROVE  Chosen'
<1> USE DEF Chosen, SomeFaults
<1>1. CASE UNCHANGED PO!vars
  BY <1>1 DEF PO!vars
<1>2. ASSUME NEW a \in Admin, NEW c \in Conn, NEW v \in Version, PO!Activate(a, c, v)
      PROVE  Chosen'
  BY <1>2 DEF PO!Activate
<1>3. ASSUME NEW a \in Admin, NEW c \in Conn, PO!Versions(a, c)
      PROVE  Chosen'
  <2>1. 1 \in Version
    BY DEF Version, SomeVersions
  <2> QED BY <1>3, <2>1 DEF PO!Versions
<1>4. ASSUME NEW a \in Admin, NEW c \in Conn,
             \/ PO!Create(a) \/ PO!Begin(a, c) \/ PO!Config(a, c) \/ PO!Commit(a, c)
             \/ PO!Reread(a, c) \/ PO!FailStatement(a, c) \/ PO!RequestFails(a, c)
             \/ PO!Rollback(a, c) \/ PO!CreateVersion(a, c)
      PROVE  Chosen'
  <2>1. UNCHANGED chosen
    BY <1>4 DEF PO!Create, PO!Begin, PO!Config, PO!Commit, PO!Reread, PO!FailStatement,
       PO!RequestFails, PO!Rollback, PO!CreateVersion
  <2>2. answered' = answered \/ answered' \in BOOLEAN
    BY <1>4 DEF PO!Create, PO!Begin, PO!Config, PO!Commit, PO!Reread, PO!FailStatement,
       PO!RequestFails, PO!Rollback, PO!CreateVersion
  <2>3. faults' = faults \/ (faults < MaxFaults /\ faults' = faults + 1)
    BY <1>4 DEF PO!Create, PO!Begin, PO!Config, PO!Commit, PO!Reread, PO!FailStatement,
       PO!RequestFails, PO!Rollback, PO!CreateVersion
  <2>4. faults' \in 0..MaxFaults
    BY <2>3
  <2> QED BY <2>1, <2>2, <2>4
<1>5. ASSUME NEW k \in Coach, NEW c \in Conn, PO!ReadConfig(k, c) \/ PO!ReadVersions(k, c)
      PROVE  Chosen'
  BY <1>5 DEF PO!ReadConfig, PO!ReadVersions
<1> QED BY <1>1, <1>2, <1>3, <1>4, <1>5 DEF PO!Next, Version

LEMMA PromptsAreTyped == PromptsTyped /\ Chosen => PO!TypeOK
<1> SUFFICES ASSUME PromptsTyped, Chosen PROVE PO!TypeOK
  OBVIOUS
<1>1. \A t \in Tables : DOMAIN t \subseteq Version /\ \A v \in DOMAIN t : t[v] \in Status
  BY DEF Tables
<1>2. stored.active \in 0..MaxVersions /\ stored.status \in Tables /\ strayed \in BOOLEAN
  BY DEF PromptsTyped
<1> QED BY <1>1, <1>2 DEF Chosen, PO!TypeOK, Version, Status

\* The tables hold versions that were made, each with one of its three states,
\* whatever statements stray or fail (PostgresPromptRepository).
THEOREM PromptsStayTyped == ASSUME SomeVersions, SomeFaults PROVE PO!Spec => []PO!TypeOK
<1>1. PO!Init => PromptsInv /\ Chosen
  BY PromptsStart, ChosenStart
<1>2. PromptsInv /\ Chosen /\ [PO!Next]_(PO!vars) => (PromptsInv /\ Chosen)'
  BY PromptsStep, ChosenStep DEF PromptsInv
<1>3. PromptsInv /\ Chosen => PO!TypeOK
  BY PromptsAreTyped DEF PromptsInv
<1> QED BY <1>1, <1>2, <1>3, PTL DEF PO!Spec

-----------------------------------------------------------------------------
(***************************************************************************)
(* The tab of the web client.                                              *)
(*                                                                         *)
(* NothingLeftLoading speaks of a tab with no call in flight.  Awaiting    *)
(* says for any tab what a loading view is waiting for, if it is not the   *)
(* stranded journey; Attended, that a view that loads belongs to the user  *)
(* of the tab, without which the answer would be dropped (Opened); Halved, *)
(* that only the back office is ever filled in part.                       *)
(***************************************************************************)
\* The calls whose answer, or failure, fills the container on screen.
Settles(c) ==
  \/ screen.view = "list"    /\ c.kind \in {"list", "relist"}
  \/ screen.view = "journey" /\ c.kind \in {"journey", "create"}
  \/ screen.view = "talent"  /\ c.kind = "questions"
  \/ screen.view \in {"route", "advisor", "backoffice"} /\ c.kind = screen.view

Pending == \/ stranded /\ screen.view = "journey"
           \/ \E c \in DOMAIN calls : Settles(c)

Awaiting == content = "loading" => Pending

Attended == /\ screen.user = user
            /\ content = "loading" => screen.view = "list" \/ user # WT!None

Halved == /\ content = "partly" => screen.view = "backoffice"
          /\ content \in {"loading", "loaded", "failed", "partly"}

TabInv == Awaiting /\ Attended /\ Halved

\* A step that leaves the container as it was, fills it, or fills it in part.
Fills == \/ UNCHANGED content
         \/ content' \in {"loaded", "failed"}
         \/ content' = "partly" /\ screen.view = "backoffice"

-----------------------------------------------------------------------------
(* Bags *)

LEMMA AddKeeps == ASSUME NEW B, NEW e
                  PROVE  DOMAIN WT!BagAdd(B, e) = DOMAIN B \cup {e}
BY DEF WT!BagAdd

LEMMA RemoveKeeps == ASSUME NEW B, NEW e
                     PROVE  DOMAIN B \ {e} \subseteq DOMAIN WT!BagRemove(B, e)
BY DEF WT!BagRemove

-----------------------------------------------------------------------------
(* The stream *)

LEMMA StreamStart == WT!Init => WT!OneStream
BY DEF WT!Init, WT!OneStream

\* No step opens a second stream beside one the tab holds, or lets go of one
\* that is open.
LEMMA StreamStep ==
  ASSUME WT!OneStream, [WT!Next]_(WT!vars)
  PROVE  WT!OneStream'
<1>1. CASE UNCHANGED WT!advisor
  BY <1>1 DEF WT!advisor, WT!OneStream
<1>2. CASE WT!Abort
  BY <1>2 DEF WT!Abort, WT!OneStream
<1>3. CASE WT!OpenStream
  BY <1>3 DEF WT!OpenStream, WT!OneStream
<1>4. CASE WT!StreamEnds
  BY <1>4 DEF WT!StreamEnds, WT!OneStream
<1>5. CASE WT!Reload
  BY <1>5 DEF WT!Reload, WT!Load, WT!OneStream
<1>6. \A v, who, others : WT!Render(v, who, others) => UNCHANGED WT!advisor \/ WT!Abort
  BY DEF WT!Render, WT!KeepOrAbort
<1>7. CASE \E who \in User \cup {WT!None} : WT!Answer(who)
  BY <1>1, <1>2, <1>3, <1>6, <1>7
     DEF WT!Answer, WT!Listed, WT!Changed, WT!RouteArrives, WT!ChatAnswered,
         WT!ProfileArrives, WT!ProfileSaved, WT!QuestionsArrive, WT!TestSaved, WT!JourneyMissing, WT!AdvisorLoaded
<1>8. CASE \E who \in User \cup {WT!None} : WT!Failing(who)
  BY <1>1, <1>2, <1>3, <1>6, <1>8
     DEF WT!Failing, WT!LoadFails, WT!BackofficeFails, WT!SubmitFails, WT!Unheard, WT!RelistFails, WT!ChatFails
<1>9. CASE \E v \in WT!Views : WT!Navigate(v)
  BY <1>1, <1>2, <1>6, <1>9 DEF WT!Navigate
<1>10. CASE \E who \in User : WT!SignIn(who) \/ WT!SignedIn(who) \/ WT!Restored(who) \/ WT!RestoreFails(who)
  BY <1>1, <1>2, <1>6, <1>10 DEF WT!SignIn, WT!SignedIn, WT!Restored, WT!RestoreFails
<1>11. CASE WT!Logout \/ WT!Ask \/ WT!AskSignedOut \/ WT!Submit \/ WT!RestartRoute \/ WT!Refresh
  BY <1>1, <1>2, <1>6, <1>11 DEF WT!Logout, WT!Ask, WT!AskSignedOut, WT!Submit, WT!RestartRoute, WT!Refresh
<1>12. CASE UNCHANGED WT!vars
  BY <1>1, <1>12 DEF WT!vars
<1> QED BY <1>4, <1>5, <1>7, <1>8, <1>9, <1>10, <1>11, <1>12 DEF WT!Next

\* A tab listens to no more than the one stream whose controller it holds
\* (bindAdvisorChat and render in apps/web/src/main.ts).
THEOREM OneStreamHeld == WT!Spec => []WT!OneStream
<1>1. WT!OneStream /\ [WT!Next]_(WT!vars) => WT!OneStream'
  BY StreamStep
<1> QED BY StreamStart, <1>1, PTL DEF WT!Spec

-----------------------------------------------------------------------------
(* What a loading view waits for *)

\* A step that leaves the view on screen alone owes it an answer only if it
\* takes one away.
LEMMA SameScreen ==
  ASSUME TabInv, UNCHANGED <<screen, user>>, stranded => stranded',
         Fills,
         content' = "loading" =>
           \/ stranded' /\ screen.view = "journey"
           \/ \A c \in DOMAIN calls : Settles(c) => \E d \in DOMAIN calls' : Settles(d)
  PROVE  TabInv'
<1>1. \A d : Settles(d)' <=> Settles(d)
  BY DEF Settles
<1>2. Awaiting'
  BY <1>1 DEF TabInv, Awaiting, Pending, Fills
<1>3. Attended' /\ Halved'
  BY DEF TabInv, Attended, Halved, Fills
<1> QED BY <1>2, <1>3 DEF TabInv

\* A call that is taken away settles nothing, or the container is filled.
LEMMA Taken ==
  ASSUME TabInv, UNCHANGED <<screen, user>>, stranded => stranded',
         Fills,
         NEW kind, NEW who, WT!Answered(kind, who) = calls',
         content' = "loading" => (stranded' /\ screen.view = "journey") \/ ~Settles(WT!Call(kind, who))
  PROVE  TabInv'
<1>1. DOMAIN calls \ {WT!Call(kind, who)} \subseteq DOMAIN calls'
  BY RemoveKeeps DEF WT!Answered
<1> QED BY <1>1, SameScreen

\* A call that is taken away is followed by one that settles as much.
LEMMA Replaced ==
  ASSUME TabInv, UNCHANGED <<screen, user>>, stranded => stranded',
         Fills,
         NEW kind, NEW who, NEW c, WT!BagAdd(WT!Answered(kind, who), c) = calls',
         content' = "loading" => (stranded' /\ screen.view = "journey") \/ ~Settles(WT!Call(kind, who)) \/ Settles(c)
  PROVE  TabInv'
<1>1. DOMAIN calls \ {WT!Call(kind, who)} \subseteq DOMAIN WT!Answered(kind, who)
  BY RemoveKeeps DEF WT!Answered
<1>2. DOMAIN calls' = DOMAIN WT!Answered(kind, who) \cup {c}
  BY AddKeeps
<1>3. content' = "loading" =>
        \/ stranded' /\ screen.view = "journey"
        \/ \A e \in DOMAIN calls : Settles(e) => \E d \in DOMAIN calls' : Settles(d)
  BY <1>1, <1>2
<1> QED BY <1>3, SameScreen

\* A call that is sent takes nothing away.
LEMMA Added ==
  ASSUME TabInv, UNCHANGED <<screen, user, stranded>>,
         Fills,
         NEW kind, NEW who, WT!Sent(kind, who) = calls'
  PROVE  TabInv'
<1>1. DOMAIN calls \subseteq DOMAIN calls'
  BY AddKeeps DEF WT!Sent
<1> QED BY <1>1, SameScreen

\* A rendering that starts a container as loading sends what fills it.
LEMMA RenderAwaits ==
  ASSUME WT!None \notin Staff, NEW v, NEW who, NEW others,
         WT!Render(v, who, others), user' = who
  PROVE  TabInv'
<1>1. screen' = [view |-> v, user |-> who]
  BY DEF WT!Render
<1>2. ASSUME content' = "loading"
      PROVE  Awaiting' /\ Attended'
  <2>1. v \in WT!Loading /\ WT!Loads(v, who) # {}
    BY <1>2 DEF WT!Render
  <2>2. PICK k : k \in WT!Loads(v, who)
    BY <2>1
  <2>3. /\ v = "list" => k = "list"
        /\ v = "journey" => k = "journey"
        /\ v = "talent" => k = "questions"
        /\ v \in {"route", "advisor", "backoffice"} => k = v
        /\ v # "list" => who # WT!None
    BY <2>1, <2>2 DEF WT!Loads, WT!Loading
  <2>4. WT!Call(k, who) \in DOMAIN calls'
    <3>1. WT!Loads(v, who) # {}
      BY <2>1
    <3>2. PICK j \in WT!Loads(v, who) : calls' = WT!BagAdd(others, WT!Call(j, who))
      BY <3>1 DEF WT!Render
    <3>3. j = k
      BY <2>2 DEF WT!Loads
    <3>4. DOMAIN WT!BagAdd(others, WT!Call(k, who)) = DOMAIN others \cup {WT!Call(k, who)}
      BY AddKeeps
    <3> QED BY <3>2, <3>3, <3>4
  <2>5. Settles(WT!Call(k, who))'
    BY <1>1, <2>1, <2>3 DEF Settles, WT!Call, WT!Loading
  <2> QED BY <1>1, <2>3, <2>4, <2>5 DEF Awaiting, Pending, Attended
<1>3. ASSUME content' # "loading"
      PROVE  Awaiting' /\ Attended'
  BY <1>1, <1>3 DEF Awaiting, Attended
<1>4. Halved'
  BY DEF WT!Render, Halved
<1> QED BY <1>2, <1>3, <1>4 DEF TabInv

\* What an answer fills is the container it belongs to.
LEMMA TabAnswerStep ==
  ASSUME TabInv, WT!None \notin Staff, NEW who, WT!Answer(who)
  PROVE  TabInv'
<1>1. CASE \E kind \in WT!Kinds : WT!Listed(kind, who)
  <2>1. PICK kind \in WT!Kinds : WT!Listed(kind, who)
    BY <1>1
  <2>2. Fills /\ (content' = "loading" => content = "loading" /\ ~Settles(WT!Call(kind, who)))
    BY <2>1 DEF WT!Listed, WT!Fill, WT!Opened, WT!Shows, Fills, Settles, WT!Call, TabInv, Attended
  <2> QED BY <2>1, <2>2, Taken DEF WT!Listed
<1>2. CASE \E kind \in WT!Kinds : WT!Changed(kind, who)
  <2>1. PICK kind \in WT!Kinds : WT!Changed(kind, who)
    BY <1>2
  <2>2. WT!Reloads["create"] = "journey" /\ DOMAIN WT!Reloads = {"change", "edit", "send", "create"}
    BY DEF WT!Reloads
  <2>3. ~Settles(WT!Call(kind, who)) \/ (kind = "create" /\ screen.view = "journey")
    BY <2>1, <2>2 DEF WT!Changed, Settles, WT!Call
  <2>4. CASE ~Settles(WT!Call(kind, who))
    BY <2>1, <2>4, Taken, Replaced DEF WT!Changed, Fills
  <2>5. CASE kind = "create" /\ screen.view = "journey" /\ content = "loading"
    <3>1. user # WT!None
      BY <2>5 DEF TabInv, Attended
    <3>2. calls' = WT!BagAdd(WT!Answered(kind, who), WT!Call("journey", user))
      BY <2>1, <2>2, <2>5, <3>1 DEF WT!Changed, WT!MayLoad
    <3>3. Settles(WT!Call("journey", user))
      BY <2>5 DEF Settles, WT!Call
    <3> QED BY <2>1, <3>2, <3>3, Replaced DEF WT!Changed, Fills
  <2>6. CASE content # "loading"
    BY <2>1, <2>6 DEF WT!Changed, TabInv, Awaiting, Attended, Halved
  <2> QED BY <2>3, <2>4, <2>5, <2>6
<1>3. CASE \E kind \in WT!Kinds : WT!RouteArrives(kind, who)
  <2>1. PICK kind \in WT!Kinds : WT!RouteArrives(kind, who)
    BY <1>3
  <2>2. Fills /\ (content' = "loading" => content = "loading" /\ ~Settles(WT!Call(kind, who)))
    BY <2>1 DEF WT!RouteArrives, WT!Fill, WT!Opened, Fills, Settles, WT!Call, TabInv, Attended
  <2> QED BY <2>1, <2>2, Taken DEF WT!RouteArrives
<1>4. CASE WT!ChatAnswered(who)
  BY <1>4, Taken DEF WT!ChatAnswered, Fills, Settles, WT!Call
<1>5. CASE WT!ProfileArrives(who)
  BY <1>5 DEF WT!ProfileArrives, TabInv, Awaiting, Attended, Halved
<1>6. CASE WT!ProfileSaved(who)
  BY <1>6, RenderAwaits DEF WT!ProfileSaved
<1>7. CASE WT!QuestionsArrive(who)
  <2>1. Fills /\ (content' = "loading" => content = "loading" /\ ~Settles(WT!Call("questions", who)))
    BY <1>7 DEF WT!QuestionsArrive, WT!Fill, WT!Opened, Fills, Settles, WT!Call, TabInv, Attended
  <2> QED BY <1>7, <2>1, Taken DEF WT!QuestionsArrive
<1>8. CASE WT!TestSaved(who)
  BY <1>8, Taken DEF WT!TestSaved, Fills, Settles, WT!Call
<1>9. CASE WT!JourneyMissing(who)
  <2>1. CASE content = "loading" /\ screen.view = "journey"
    <3>1. calls' = WT!BagAdd(WT!Answered("journey", who), WT!Call("create", user))
      BY <1>9, <2>1 DEF WT!JourneyMissing, TabInv, Attended
    <3>2. Settles(WT!Call("create", user))
      BY <2>1 DEF Settles, WT!Call
    <3> QED BY <1>9, <3>1, <3>2, Replaced DEF WT!JourneyMissing, Fills
  <2>2. CASE screen.view # "journey"
    <3>1. ~Settles(WT!Call("journey", who))
      BY <2>2 DEF Settles, WT!Call
    <3> QED BY <1>9, <3>1, Taken, Replaced DEF WT!JourneyMissing, Fills
  <2>3. CASE content # "loading"
    BY <1>9, <2>3 DEF WT!JourneyMissing, TabInv, Awaiting, Attended, Halved
  <2> QED BY <2>1, <2>2, <2>3
<1>10. CASE WT!AdvisorLoaded(who)
  <2>1. Fills /\ (content' = "loading" => content = "loading" /\ ~Settles(WT!Call("advisor", who)))
    BY <1>10 DEF WT!AdvisorLoaded, WT!Fill, WT!Opened, Fills, Settles, WT!Call, TabInv, Attended
  <2> QED BY <1>10, <2>1, Taken DEF WT!AdvisorLoaded
<1> QED BY <1>1, <1>2, <1>3, <1>4, <1>5, <1>6, <1>7, <1>8, <1>9, <1>10 DEF WT!Answer

\* What fails says so in its container, is tried again, or strands the view.
LEMMA TabFailingStep ==
  ASSUME TabInv, WT!None \notin Staff, NEW who, WT!Failing(who)
  PROVE  TabInv'
<1>1. CASE \E kind \in WT!Kinds : WT!LoadFails(kind, who)
  <2>1. PICK kind \in WT!Kinds : WT!LoadFails(kind, who)
    BY <1>1
  <2>2. CASE kind = "list"
    <3>1. Settles(WT!Call("list", who)) => Settles(WT!Call("relist", who))
      BY DEF Settles, WT!Call
    <3> QED BY <2>1, <2>2, <3>1, Replaced DEF WT!LoadFails, Fills
  <2>3. CASE kind # "list"
    <3>1. Fills /\ (content' = "loading" => content = "loading" /\ ~Settles(WT!Call(kind, who)))
      BY <2>1, <2>3 DEF WT!LoadFails, WT!Fill, WT!Opened, WT!Shows, Fills, Settles, WT!Call, TabInv, Attended
    <3> QED BY <2>1, <2>3, <3>1, Taken DEF WT!LoadFails
  <2> QED BY <2>2, <2>3
<1>2. CASE \E kind \in WT!Kinds : WT!SubmitFails(kind, who)
  BY <1>2, RenderAwaits DEF WT!SubmitFails
<1>3. CASE \E kind \in WT!Kinds : WT!Unheard(kind, who)
  <2>1. PICK kind \in WT!Kinds : WT!Unheard(kind, who)
    BY <1>3
  <2>2. (kind = "create" /\ screen.view = "journey") \/ ~Settles(WT!Call(kind, who))
    BY <2>1 DEF WT!Unheard, Settles, WT!Call
  <2> QED BY <2>1, <2>2, Taken DEF WT!Unheard, Fills
<1>4. CASE WT!RelistFails(who)
  <2>1. Fills /\ (content' = "loading" => content = "loading" /\ ~Settles(WT!Call("relist", who)))
    BY <1>4 DEF WT!RelistFails, WT!Fill, WT!Opened, Fills, Settles, WT!Call
  <2> QED BY <1>4, <2>1, Taken DEF WT!RelistFails
<1>5. CASE WT!ChatFails(who)
  BY <1>5, Taken DEF WT!ChatFails, Fills, Settles, WT!Call
<1>6. CASE WT!BackofficeFails(who)
  <2>1. Fills /\ (content' = "loading" => content = "loading" /\ ~Settles(WT!Call("backoffice", who)))
    BY <1>6 DEF WT!BackofficeFails, WT!Opened, Fills, Settles, WT!Call, TabInv, Attended
  <2> QED BY <1>6, <2>1, Taken DEF WT!BackofficeFails
<1> QED BY <1>1, <1>2, <1>3, <1>4, <1>5, <1>6 DEF WT!Failing

\* One step of the tab.
LEMMA TabStep ==
  ASSUME TabInv, WT!None \notin Staff, [WT!Next]_(WT!vars)
  PROVE  TabInv'
<1>1. CASE WT!Reload
  BY <1>1 DEF WT!Reload, WT!Load, TabInv, Awaiting, Attended, Halved
<1>2. CASE WT!Logout \/ WT!AskSignedOut \/ \E v \in WT!Views : WT!Navigate(v)
  BY <1>2, RenderAwaits DEF WT!Logout, WT!ClearSession, WT!AskSignedOut, WT!Navigate
<1>3. CASE \E who \in User : WT!SignedIn(who) \/ WT!Restored(who) \/ WT!RestoreFails(who)
  BY <1>3, RenderAwaits DEF WT!SignedIn, WT!Restored, WT!RestoreFails, WT!ClearSession
<1>4. CASE WT!Ask \/ WT!Submit \/ WT!RestartRoute \/ WT!Refresh \/ \E who \in User : WT!SignIn(who)
  BY <1>4, Added DEF Fills, WT!Ask, WT!Submit, WT!RestartRoute, WT!Refresh, WT!SignIn, WT!Start
<1>5. CASE WT!StreamEnds
  BY <1>5, SameScreen DEF Fills, WT!StreamEnds
<1>6. CASE \E who \in User \cup {WT!None} : WT!Answer(who) \/ WT!Failing(who)
  BY <1>6, TabAnswerStep, TabFailingStep
<1>7. CASE UNCHANGED WT!vars
  BY <1>7, SameScreen DEF Fills, WT!vars
<1> QED BY <1>1, <1>2, <1>3, <1>4, <1>5, <1>6, <1>7 DEF WT!Next

LEMMA TabStart == WT!Init => TabInv
BY DEF WT!Init, TabInv, Awaiting, Attended, Halved

LEMMA NothingAwaited == TabInv => WT!NothingLeftLoading
BY DEF TabInv, Awaiting, Pending, Halved, WT!NothingLeftLoading

\* When nothing is in flight no view is left saying that it is loading, but
\* for the dashboard of a user whose journey could not be created (main.ts
\* 777) and the containers of the back office beside the candidate table once
\* a load of it failed (1988-2000): whatever was left, entered, signed out of
\* or refused while the answers were under way.  Visitors are no staff.
THEOREM NoViewLeftLoading ==
  ASSUME WT!None \notin Staff
  PROVE  WT!Spec => []WT!NothingLeftLoading
<1>1. TabInv /\ [WT!Next]_(WT!vars) => TabInv'
  BY TabStep
<1> QED BY TabStart, <1>1, NothingAwaited, PTL DEF WT!Spec

-----------------------------------------------------------------------------
(* What the tab, its page and its calls can be.                           *)

\* The calls in flight are of the client's kinds, each for a user or a visitor.
Visitor == User \cup {WT!None}

InFlight == [kind : WT!Kinds, user : Visitor]

Outstanding(B) == WT!IsABag(B) /\ WT!BagToSet(B) \subseteq InFlight

LEMMA AddTyped ==
  ASSUME NEW B, Outstanding(B), NEW c \in InFlight
  PROVE  Outstanding(WT!BagAdd(B, c))
BY DEF Outstanding, WT!IsABag, WT!BagToSet, WT!BagAdd

LEMMA RemoveTyped ==
  ASSUME NEW B, Outstanding(B), NEW c
  PROVE  Outstanding(WT!BagRemove(B, c))
BY DEF Outstanding, WT!IsABag, WT!BagToSet, WT!BagRemove

LEMMA OnesTyped == ASSUME NEW S \in SUBSET InFlight PROVE Outstanding(WT!SetToBag(S))
BY DEF Outstanding, WT!IsABag, WT!BagToSet, WT!SetToBag

\* Everything but the calls.
PageTyped ==
  /\ {token, user, profile, route} \subseteq Visitor
  /\ view \in WT!Views
  /\ screen \in [view : WT!Views \cup {WT!None}, user : Visitor]
  /\ content \in {"loading", "loaded", "failed", "partly"}
  /\ {questions, busy, stranded} \subseteq BOOLEAN
  /\ streams \in Nat /\ controller \in {"none", "open", "ended"}

TabTyped == PageTyped /\ Outstanding(calls)

LEMMA TabTypedStart == WT!Init => TabTyped
<1> SUFFICES ASSUME WT!Init PROVE TabTyped
  OBVIOUS
<1>1. PageTyped
  BY DEF WT!Init, PageTyped, Visitor, WT!Views
<1>2. calls = WT!SetToBag({})
  BY DEF WT!Init
<1>3. Outstanding(WT!SetToBag({}))
  BY OnesTyped
<1> QED BY <1>1, <1>2, <1>3 DEF TabTyped

\* The call that is answered, or sent after it.
LEMMA CallTyped ==
  ASSUME NEW kind \in WT!Kinds, NEW who \in Visitor
  PROVE  WT!Call(kind, who) \in InFlight
BY DEF WT!Call, InFlight

LEMMA AnsweredTyped ==
  ASSUME Outstanding(calls), NEW kind, NEW who
  PROVE  Outstanding(WT!Answered(kind, who))
BY RemoveTyped DEF WT!Answered

LEMMA SentTyped ==
  ASSUME Outstanding(calls), NEW kind \in WT!Kinds, NEW who \in Visitor
  PROVE  Outstanding(WT!Sent(kind, who))
BY AddTyped, CallTyped DEF WT!Sent

LEMMA LoadsTyped ==
  ASSUME NEW v, NEW who, NEW k \in WT!Loads(v, who)
  PROVE  k \in WT!Kinds
BY DEF WT!Loads, WT!Kinds

\* A rendering, of a view for a user or a visitor, over the calls that are left.
LEMMA RenderTyped ==
  ASSUME PageTyped, WT!OneStream, NEW v \in WT!Views, NEW who \in Visitor,
         NEW others, Outstanding(others), WT!Render(v, who, others)
  PROVE  /\ screen' \in [view : WT!Views \cup {WT!None}, user : Visitor]
         /\ content' \in {"loading", "loaded", "failed"} /\ stranded' \in BOOLEAN
         /\ streams' \in Nat /\ controller' \in {"none", "open", "ended"}
         /\ Outstanding(calls')
<1>1. screen' \in [view : WT!Views \cup {WT!None}, user : Visitor]
  BY DEF WT!Render
<1>2. content' \in {"loading", "loaded", "failed"} /\ stranded' \in BOOLEAN
  BY DEF WT!Render
<1>3. streams' \in Nat /\ controller' \in {"none", "open", "ended"}
  BY DEF WT!Render, WT!KeepOrAbort, WT!Abort, WT!advisor, WT!OneStream, PageTyped
<1>4. Outstanding(calls')
  <2>1. CASE calls' = others
    BY <2>1
  <2>2. ASSUME NEW k \in WT!Loads(v, who), calls' = WT!BagAdd(others, WT!Call(k, who))
        PROVE  Outstanding(calls')
    <3>1. WT!Call(k, who) \in InFlight
      BY LoadsTyped, CallTyped
    <3> QED BY <2>2, <3>1, AddTyped
  <2> QED BY <2>1, <2>2 DEF WT!Render
<1> QED BY <1>1, <1>2, <1>3, <1>4

LEMMA NavigationTyped ==
  ASSUME TabTyped, WT!OneStream,
         WT!Reload \/ WT!Logout \/ WT!AskSignedOut \/ \E v \in WT!Views : WT!Navigate(v)
  PROVE  TabTyped'
<1> USE DEF TabTyped, PageTyped
<1>1. CASE WT!Reload
  <2>1. {WT!Call("me", who) : who \in {token} \ {WT!None}} \in SUBSET InFlight
    <3>1. "me" \in WT!Kinds
      BY DEF WT!Kinds
    <3> QED BY <3>1, CallTyped
  <2>2. calls' = WT!SetToBag({WT!Call("me", who) : who \in {token} \ {WT!None}})
    BY <1>1 DEF WT!Reload, WT!Load
  <2>3. Outstanding(calls')
    BY <2>1, <2>2, OnesTyped
  <2>4. PageTyped'
    BY <1>1 DEF WT!Reload, WT!Load, Visitor, WT!Views
  <2> QED BY <2>3, <2>4
<1>2. ASSUME NEW v \in WT!Views, WT!Navigate(v) PROVE TabTyped'
  BY <1>2, RenderTyped DEF WT!Navigate, WT!state
<1>3. CASE WT!Logout \/ WT!AskSignedOut
  <2>1. {"public", "account"} \subseteq WT!Views /\ WT!None \in Visitor
    BY DEF WT!Views, Visitor
  <2> QED BY <1>3, <2>1, RenderTyped DEF WT!Logout, WT!ClearSession, WT!AskSignedOut, WT!state
<1> QED BY <1>1, <1>2, <1>3

LEMMA SubmitTyped ==
  ASSUME TabTyped, WT!Ask \/ WT!Submit \/ WT!RestartRoute \/ WT!Refresh \/ WT!StreamEnds, WT!OneStream
  PROVE  TabTyped'
<1> USE DEF TabTyped, PageTyped
<1>1. WT!None \in Visitor
  BY DEF Visitor
<1>2. {"chat", "save", "answer", "talent", "change", "send", "edit", "route", "relist", "refresh",
       "journey", "backoffice"} \subseteq WT!Kinds
  BY DEF WT!Kinds
<1>3. Outstanding(calls')
  BY <1>1, <1>2, SentTyped DEF WT!Ask, WT!Submit, WT!RestartRoute, WT!Refresh, WT!Start, WT!StreamEnds
<1>4. streams' \in Nat /\ controller' \in {"none", "open", "ended"}
  BY DEF WT!Ask, WT!Submit, WT!RestartRoute, WT!Refresh, WT!StreamEnds, WT!advisor, WT!OneStream
<1>5. UNCHANGED <<token, user, profile, view, screen, content, questions, stranded>>
  BY DEF WT!Ask, WT!Submit, WT!RestartRoute, WT!Refresh, WT!StreamEnds, WT!state
<1>6. route' \in Visitor /\ busy' \in BOOLEAN
  BY <1>1 DEF WT!Ask, WT!Submit, WT!RestartRoute, WT!Refresh, WT!StreamEnds, WT!state
<1> QED BY <1>3, <1>4, <1>5, <1>6

LEMMA SessionTyped ==
  ASSUME TabTyped, WT!OneStream, NEW who \in User,
         WT!SignIn(who) \/ WT!SignedIn(who) \/ WT!Restored(who) \/ WT!RestoreFails(who)
  PROVE  TabTyped'
<1> USE DEF TabTyped, PageTyped
<1>1. WT!None \in Visitor /\ who \in Visitor /\ "profile" \in WT!Views /\ "login" \in WT!Kinds
  BY DEF Visitor, WT!Views, WT!Kinds
<1>2. CASE WT!SignIn(who)
  BY <1>1, <1>2, SentTyped DEF WT!SignIn, WT!state, WT!advisor
<1>3. CASE WT!SignedIn(who) \/ WT!Restored(who) \/ WT!RestoreFails(who)
  BY <1>1, <1>3, AnsweredTyped, RenderTyped DEF WT!SignedIn, WT!Restored, WT!RestoreFails, WT!ClearSession, WT!state
<1> QED BY <1>2, <1>3

\* What an answer to a call, or its failure, leaves in flight.
LEMMA LeftTyped ==
  ASSUME Outstanding(calls), NEW who \in Visitor, NEW kind, NEW next \in WT!Kinds, NEW then \in Visitor
  PROVE  Outstanding(WT!BagAdd(WT!Answered(kind, who), WT!Call(next, then)))
BY AnsweredTyped, AddTyped, CallTyped

LEMMA AnswerTyped ==
  ASSUME TabTyped, WT!OneStream, NEW who \in Visitor, WT!Answer(who)
  PROVE  TabTyped'
<1> USE DEF TabTyped
<1>1. \A kind : Outstanding(WT!Answered(kind, who))
  BY AnsweredTyped
<1>2. ASSUME NEW kind \in WT!Kinds, WT!Listed(kind, who) \/ WT!RouteArrives(kind, who)
      PROVE  TabTyped'
  BY <1>1, <1>2 DEF WT!Listed, WT!RouteArrives, WT!Fill, PageTyped, WT!state, WT!advisor
<1>3. ASSUME NEW kind \in WT!Kinds, WT!Changed(kind, who)
      PROVE  TabTyped'
  <2>1. kind \in DOMAIN WT!Reloads => WT!Reloads[kind] \in WT!Kinds
    BY DEF WT!Reloads, WT!Kinds
  <2>2. Outstanding(calls')
    BY <1>1, <1>3, <2>1, LeftTyped DEF WT!Changed, PageTyped
  <2> QED BY <1>3, <2>2 DEF WT!Changed, PageTyped, WT!state, WT!advisor
<1>4. CASE WT!ChatAnswered(who) \/ WT!QuestionsArrive(who) \/ WT!TestSaved(who)
  BY <1>1, <1>4 DEF WT!ChatAnswered, WT!QuestionsArrive, WT!TestSaved, WT!Fill, PageTyped, WT!state,
     WT!advisor
<1>5. CASE WT!ProfileArrives(who)
  BY <1>1, <1>5 DEF WT!ProfileArrives, PageTyped, WT!advisor, WT!Views
<1>6. CASE WT!ProfileSaved(who)
  <2>1. view \in WT!Views /\ user \in Visitor /\ Outstanding(WT!Answered("save", who))
    BY <1>1 DEF PageTyped
  <2> QED BY <1>6, <2>1, RenderTyped DEF WT!ProfileSaved, PageTyped
<1>7. CASE WT!JourneyMissing(who)
  <2>1. "create" \in WT!Kinds /\ user \in Visitor
    BY DEF WT!Kinds, PageTyped
  <2>2. Outstanding(calls')
    BY <1>1, <1>7, <2>1, LeftTyped DEF WT!JourneyMissing
  <2> QED BY <1>7, <2>2 DEF WT!JourneyMissing, PageTyped, WT!state, WT!advisor
<1>8. CASE WT!AdvisorLoaded(who)
  BY <1>1, <1>8 DEF WT!AdvisorLoaded, WT!OpenStream, WT!Fill, PageTyped, WT!state
<1> QED BY <1>2, <1>3, <1>4, <1>5, <1>6, <1>7, <1>8 DEF WT!Answer

LEMMA FailingTyped ==
  ASSUME TabTyped, WT!OneStream, NEW who \in Visitor, WT!Failing(who)
  PROVE  TabTyped'
<1> USE DEF TabTyped
<1>1. \A kind : Outstanding(WT!Answered(kind, who))
  BY AnsweredTyped
<1>2. ASSUME NEW kind \in WT!Kinds, WT!LoadFails(kind, who)
      PROVE  TabTyped'
  <2>1. "relist" \in WT!Kinds
    BY DEF WT!Kinds
  <2>2. Outstanding(calls')
    BY <1>1, <1>2, <2>1, LeftTyped DEF WT!LoadFails
  <2>3. CASE kind = "advisor"
    BY <1>2, <2>2, <2>3 DEF WT!LoadFails, WT!OpenStream, WT!Fill, PageTyped, WT!state
  <2>4. CASE kind # "advisor"
    BY <1>2, <2>2, <2>4 DEF WT!LoadFails, WT!Fill, PageTyped, WT!state, WT!advisor
  <2> QED BY <2>3, <2>4
<1>3. ASSUME NEW kind \in WT!Kinds, WT!SubmitFails(kind, who)
      PROVE  TabTyped'
  <2>1. view \in WT!Views /\ user \in Visitor /\ Outstanding(WT!Answered(kind, who))
    BY <1>1 DEF PageTyped
  <2> QED BY <1>3, <2>1, RenderTyped DEF WT!SubmitFails, PageTyped, WT!state
<1>4. ASSUME NEW kind \in WT!Kinds, WT!Unheard(kind, who)
      PROVE  TabTyped'
  BY <1>1, <1>4 DEF WT!Unheard, PageTyped, WT!state, WT!advisor
<1>5. CASE WT!BackofficeFails(who) \/ WT!RelistFails(who) \/ WT!ChatFails(who)
  BY <1>1, <1>5 DEF WT!BackofficeFails, WT!RelistFails, WT!ChatFails, WT!Fill, PageTyped, WT!state, WT!advisor
<1> QED BY <1>2, <1>3, <1>4, <1>5 DEF WT!Failing

LEMMA TabTypedStep ==
  ASSUME TabTyped, WT!OneStream, [WT!Next]_(WT!vars)
  PROVE  TabTyped'
<1>1. CASE UNCHANGED WT!vars
  BY <1>1 DEF WT!vars, WT!state, WT!advisor, TabTyped, PageTyped
<1> QED BY <1>1, NavigationTyped, SubmitTyped, SessionTyped, AnswerTyped, FailingTyped
        DEF WT!Next, Visitor

LEMMA TabIsTyped == TabTyped => WT!TypeOK
BY DEF TabTyped, PageTyped, Outstanding, InFlight, Visitor, WT!TypeOK

\* Whatever the visitor leaves and enters while answers are under way: each call
\* in flight is one the client makes, for a user or a visitor, and what the tab
\* shows and keeps is of them (apps/web/src/main.ts).
THEOREM TabStaysTyped == WT!Spec => []WT!TypeOK
<1>1. WT!Init => WT!OneStream /\ TabTyped
  BY StreamStart, TabTypedStart
<1>2. WT!OneStream /\ TabTyped /\ [WT!Next]_(WT!vars) => (WT!OneStream /\ TabTyped)'
  BY StreamStep, TabTypedStep
<1> QED BY <1>1, <1>2, TabIsTyped, PTL DEF WT!Spec
=============================================================================
