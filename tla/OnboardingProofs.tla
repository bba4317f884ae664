-------------------------- MODULE OnboardingProofs --------------------------
(***************************************************************************)
(* What is proved of Onboarding for every set of forms, emails and staff.  *)
(***************************************************************************)
EXTENDS Onboarding, TLAPS

Stages == {"form", "register", "profile", "success"}

-----------------------------------------------------------------------------
(***************************************************************************)
(* Type correctness.                                                       *)
(***************************************************************************)

\* What the fields of a call may be.
LEMMA CallFields ==
    ASSUME TypeOK, NEW c \in calls
    PROVE  /\ c \in Call /\ c.form \in Forms /\ c.user \in Emails /\ c.heard \in BOOLEAN
           /\ c.at \in {"register", "arrive", "manager", "insert"}
           /\ c.manager \in Staff \cup {Placeholder}
BY DEF TypeOK, Call

\* A call that goes on keeps its form, its user and its listener.
LEMMA CallMoves ==
    ASSUME TypeOK, NEW c \in calls,
           NEW a \in {"register", "arrive", "manager", "insert"}, NEW t \in Tokens,
           NEW m \in Staff \cup {Placeholder}
    PROVE  /\ [c EXCEPT !.at = a, !.token = t] \in Call
           /\ [c EXCEPT !.at = a, !.manager = m] \in Call
           /\ [c EXCEPT !.at = a] \in Call
BY DEF TypeOK, Call

\* The page that hears of the end of a call is the only one that changes.
LEMMA HearType ==
    ASSUME TypeOK, NEW c \in calls, NEW s \in Stages, Hear(c, s)
    PROVE  /\ stage' \in [Forms -> Stages]
           /\ stage'[c.form] = IF c.heard THEN s ELSE stage[c.form]
           /\ \A g \in Forms : g # c.form \/ ~c.heard => stage'[g] = stage[g]
<1>1. stage \in [Forms -> Stages] /\ c.form \in Forms
  BY CallFields DEF TypeOK, Stages
<1>2. QED
  BY <1>1 DEF Hear

\* A page goes to a stage, and no other page does.
LEMMA StageType ==
    ASSUME TypeOK, NEW f \in Forms, NEW s \in Stages, GoTo(f, s)
    PROVE  /\ stage' \in [Forms -> Stages]
           /\ stage'[f] = s
           /\ \A g \in Forms : g # f => stage'[g] = stage[g]
BY DEF TypeOK, GoTo, Stages

\* A registration adds the email, and leaves the registrars of the others alone.
LEMMA RegisterType ==
    ASSUME TypeOK, NEW f \in Forms, NEW e \in Emails, e \notin users, RegisterUser(f, e)
    PROVE  /\ users' = users \cup {e}
           /\ users' \subseteq Emails
           /\ DOMAIN registrar' = users'
           /\ \A d \in users' : registrar'[d] \in Forms
           /\ registrar'[e] = f
           /\ \A d \in users : registrar'[d] = registrar[d]
BY DEF TypeOK, RegisterUser

\* What remains of the calls when the page of form f gives up.
LEMMA GivenUp ==
    ASSUME TypeOK, NEW f \in Forms, GiveUp(f), NEW d \in calls'
    PROVE  \E c \in calls :
              /\ d \in Call
              /\ d.form = c.form /\ d.user = c.user /\ d.at = c.at /\ d.manager = c.manager
              /\ d.token = c.token
              /\ d.heard <=> c.heard /\ c.form # f
              /\ c.form # f => d = c
<1>1. PICK c \in calls : d = [c EXCEPT !.heard = @ /\ c.form # f]
  BY DEF GiveUp
<1>2. c \in Call /\ c.heard \in BOOLEAN
  BY CallFields
<1>3. d = [c EXCEPT !.heard = c.heard /\ c.form # f]
  BY <1>1
<1>4. d.heard = (c.heard /\ c.form # f)
  BY <1>2, <1>3 DEF Call
<1>5. d \in Call /\ d.form = c.form /\ d.user = c.user /\ d.at = c.at /\ d.manager = c.manager
      /\ d.token = c.token
  BY <1>2, <1>3 DEF Call
<1>6. ASSUME c.form # f PROVE d = c
  <2>1. d = [c EXCEPT !.heard = c.heard]
    BY <1>2, <1>3, <1>6
  <2>2. QED
    BY <1>2, <2>1 DEF Call
<1>7. QED
  BY <1>4, <1>5, <1>6

\* The types hold at the start.
LEMMA InitTypeOK == Init => TypeOK
BY DEF Init, TypeOK

\* Every step preserves the types.
LEMMA NextTypeOK == TypeOK /\ [Next]_vars => TypeOK'
<1> SUFFICES ASSUME TypeOK, [Next]_vars
             PROVE  TypeOK'
  OBVIOUS
<1> USE DEF services, browser
<1>1. ASSUME NEW f \in Forms, Submit(f) PROVE TypeOK'
  <2>1. stage' \in [Forms -> Stages]
    BY <1>1, StageType DEF Submit, Stages
  <2>2. PICK e \in Emails :
           /\ email' = [email EXCEPT ![f] = e]
           /\ calls' = calls \cup {[form |-> f, user |-> e, at |-> "register", token |-> "none",
                                    manager |-> Placeholder, heard |-> TRUE]}
    BY <1>1 DEF Submit
  <2>3. calls' \subseteq Call
    <3> DEFINE d == [form |-> f, user |-> e, at |-> "register", token |-> "none",
                     manager |-> Placeholder, heard |-> TRUE]
    <3>1. d \in Call
      BY DEF Call, Tokens
    <3>2. calls' = calls \cup {d}
      BY <2>2
    <3> HIDE DEF d
    <3>3. QED
      BY <3>1, <3>2 DEF TypeOK
  <2>4. email' \in [Forms -> Emails]
    BY <2>2 DEF TypeOK
  <2>5. QED
    BY <1>1, <2>1, <2>3, <2>4 DEF Submit, TypeOK, Stages
<1>2. ASSUME NEW f \in Forms, GiveUp(f) PROVE TypeOK'
  <2>1. stage' \in [Forms -> Stages]
    BY <1>2, StageType DEF GiveUp, Stages
  <2>2. calls' \subseteq Call
    BY <1>2, GivenUp
  <2>3. QED
    BY <1>2, <2>1, <2>2 DEF GiveUp, TypeOK, Stages
<1>3. ASSUME NEW f \in Forms, Expire(f) PROVE TypeOK'
  BY <1>3 DEF Expire, TypeOK, Tokens
<1>4. ASSUME NEW c \in calls, Registered(c) PROVE TypeOK'
  <2>1. c.form \in Forms /\ c.user \in Emails /\ c.user \notin users
        /\ RegisterUser(c.form, c.user) /\ UNCHANGED <<page, email, token>>
    BY <1>4, CallFields DEF Registered
  <2>2. stage' \in [Forms -> Stages]
    BY <1>4, HearType DEF Registered, Stages
  <2>3. calls' \subseteq Call
    <3>1. [c EXCEPT !.at = "arrive", !.token = token[c.form]] \in Call
      BY <2>1, CallMoves DEF TypeOK
    <3>2. QED
      BY <1>4, <3>1 DEF Registered, SendProfile, GoesOn, Ended, TypeOK
  <2>4. UNCHANGED <<profiles, employees>>
    BY <2>1 DEF RegisterUser
  <2>5. QED
    BY <2>1, <2>2, <2>3, <2>4, RegisterType DEF TypeOK, Stages
<1>5. ASSUME NEW c \in calls, LetIn(c) \/ FindManager(c) \/ NoManager(c) PROVE TypeOK'
  <2>1. PICK d \in Call : GoesOn(c, d)
    BY <1>5, CallMoves DEF LetIn, FindManager, NoManager, Listed, TypeOK, Tokens
  <2>2. QED
    BY <1>5, <2>1 DEF LetIn, FindManager, NoManager, GoesOn, TypeOK
<1>6. ASSUME NEW c \in calls, Created(c) PROVE TypeOK'
  <2>1. stage' \in [Forms -> Stages]
    BY <1>6, HearType DEF Created, Stages
  <2>2. profiles' \subseteq Profile
    BY <1>6, CallFields DEF Created, TypeOK, Profile
  <2>3. QED
    BY <1>6, <2>1, <2>2 DEF Created, Ended, TypeOK, Stages
<1>7. ASSUME NEW c \in calls, CallFails(c) PROVE TypeOK'
  <2>1. stage' \in [Forms -> Stages]
    BY <1>7, HearType DEF CallFails, Stages
  <2>2. QED
    BY <1>7, <2>1 DEF CallFails, Ended, TypeOK, Stages
<1>8. ASSUME NEW e \in Staff, Hire(e) PROVE TypeOK'
  BY <1>8 DEF Hire, TypeOK
<1>9. CASE UNCHANGED vars
  BY <1>9 DEF vars, TypeOK
<1>10. QED
  BY <1>1, <1>2, <1>3, <1>4, <1>5, <1>6, <1>7, <1>8, <1>9 DEF Next, Handle

\* Every variable of the two pages and of the services keeps its type.
THEOREM TypeCorrect == Spec => []TypeOK
BY InitTypeOK, NextTypeOK, PTL DEF Spec

-----------------------------------------------------------------------------
(***************************************************************************)
(* Profiles belong to whoever registered the user.                         *)
(***************************************************************************)
Making(c) == c.at # "register"

\* A call that makes a profile is of the form that registered its user, it is the
\* only one for that user, and there is no profile yet, whether or not its page still
\* waits: that is why the insert cannot hit the profile of somebody else.
Registering ==
    \A c \in calls :
        Making(c) =>
            /\ c.user \in users
            /\ registrar[c.user] = c.form
            /\ ProfileOf(c.user) = {}
            /\ \A d \in calls : Making(d) /\ d.user = c.user => d = c

\* A page waits for one call, which is for the email that it is filled in with.
Waiting ==
    \A c \in calls :
        c.heard =>
            /\ stage[c.form] \in {"register", "profile"}
            /\ email[c.form] = c.user
            /\ \A d \in calls : d.heard /\ d.form = c.form => d = c

\* A manager that was found is an employee still.
ManagersFound == \A c \in calls : c.manager \in employees \cup {Placeholder}

IInv ==
    /\ TypeOK
    /\ Registering
    /\ Waiting
    /\ ProfileByRegistrar
    /\ SuccessIsComplete
    /\ ManagersFound
    /\ ManagerIsKnown

\* The invariant holds at the start.
LEMMA InitIInv == Init => IInv
BY InitTypeOK DEF Init, IInv, Registering, Waiting, ProfileByRegistrar, SuccessIsComplete,
                  ManagersFound, ManagerIsKnown, ProfileOf

\* The page sends its form.
LEMMA SubmitStep ==
    ASSUME IInv, TypeOK', NEW f \in Forms, Submit(f)
    PROVE  IInv'
<1>1. TypeOK /\ stage[f] = "form" /\ UNCHANGED services
  BY DEF IInv, Submit
<1>2. PICK e \in Emails :
         /\ email' = [email EXCEPT ![f] = e]
         /\ calls' = calls \cup {[form |-> f, user |-> e, at |-> "register", token |-> "none",
                                  manager |-> Placeholder, heard |-> TRUE]}
  BY DEF Submit
<1>3. stage'[f] = "register" /\ \A g \in Forms : g # f => stage'[g] = stage[g]
  BY <1>1, StageType DEF Submit, Stages
<1>4. email'[f] = e /\ \A g \in Forms : g # f => email'[g] = email[g]
  BY <1>1, <1>2 DEF TypeOK
<1>5. PICK new : /\ new.form = f /\ new.user = e /\ ~Making(new) /\ new.heard
                 /\ new.manager = Placeholder /\ calls' = calls \cup {new}
  BY <1>2 DEF Making
<1>6. \A d : ProfileOf(d)' = ProfileOf(d)
  BY <1>1 DEF services, ProfileOf
<1>7. \A c \in calls : c.form \in Forms /\ (c.heard => c.form # f)
  BY <1>1, CallFields DEF IInv, Waiting
<1>8. Registering'
  BY <1>1, <1>5, <1>6 DEF services, IInv, Registering, Making
<1>9. Waiting'
  <2> SUFFICES ASSUME NEW c \in calls', c.heard
               PROVE  /\ stage'[c.form] \in {"register", "profile"}
                      /\ email'[c.form] = c.user
                      /\ \A d \in calls' : d.heard /\ d.form = c.form => d = c
    BY DEF Waiting
  <2>1. CASE c = new
    BY <1>3, <1>4, <1>5, <1>7, <2>1
  <2>2. CASE c # new
    <3>1. c \in calls /\ c.form \in Forms /\ c.form # f
      BY <1>5, <1>7, <2>2
    <3>2. QED
      BY <1>3, <1>4, <1>5, <3>1 DEF IInv, Waiting
  <2>3. QED
    BY <2>1, <2>2
<1>10. ProfileByRegistrar'
  BY <1>1, <1>6 DEF services, IInv, ProfileByRegistrar
<1>11. SuccessIsComplete'
  BY <1>1, <1>3, <1>4, <1>6 DEF services, IInv, SuccessIsComplete
<1>12. ManagersFound' /\ ManagerIsKnown'
  BY <1>1, <1>5 DEF services, IInv, ManagersFound, ManagerIsKnown
<1>13. QED
  BY <1>8, <1>9, <1>10, <1>11, <1>12 DEF IInv

\* The page gives up its call, which goes on.
LEMMA GiveUpStep ==
    ASSUME IInv, TypeOK', NEW f \in Forms, GiveUp(f)
    PROVE  IInv'
<1>1. TypeOK /\ UNCHANGED <<page, email, token, services>>
  BY DEF IInv, GiveUp
<1>2. stage'[f] = "form" /\ \A g \in Forms : g # f => stage'[g] = stage[g]
  BY <1>1, StageType DEF GiveUp, Stages
<1>3. \A d : ProfileOf(d)' = ProfileOf(d)
  BY <1>1 DEF services, ProfileOf
<1>4. Registering'
  <2> SUFFICES ASSUME NEW d \in calls', Making(d)
               PROVE  /\ d.user \in users /\ registrar[d.user] = d.form /\ ProfileOf(d.user) = {}
                      /\ \A e \in calls' : Making(e) /\ e.user = d.user => e = d
    BY <1>1, <1>3 DEF services, Registering
  <2>1. PICK c \in calls : d = [c EXCEPT !.heard = @ /\ c.form # f]
    BY DEF GiveUp
  <2>2. c \in Call
    BY <1>1, CallFields
  <2>3. d.form = c.form /\ d.user = c.user /\ Making(c)
    BY <2>1, <2>2 DEF Making, Call
  <2>4. ASSUME NEW e \in calls', Making(e), e.user = d.user PROVE e = d
    <3>1. PICK b \in calls : e = [b EXCEPT !.heard = @ /\ b.form # f]
      BY DEF GiveUp
    <3>2. b \in Call
      BY <1>1, CallFields
    <3>3. e.user = b.user /\ Making(b)
      BY <2>4, <3>1, <3>2 DEF Making, Call
    <3>4. b = c
      BY <2>3, <2>4, <3>3 DEF IInv, Registering
    <3>5. QED
      BY <2>1, <3>1, <3>4
  <2>5. QED
    BY <2>3, <2>4 DEF IInv, Registering
<1>5. Waiting'
  <2> SUFFICES ASSUME NEW d \in calls', d.heard
               PROVE  /\ stage'[d.form] \in {"register", "profile"}
                      /\ email[d.form] = d.user
                      /\ \A e \in calls' : e.heard /\ e.form = d.form => e = d
    BY <1>1 DEF Waiting
  <2>1. d \in calls /\ d.form # f /\ d.form \in Forms
    <3>1. PICK c \in calls : /\ d.form = c.form /\ (d.heard <=> c.heard /\ c.form # f)
                             /\ c.form # f => d = c
      BY <1>1, GivenUp
    <3>2. QED
      BY <1>1, <3>1, CallFields
  <2>2. ASSUME NEW e \in calls', e.heard, e.form = d.form PROVE e \in calls
    <3>1. PICK c \in calls : /\ e.form = c.form /\ (c.form # f => e = c)
      BY <1>1, GivenUp
    <3>2. QED
      BY <2>1, <2>2, <3>1
  <2>3. QED
    BY <1>2, <2>1, <2>2 DEF IInv, Waiting
<1>6. ProfileByRegistrar'
  BY <1>1, <1>3 DEF services, IInv, ProfileByRegistrar
<1>7. SuccessIsComplete'
  BY <1>1, <1>2, <1>3 DEF services, IInv, SuccessIsComplete
<1>8. ManagersFound'
  <2> SUFFICES ASSUME NEW d \in calls' PROVE d.manager \in employees \cup {Placeholder}
    BY <1>1 DEF services, ManagersFound
  <2>1. PICK c \in calls : d.manager = c.manager
    BY <1>1, GivenUp
  <2>2. QED
    BY <2>1 DEF IInv, ManagersFound
<1>9. ManagerIsKnown'
  BY <1>1 DEF services, IInv, ManagerIsKnown
<1>10. QED
  BY <1>4, <1>5, <1>6, <1>7, <1>8, <1>9 DEF IInv

\* The registration of a new user preserves the invariant.
LEMMA RegisterStep ==
    ASSUME IInv, TypeOK', NEW c \in calls, Registered(c)
    PROVE  IInv'
<1> DEFINE next == [c EXCEPT !.at = "arrive", !.token = token[c.form]]
<1>1. /\ TypeOK /\ c.user \notin users /\ RegisterUser(c.form, c.user)
      /\ UNCHANGED <<page, email, token>>
      /\ c \in Call /\ c.form \in Forms /\ c.user \in Emails /\ ~Making(c)
  BY CallFields DEF IInv, Registered, Making
<1>2. /\ users' = users \cup {c.user}
      /\ registrar'[c.user] = c.form
      /\ \A e \in users : registrar'[e] = registrar[e]
  BY <1>1, RegisterType
<1>3. UNCHANGED <<profiles, employees>>
  BY <1>1 DEF RegisterUser
<1>4. \A e : ProfileOf(e)' = ProfileOf(e)
  BY <1>3 DEF ProfileOf
<1>5. /\ next.form = c.form /\ next.user = c.user /\ next.heard = c.heard
      /\ next.manager = c.manager /\ Making(next)
  BY <1>1 DEF Call, Making
<1>6. calls' = IF c.heard THEN (calls \ {c}) \cup {next} ELSE calls \ {c}
  BY DEF Registered, SendProfile, GoesOn, Ended
<1> HIDE DEF next
<1>7. /\ stage'[c.form] = IF c.heard THEN "profile" ELSE stage[c.form]
      /\ \A g \in Forms : g # c.form => stage'[g] = stage[g]
  BY <1>1, HearType DEF Registered, Stages
<1>8. ProfileOf(c.user) = {}
  BY <1>1 DEF IInv, ProfileByRegistrar, ProfileOf
<1>9. \A d \in calls : Making(d) => d.user \in users
  BY DEF IInv, Registering
<1>10. Registering'
  <2> SUFFICES ASSUME NEW d \in calls', Making(d)
               PROVE  /\ d.user \in users' /\ registrar'[d.user] = d.form
                      /\ ProfileOf(d.user) = {}
                      /\ \A e \in calls' : Making(e) /\ e.user = d.user => e = d
    BY <1>4 DEF Registering
  <2>1. CASE d = next
    BY <1>1, <1>2, <1>5, <1>6, <1>8, <1>9, <2>1
  <2>2. CASE d # next
    <3>1. d \in calls /\ d.user # c.user
      BY <1>1, <1>6, <1>9, <2>2
    <3>2. QED
      BY <1>2, <1>5, <1>6, <3>1 DEF IInv, Registering
  <2>3. QED
    BY <2>1, <2>2
<1>11. Waiting'
  <2> SUFFICES ASSUME NEW d \in calls', d.heard
               PROVE  /\ stage'[d.form] \in {"register", "profile"}
                      /\ email[d.form] = d.user
                      /\ \A e \in calls' : e.heard /\ e.form = d.form => e = d
    BY <1>1 DEF Waiting
  <2>1. CASE d = next
    <3>1. c.heard /\ email[c.form] = c.user
      BY <1>5, <2>1 DEF IInv, Waiting
    <3>2. \A e \in calls : e.heard /\ e.form = c.form => e = c
      BY <3>1 DEF IInv, Waiting
    <3>3. QED
      BY <1>5, <1>6, <1>7, <2>1, <3>1, <3>2
  <2>2. CASE d # next
    <3>1. d \in calls /\ d # c /\ d.form \in Forms
      BY <1>1, <1>6, <2>2, CallFields
    <3>2. /\ stage[d.form] \in {"register", "profile"} /\ email[d.form] = d.user
          /\ \A e \in calls : e.heard /\ e.form = d.form => e = d
      BY <3>1 DEF IInv, Waiting
    <3>3. c.heard => c.form # d.form
      BY <3>1, <3>2
    <3>4. QED
      BY <1>5, <1>6, <1>7, <3>1, <3>2, <3>3
  <2>3. QED
    BY <2>1, <2>2
<1>12. ProfileByRegistrar'
  BY <1>2, <1>3, <1>4 DEF IInv, ProfileByRegistrar
<1>13. SuccessIsComplete'
  BY <1>1, <1>2, <1>4, <1>7 DEF IInv, SuccessIsComplete
<1>14. ManagersFound' /\ ManagerIsKnown'
  BY <1>3, <1>5, <1>6 DEF IInv, ManagersFound, ManagerIsKnown
<1>15. QED
  BY <1>10, <1>11, <1>12, <1>13, <1>14 DEF IInv

\* A call that makes a profile goes on, and is let in or finds its manager.
LEMMA MoveStep ==
    ASSUME IInv, TypeOK', NEW c \in calls, LetIn(c) \/ FindManager(c) \/ NoManager(c)
    PROVE  IInv'
<1>1. TypeOK /\ UNCHANGED <<browser, services>> /\ c \in Call /\ Making(c)
      /\ c.manager \in employees \cup {Placeholder}
  BY CallFields DEF IInv, LetIn, FindManager, NoManager, Making, ManagersFound
<1>2. PICK d : /\ calls' = (calls \ {c}) \cup {d}
               /\ d.form = c.form /\ d.user = c.user /\ d.heard = c.heard /\ Making(d)
               /\ d.manager \in employees \cup {Placeholder}
  <2>1. CASE LetIn(c)
    <3> DEFINE d == [c EXCEPT !.at = "manager"]
    <3>2. /\ d.form = c.form /\ d.user = c.user /\ d.heard = c.heard /\ Making(d)
          /\ d.manager \in employees \cup {Placeholder}
      BY <1>1 DEF Call, Making
    <3>3. calls' = (calls \ {c}) \cup {d}
      BY <2>1 DEF LetIn, GoesOn
    <3> HIDE DEF d
    <3>4. QED
      BY <3>2, <3>3
  <2>2. CASE FindManager(c)
    <3>1. PICK m \in employees : GoesOn(c, [c EXCEPT !.at = "insert", !.manager = m])
      BY <2>2 DEF FindManager, Listed
    <3> DEFINE d == [c EXCEPT !.at = "insert", !.manager = m]
    <3>2. /\ d.form = c.form /\ d.user = c.user /\ d.heard = c.heard /\ Making(d)
          /\ d.manager \in employees \cup {Placeholder}
      BY <1>1 DEF Call, Making
    <3>3. calls' = (calls \ {c}) \cup {d}
      BY <3>1 DEF FindManager, GoesOn
    <3> HIDE DEF d
    <3>4. QED
      BY <3>2, <3>3
  <2>3. CASE NoManager(c)
    <3> DEFINE d == [c EXCEPT !.at = "insert"]
    <3>2. /\ d.form = c.form /\ d.user = c.user /\ d.heard = c.heard /\ Making(d)
          /\ d.manager \in employees \cup {Placeholder}
      BY <1>1 DEF Call, Making
    <3>3. calls' = (calls \ {c}) \cup {d}
      BY <2>3 DEF NoManager, GoesOn
    <3> HIDE DEF d
    <3>4. QED
      BY <3>2, <3>3
  <2>4. QED
    BY <2>1, <2>2, <2>3
<1>3. \A e : ProfileOf(e)' = ProfileOf(e)
  BY <1>1 DEF services, ProfileOf
<1>4. Registering'
  BY <1>1, <1>2, <1>3 DEF services, IInv, Registering
<1>5. Waiting'
  BY <1>1, <1>2 DEF browser, IInv, Waiting
<1>6. ProfileByRegistrar' /\ SuccessIsComplete'
  BY <1>1, <1>3 DEF browser, services, IInv, ProfileByRegistrar, SuccessIsComplete
<1>7. ManagersFound' /\ ManagerIsKnown'
  BY <1>1, <1>2 DEF services, IInv, ManagersFound, ManagerIsKnown
<1>8. QED
  BY <1>4, <1>5, <1>6, <1>7 DEF IInv

\* A call that ends leaves the others, and their pages, as they are.
LEMMA OthersWait ==
    ASSUME IInv, TypeOK', NEW c \in calls, NEW s \in Stages, Hear(c, s), Ended(c), email' = email
    PROVE  Waiting'
<1> SUFFICES ASSUME NEW d \in calls', d.heard
             PROVE  /\ stage'[d.form] \in {"register", "profile"}
                    /\ email[d.form] = d.user
                    /\ \A e \in calls' : e.heard /\ e.form = d.form => e = d
  BY DEF Waiting
<1>1. d \in calls /\ d # c /\ d.form \in Forms /\ calls' \subseteq calls
  BY CallFields DEF Ended, IInv
<1>2. /\ stage[d.form] \in {"register", "profile"} /\ email[d.form] = d.user
      /\ \A e \in calls : e.heard /\ e.form = d.form => e = d
  BY <1>1 DEF IInv, Waiting
<1>3. c.heard => c.form # d.form
  BY <1>1, <1>2
<1>4. stage'[d.form] = stage[d.form]
  BY <1>1, <1>3, HearType DEF IInv
<1>5. QED
  BY <1>1, <1>2, <1>4

\* The insert of a profile preserves the invariant.
LEMMA CreateStep ==
    ASSUME IInv, TypeOK', NEW c \in calls, Created(c)
    PROVE  IInv'
<1> DEFINE profile == [user |-> c.user, manager |-> c.manager, form |-> c.form]
<1> DEFINE Now(e) == {p \in profiles' : p.user = e}
<1>1. /\ TypeOK /\ Making(c) /\ Hear(c, "success") /\ Ended(c)
      /\ UNCHANGED <<page, email, token, users, employees, registrar>>
      /\ c.form \in Forms /\ c.user \in Emails
  BY CallFields DEF IInv, Created, Making
<1>2. profiles' = profiles \cup {profile}
  BY DEF Created
<1>3. /\ c.user \in users /\ registrar[c.user] = c.form /\ ProfileOf(c.user) = {}
      /\ \A d \in calls : Making(d) /\ d.user = c.user => d = c
      /\ c.manager \in employees \cup {Placeholder}
  BY <1>1 DEF IInv, Registering, ManagersFound
<1>4. /\ stage'[c.form] = IF c.heard THEN "success" ELSE stage[c.form]
      /\ \A g \in Forms : g # c.form => stage'[g] = stage[g]
  BY <1>1, HearType DEF Stages
<1>5. \A e : e # c.user => Now(e) = ProfileOf(e)
  BY <1>2 DEF ProfileOf
<1>6. Now(c.user) = {profile}
  BY <1>2, <1>3 DEF ProfileOf
<1>7. Registering'
  <2> SUFFICES ASSUME NEW d \in calls', Making(d)
               PROVE  /\ d.user \in users /\ registrar[d.user] = d.form /\ Now(d.user) = {}
                      /\ \A e \in calls' : Making(e) /\ e.user = d.user => e = d
    BY <1>1 DEF Registering, ProfileOf
  <2>1. d \in calls /\ d # c /\ calls' \subseteq calls
    BY <1>1 DEF Ended
  <2>2. d.user # c.user
    BY <1>3, <2>1
  <2>3. QED
    BY <1>5, <2>1, <2>2 DEF IInv, Registering
<1>8. Waiting'
  BY <1>1, OthersWait DEF Stages
<1>9. ProfileByRegistrar'
  <2> SUFFICES ASSUME NEW p \in profiles'
               PROVE  /\ p.user \in users
                      /\ p.form = registrar[p.user]
                      /\ Now(p.user) = {p}
    BY <1>1 DEF ProfileByRegistrar, ProfileOf
  <2>1. CASE p = profile
    BY <2>1, <1>3, <1>6
  <2>2. CASE p # profile
    <3>1. p \in profiles
      BY <2>2, <1>2
    <3>2. p.user # c.user
      BY <3>1, <1>3 DEF ProfileOf
    <3>3. QED
      BY <3>1, <3>2, <1>5 DEF IInv, ProfileByRegistrar
  <2>3. QED
    BY <2>1, <2>2
<1>10. SuccessIsComplete'
  <2> SUFFICES ASSUME NEW g \in Forms, stage'[g] = "success"
               PROVE  email[g] \in users /\ \E p \in Now(email[g]) : p.form = g
    BY <1>1 DEF SuccessIsComplete, ProfileOf
  <2>1. CASE g = c.form /\ c.heard
    <3>1. email[g] = c.user
      BY <2>1 DEF IInv, Waiting
    <3>2. profile \in Now(c.user) /\ profile.form = g
      BY <1>6, <2>1
    <3>3. QED
      BY <3>1, <3>2, <1>3
  <2>2. CASE ~(g = c.form /\ c.heard)
    <3>1. stage[g] = "success"
      BY <2>2, <1>4
    <3>2. email[g] \in users /\ \E p \in ProfileOf(email[g]) : p.form = g
      BY <3>1 DEF IInv, SuccessIsComplete
    <3>3. email[g] # c.user
      BY <3>2, <1>3
    <3>4. QED
      BY <3>2, <3>3, <1>5
  <2>3. QED
    BY <2>1, <2>2
<1>11. ManagersFound'
  BY <1>1 DEF IInv, ManagersFound, Ended
<1>12. ManagerIsKnown'
  BY <1>1, <1>2, <1>3 DEF IInv, ManagerIsKnown
<1>13. QED
  BY <1>7, <1>8, <1>9, <1>10, <1>11, <1>12 DEF IInv

\* A call that fails preserves the invariant.
LEMMA FailStep ==
    ASSUME IInv, TypeOK', NEW c \in calls, CallFails(c)
    PROVE  IInv'
<1>1. /\ TypeOK /\ Hear(c, "form") /\ calls' \subseteq calls
      /\ UNCHANGED <<page, email, token, services>>
  BY DEF IInv, CallFails, Ended
<1>2. \A g \in Forms : stage'[g] = "success" => stage[g] = "success"
  <2>1. c.form \in Forms
    BY <1>1, CallFields
  <2>2. /\ stage'[c.form] = IF c.heard THEN "form" ELSE stage[c.form]
        /\ \A g \in Forms : g # c.form => stage'[g] = stage[g]
    BY <1>1, HearType DEF Stages
  <2>3. QED
    BY <2>1, <2>2
<1>3. \A e : ProfileOf(e)' = ProfileOf(e)
  BY <1>1 DEF services, ProfileOf
<1>4. Registering'
  BY <1>1, <1>3 DEF services, IInv, Registering
<1>5. Waiting'
  BY <1>1, OthersWait DEF CallFails, Stages
<1>6. ProfileByRegistrar' /\ SuccessIsComplete'
  BY <1>1, <1>2, <1>3 DEF services, IInv, ProfileByRegistrar, SuccessIsComplete
<1>7. ManagersFound' /\ ManagerIsKnown'
  BY <1>1 DEF services, IInv, ManagersFound, ManagerIsKnown
<1>8. QED
  BY <1>4, <1>5, <1>6, <1>7 DEF IInv

\* Every step preserves the invariant.
LEMMA NextIInv == IInv /\ [Next]_vars => IInv'
<1> SUFFICES ASSUME IInv, [Next]_vars
             PROVE  IInv'
  OBVIOUS
<1>1. TypeOK'
  BY NextTypeOK DEF IInv
<1>2. ASSUME UNCHANGED <<page, email, stage, calls, users, profiles, registrar>>,
             employees \subseteq employees'
      PROVE  IInv'
  <2>1. \A e : ProfileOf(e)' = ProfileOf(e)
    BY <1>2 DEF ProfileOf
  <2>2. QED
    BY <1>1, <1>2, <2>1 DEF IInv, Registering, Waiting, ProfileByRegistrar, SuccessIsComplete,
                            ManagersFound, ManagerIsKnown
<1>3. ASSUME NEW f \in Forms, Expire(f) PROVE IInv'
  BY <1>2, <1>3 DEF Expire, services
<1>4. ASSUME NEW e \in Staff, Hire(e) PROVE IInv'
  BY <1>2, <1>4 DEF Hire, browser
<1>5. CASE UNCHANGED vars
  BY <1>2, <1>5 DEF vars, browser, services
<1>6. QED
  BY <1>1, <1>3, <1>4, <1>5, SubmitStep, GiveUpStep, RegisterStep, MoveStep, CreateStep, FailStep
     DEF Next, Handle

\* A user has one profile at most, made by the form that registered the user,
\* whatever other forms do with the same email.
THEOREM OwnProfiles == Spec => []ProfileByRegistrar
<1>1. IInv => ProfileByRegistrar
  BY DEF IInv
<1>2. QED
  BY <1>1, InitIInv, NextIInv, PTL DEF Spec

\* A page that reports a success has both its user and its profile.
THEOREM CompleteSuccess == Spec => []SuccessIsComplete
<1>1. IInv => SuccessIsComplete
  BY DEF IInv
<1>2. QED
  BY <1>1, InitIInv, NextIInv, PTL DEF Spec

\* The manager of a customer is an employee or the placeholder.
THEOREM KnownManagers == Spec => []ManagerIsKnown
<1>1. IInv => ManagerIsKnown
  BY DEF IInv
<1>2. QED
  BY <1>1, InitIInv, NextIInv, PTL DEF Spec

-----------------------------------------------------------------------------
(***************************************************************************)
(* A broken registration stays broken.                                     *)
(***************************************************************************)

\* No step makes a profile for a stranded user, or a call that could make one.
LEMMA StrandedStep ==
    ASSUME TypeOK, [Next]_vars, NEW e \in Emails, Stranded(e)
    PROVE  Stranded(e)'
<1>1. /\ e \in users /\ ProfileOf(e) = {}
      /\ \A c \in calls : c.user = e => c.at = "register"
  BY DEF Stranded
<1>2. SUFFICES /\ users \subseteq users'
               /\ \A p \in profiles' \ profiles : p.user # e
               /\ \A c \in calls' : c.user = e => c.at = "register"
  BY <1>1 DEF Stranded, ProfileOf
<1>3. ASSUME NEW f \in Forms, Submit(f)
      PROVE  /\ UNCHANGED services
             /\ \A c \in calls' : c.user = e => c.at = "register"
  BY <1>1, <1>3 DEF Submit
<1>4. ASSUME NEW f \in Forms, GiveUp(f)
      PROVE  /\ UNCHANGED services
             /\ \A c \in calls' : c.user = e => c.at = "register"
  <2>1. ASSUME NEW d \in calls', d.user = e PROVE d.at = "register"
    <3>1. PICK c \in calls : d.user = c.user /\ d.at = c.at
      BY <1>4, GivenUp
    <3>2. QED
      BY <1>1, <2>1, <3>1
  <2>2. QED
    BY <1>4, <2>1 DEF GiveUp
<1>5. ASSUME NEW c \in calls, Registered(c)
      PROVE  /\ users \subseteq users' /\ profiles' = profiles
             /\ \A d \in calls' : d.user = e => d.at = "register"
  <2>1. /\ c \in Call /\ c.user # e /\ users \subseteq users' /\ profiles' = profiles
    BY <1>1, <1>5, CallFields DEF Registered, RegisterUser
  <2>2. [c EXCEPT !.at = "arrive", !.token = token[c.form]].user # e
    BY <2>1 DEF Call
  <2>3. QED
    BY <1>1, <1>5, <2>1, <2>2 DEF Registered, SendProfile, GoesOn, Ended
<1>6. ASSUME NEW c \in calls, LetIn(c) \/ FindManager(c) \/ NoManager(c)
      PROVE  /\ UNCHANGED services
             /\ \A d \in calls' : d.user = e => d.at = "register"
  <2>1. c \in Call /\ c.user # e
    BY <1>1, <1>6, CallFields DEF LetIn, FindManager, NoManager
  <2>2. PICK d : calls' = (calls \ {c}) \cup {d} /\ d.user = c.user
    <3>1. CASE LetIn(c)
      <4> DEFINE d == [c EXCEPT !.at = "manager"]
      <4>2. d.user = c.user
        BY <2>1 DEF Call
      <4>3. calls' = (calls \ {c}) \cup {d}
        BY <3>1 DEF LetIn, GoesOn
      <4> HIDE DEF d
      <4>4. QED
        BY <4>2, <4>3
    <3>2. CASE FindManager(c)
      <4>1. PICK m \in employees : GoesOn(c, [c EXCEPT !.at = "insert", !.manager = m])
        BY <3>2 DEF FindManager, Listed
      <4> DEFINE d == [c EXCEPT !.at = "insert", !.manager = m]
      <4>2. d.user = c.user
        BY <2>1 DEF Call
      <4>3. calls' = (calls \ {c}) \cup {d}
        BY <4>1 DEF FindManager, GoesOn
      <4> HIDE DEF d
      <4>4. QED
        BY <4>2, <4>3
    <3>3. CASE NoManager(c)
      <4> DEFINE d == [c EXCEPT !.at = "insert"]
      <4>2. d.user = c.user
        BY <2>1 DEF Call
      <4>3. calls' = (calls \ {c}) \cup {d}
        BY <3>3 DEF NoManager, GoesOn
      <4> HIDE DEF d
      <4>4. QED
        BY <4>2, <4>3
    <3>4. QED
      BY <1>6, <3>1, <3>2, <3>3
  <2>3. QED
    BY <1>1, <1>6, <2>1, <2>2 DEF LetIn, FindManager, NoManager
<1>7. ASSUME NEW c \in calls, Created(c)
      PROVE  /\ users' = users
             /\ \A p \in profiles' \ profiles : p.user # e
             /\ \A d \in calls' : d.user = e => d.at = "register"
  BY <1>1, <1>7 DEF Created, Ended
<1>8. ASSUME NEW c \in calls, CallFails(c)
      PROVE  /\ UNCHANGED services
             /\ \A d \in calls' : d.user = e => d.at = "register"
  BY <1>1, <1>8 DEF CallFails, Ended
<1>9. ASSUME UNCHANGED <<calls, users, profiles>>
      PROVE  /\ users \subseteq users'
             /\ \A p \in profiles' \ profiles : p.user # e
             /\ \A d \in calls' : d.user = e => d.at = "register"
  BY <1>1, <1>9
<1>10. ASSUME \/ \E f \in Forms : Expire(f)
              \/ \E d \in Staff : Hire(d)
              \/ UNCHANGED vars
       PROVE  UNCHANGED <<calls, users, profiles>>
  BY <1>10 DEF Expire, Hire, vars, services
<1>11. QED
  BY <1>3, <1>4, <1>5, <1>6, <1>7, <1>8, <1>9, <1>10 DEF Next, Handle, services

\* A user whose registration broke off between the services never gets a
\* profile: from no form, and from no call that is still under way.
THEOREM StrandedStays == Spec => StrandedForGood
<1>1. TypeOK /\ [Next]_vars => [\A e \in Emails : Stranded(e) => Stranded(e)']_vars
  BY StrandedStep
<1>2. QED
  BY <1>1, InitTypeOK, NextTypeOK, PTL DEF Spec, StrandedForGood
=============================================================================
