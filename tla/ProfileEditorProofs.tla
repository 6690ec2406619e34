------------------------- MODULE ProfileEditorProofs -------------------------
(***************************************************************************)
(* What the profile forms keep of what they were not asked to change, and  *)
(* what the sport rows show, for any sessions, sports, values and requests.*)
(***************************************************************************)
EXTENDS ProfileEditor, TLAPS

(* A form, or the save that carries it: unless the fields were written      *)
(* since, a form filled from a profile holds what is stored wherever it was *)
(* not touched, and one that began at a 404 still has no profile to lose.   *)
FormFits(x, p) ==
  ~x.stale =>
    /\ x.began = "profile" =>
         p.exists /\ \A f \in Fields : f \notin x.touched => x.form[f] = p.fields[f]
    /\ x.began = "absent" => ~p.exists

(* What a request has read, or carries, of the profile.                     *)
CallFits(k, p) ==
  /\ k.op = "load" /\ k.state = "ok" /\ ~k.stale =>
       p.exists /\ k.answer.fields = p.fields /\ k.answer.sports = p.sports
  /\ k.op = "save" /\ k.state = "sent" => FormFits(k, p)
  /\ k.op = "patch" /\ k.state = "read" /\ ~k.stale => k.answer.fields = p.fields

FormsFit == \A s \in Sessions : FormFits(editor[s], profile)
CallsFit == \A c \in Calls : call[c] # None => CallFits(call[c], profile)

(* A device that is loading waits for its one load and nothing else, and    *)
(* nobody else waits for a load; with its form closed it waits for nothing. *)
LoadsAlone ==
  \A s \in Sessions, c \in Calls :
    call[c] # None /\ call[c].by = s =>
      /\ editor[s].view # "closed"
      /\ call[c].op = "load" <=> editor[s].view = "loading"
      /\ \A d \in Calls :
           call[c].op = "load" /\ call[d] # None /\ call[d].by = s => d = c

(* A 404 that is on its way is still true, or the form knows better.        *)
AbsencesFit ==
  \A s \in Sessions, c \in Calls :
    /\ call[c] # None /\ call[c].by = s /\ call[c].op = "load" /\ call[c].state = "absent"
    /\ ~editor[s].stale
    => ~profile.exists

(* As long as nothing crossed, a device writes one sport at a time, and the *)
(* answer that is on its way holds the rows as they are stored.             *)
SportsFit ==
  \A s \in Sessions, c \in Calls :
    call[c] # None /\ call[c].by = s /\ call[c].op = "sport" /\ ~editor[s].crossed =>
      /\ call[c].state = "ok" => call[c].answer.sports = profile.sports
      /\ \A d \in Calls : call[d] # None /\ call[d].by = s /\ call[d].op = "sport" => d = c

IInv ==
  /\ TypeOK
  /\ FormsFit
  /\ CallsFit
  /\ LoadsAlone
  /\ AbsencesFit
  /\ SportsFit
  /\ ChosenIsStored

-----------------------------------------------------------------------------
(* Types.                                                                  *)

LEMMA ProfileTypes ==
  ASSUME NEW p \in Profile
  PROVE  /\ p.exists \in {TRUE, FALSE}
         /\ p.fields \in [Fields -> Values \cup {""}]
         /\ p.sports \in [Sports -> Levels]
         /\ NoProfile \in Profile
  BY DEF Profile, NoProfile, Blank, NoSports, Levels

(* A closed form, and the changes a form goes through.                      *)
LEMMA EditorTypes ==
  /\ Closed \in Editor
  /\ \A ed \in Editor :
       /\ [ed EXCEPT !.saving = TRUE] \in Editor
       /\ [ed EXCEPT !.saving = FALSE] \in Editor
       /\ [ed EXCEPT !.stale = TRUE] \in Editor
       /\ \A x \in {TRUE, FALSE} : [ed EXCEPT !.crossed = x] \in Editor
<1>1. Closed \in Editor
  BY DEF Closed, Editor, Blank, NoSports, Levels
<1>2. \A ed \in Editor :
       /\ [ed EXCEPT !.saving = TRUE] \in Editor
       /\ [ed EXCEPT !.saving = FALSE] \in Editor
       /\ [ed EXCEPT !.stale = TRUE] \in Editor
       /\ \A x \in {TRUE, FALSE} : [ed EXCEPT !.crossed = x] \in Editor
  BY ZenonT(60) DEF Editor
<1> QED BY <1>1, <1>2

LEMMA RequestType ==
  ASSUME NEW by \in Sessions \cup {None}, NEW op \in {"load", "save", "sport", "patch"},
         NEW item \in Item(op), NEW form \in [Fields -> Values \cup {""}]
  PROVE  Request(by, op, item, form) \in Call
<1>1. Request(by, op, item, form).item \in {None} \cup Fields \cup (Sports \X Levels)
  BY DEF Item, Request
<1> QED BY <1>1, ProfileTypes DEF Request, Call, Profile, NoProfile, Blank, NoSports, Levels

(* The changes a request goes through.                                      *)
LEMMA CallTypes ==
  ASSUME NEW k \in Call
  PROVE  /\ [k EXCEPT !.by = None] \in Call
         /\ [k EXCEPT !.stale = TRUE] \in Call
         /\ \A st \in {"ok", "failed", "torn", "written"} : [k EXCEPT !.state = st] \in Call
         /\ \A st \in {"ok", "absent", "read"}, p \in Profile :
              [k EXCEPT !.state = st, !.answer = p, !.stale = FALSE] \in Call
         /\ \A p \in Profile : [k EXCEPT !.state = "ok", !.answer = p] \in Call
<1>1. /\ [k EXCEPT !.by = None] \in Call
      /\ [k EXCEPT !.stale = TRUE] \in Call
      /\ \A st \in {"ok", "failed", "torn", "written"} : [k EXCEPT !.state = st] \in Call
  BY DEF Call
<1>2. \A st \in {"ok", "absent", "read"}, p \in Profile :
        [k EXCEPT !.state = st, !.answer = p, !.stale = FALSE] \in Call
  BY DEF Call
<1>3. \A p \in Profile : [k EXCEPT !.state = "ok", !.answer = p] \in Call
  BY DEF Call
<1> QED BY <1>1, <1>2, <1>3

(* A device that leaves its form waits for nothing; what it had under way   *)
(* is gone or nobody's, and other requests are left alone.                  *)
LEMMA DetachedFacts ==
  ASSUME TypeOK, NEW s \in Sessions
  PROVE  /\ Detached(s) \in [Calls -> Call \cup {None}]
         /\ \A c \in Calls :
              \/ Detached(s)[c] = None
              \/ Detached(s)[c] = call[c] /\ call[c].by # s
              \/ call[c] # None /\ Detached(s)[c] = [call[c] EXCEPT !.by = None]
<1>1. ASSUME NEW c \in Calls
      PROVE  /\ Detached(s)[c] \in Call \cup {None}
             /\ \/ Detached(s)[c] = None
                \/ Detached(s)[c] = call[c] /\ call[c].by # s
                \/ call[c] # None /\ Detached(s)[c] = [call[c] EXCEPT !.by = None]
  <2>1. call[c] # None => call[c] \in Call /\ [call[c] EXCEPT !.by = None] \in Call
    BY CallTypes DEF TypeOK
  <2> QED BY <2>1 DEF Detached, Underway, TypeOK
<1>2. Detached(s) = [c \in Calls |-> Detached(s)[c]]
  BY DEF Detached
<1> QED BY <1>1, <1>2

(* The initial state satisfies the inductive invariant.                     *)
LEMMA InitIInv == Init => IInv
<1> SUFFICES ASSUME Init PROVE IInv
  OBVIOUS
<1>1. profile \in Profile
  <2>1. NoProfile \in Profile
    BY DEF NoProfile, Profile, Blank, NoSports, Levels
  <2>2. ASSUME NEW v \in Values
        PROVE  [exists |-> TRUE, fields |-> [f \in Fields |-> v], sports |-> NoSports] \in Profile
    BY DEF Profile, NoSports, Levels
  <2> QED BY <2>1, <2>2 DEF Init
<1>2. editor \in [Sessions -> Editor] /\ \A s \in Sessions : editor[s] = Closed
  BY EditorTypes DEF Init
<1>3. call \in [Calls -> Call \cup {None}] /\ \A c \in Calls : call[c] = None
  BY DEF Init
<1>4. Closed.began = "nothing" /\ Closed.hasProfile = FALSE
  BY DEF Closed
<1> QED
  BY <1>1, <1>2, <1>3, <1>4
     DEF IInv, TypeOK, FormsFit, FormFits, CallsFit, LoadsAlone, AbsencesFit, SportsFit,
         ChosenIsStored

-----------------------------------------------------------------------------
(* The steps of the protocol keep the types.                                *)

(* What a load leaves in the form.                                          *)
LEMMA LoadedTypes ==
  ASSUME NEW ed \in Editor, NEW k \in Call
  PROVE  /\ [ed EXCEPT !.view = "form", !.began = "profile", !.form = Filled(k.answer),
                        !.stale = k.stale, !.hasProfile = TRUE,
                        !.chosen = k.answer.sports, !.crossed = k.stale] \in Editor
         /\ k.state \in {"absent", "failed", "torn"} => Unfilled(ed, k.state) \in Editor
<1>1. /\ k.answer.fields \in [Fields -> Values \cup {""}]
      /\ k.answer.sports \in [Sports -> Levels]
      /\ k.stale \in {TRUE, FALSE}
  BY DEF Call, Profile
<1>2. [ed EXCEPT !.view = "form", !.began = "profile", !.form = Filled(k.answer),
                 !.stale = k.stale, !.hasProfile = TRUE,
                 !.chosen = k.answer.sports, !.crossed = k.stale] \in Editor
  BY <1>1 DEF Editor, Filled
<1>3. ASSUME NEW why \in {"absent", "failed", "torn"}
      PROVE  Unfilled(ed, why) \in Editor
  <2>1. (CASE why = "failed" -> "blind" [] OTHER -> why) \in {"blind", "absent", "torn"}
    OBVIOUS
  <2>2. ASSUME NEW began \in {"blind", "absent", "torn"}, NEW form \in [Fields -> Values \cup {""}]
        PROVE  [ed EXCEPT !.view = "form", !.began = began, !.form = form] \in Editor
    BY DEF Editor
  <2>3. (IF ed.of.named THEN [ed.form EXCEPT !["display_name"] = CHOOSE v \in Values : TRUE]
         ELSE ed.form) \in [Fields -> Values \cup {""}]
    <3>1. (CHOOSE v \in Values : TRUE) \in Values
      BY EditorsAssumption
    <3>2. ed.form \in [Fields -> Values \cup {""}]
      BY DEF Editor
    <3> QED BY <3>1, <3>2
  <2>4. [ed EXCEPT !.view = "failed"] \in Editor
    BY DEF Editor
  <2> QED BY <2>1, <2>2, <2>3, <2>4 DEF Unfilled
<1> QED BY <1>2, <1>3

LEMMA SportWrittenType ==
  ASSUME NEW ed \in Editor, NEW k \in Call
  PROVE  SportWritten(ed, k) \in Editor
<1>1. k.answer.sports \in [Sports -> Levels]
  BY DEF Call, Profile
<1> QED BY <1>1 DEF SportWritten, Editor

(* The fields a write puts into the profile.                                *)
LEMMA SetFieldsTypes ==
  ASSUME TypeOK, NEW f \in [Fields -> Values \cup {""}], SetFields(f)
  PROVE  profile' \in Profile /\ editor' \in [Sessions -> Editor]
<1>1. profile' \in Profile
  BY DEF SetFields, TypeOK, Profile
<1>2. \A s \in Sessions : [editor[s] EXCEPT !.stale = TRUE] \in Editor
  BY EditorTypes DEF TypeOK
<1> QED BY <1>1, <1>2 DEF SetFields

LEMMA OthersType ==
  ASSUME TypeOK, NEW c \in Calls, NEW k \in Call \cup {None}
  PROVE  Others(c, k) \in [Calls -> Call \cup {None}]
<1>1. \A x \in Calls : call[x] # None => [call[x] EXCEPT !.stale = TRUE] \in Call
  BY CallTypes DEF TypeOK
<1> QED BY <1>1 DEF Others

LEMMA NextTypeOK == TypeOK /\ [Next]_vars => TypeOK'
<1> SUFFICES ASSUME TypeOK, [Next]_vars PROVE TypeOK'
  OBVIOUS
<1> USE EditorsAssumption
<1>a. ASSUME NEW c \in Calls, call[c] # None
      PROVE  /\ call[c] \in Call /\ call[c].by \in Sessions \cup {None}
             /\ call[c].by # None => call[c].by \in Sessions /\ editor[call[c].by] \in Editor
  BY <1>a DEF TypeOK, Call
<1>b. ASSUME NEW c \in Calls, NEW k \in Call \cup {None}
      PROVE  [call EXCEPT ![c] = k] \in [Calls -> Call \cup {None}]
  BY DEF TypeOK
<1>c. ASSUME NEW s \in Sessions, NEW ed \in Editor
      PROVE  [editor EXCEPT ![s] = ed] \in [Sessions -> Editor]
  BY DEF TypeOK
<1>d. profile \in Profile /\ editor \in [Sessions -> Editor] /\ call \in [Calls -> Call \cup {None}]
  BY DEF TypeOK
<1>e. Blank \in [Fields -> Values \cup {""}]
  BY DEF Blank
<1>1. ASSUME NEW s \in Sessions, Leave(s) PROVE TypeOK'
  BY <1>1, <1>c, <1>d, EditorTypes, DetachedFacts DEF Leave, TypeOK
<1>2. ASSUME NEW s \in Sessions, NEW f \in Fields, NEW v \in Values \cup {""}, Type(s, f, v)
      PROVE  TypeOK'
  <2>1. editor[s] \in Editor
    BY <1>d
  <2>2. [editor[s] EXCEPT !.form = [@ EXCEPT ![f] = v], !.touched = @ \cup {f}] \in Editor
    BY <2>1 DEF Editor
  <2>3. editor' = [editor EXCEPT ![s] =
                     [editor[s] EXCEPT !.form = [@ EXCEPT ![f] = v], !.touched = @ \cup {f}]]
    BY <1>2, <1>d, <2>1 DEF Type
  <2> QED BY <1>2, <2>2, <2>3, <1>c, <1>d, ZenonT(60) DEF Type, TypeOK
<1>3. ASSUME NEW s \in Sessions, NEW c \in Calls, NEW k \in Editors[s], Open(s, k, c)
      PROVE  TypeOK'
  <2>1. k \in Forms
    OBVIOUS
  <2>2. [Closed EXCEPT !.of = k, !.view = "loading"] \in Editor
    BY <2>1, EditorTypes DEF Editor
  <2>3. Request(s, "load", None, Blank) \in Call
    BY <1>e, RequestType DEF Item
  <2> QED BY <1>3, <2>2, <2>3, <1>b, <1>c, <1>d DEF Open, TypeOK
<1>4. ASSUME NEW s \in Sessions, NEW c \in Calls, Submit(s, c) PROVE TypeOK'
  <2>1. /\ editor[s] \in Editor
        /\ [editor[s] EXCEPT !.saving = TRUE] \in Editor
    BY <1>d, EditorTypes
  <2>2. /\ editor[s].form \in [Fields -> Values \cup {""}]
        /\ editor[s].touched \in SUBSET Fields
        /\ editor[s].began \in {"nothing", "profile", "absent", "blind", "torn"}
        /\ editor[s].stale \in {TRUE, FALSE}
    BY <2>1 DEF Editor
  <2>3. Request(s, "save", None, editor[s].form) \in Call
    BY <2>2, RequestType DEF Item
  <2>4. [Request(s, "save", None, editor[s].form) EXCEPT
           !.touched = editor[s].touched, !.began = editor[s].began, !.stale = editor[s].stale]
        \in Call
    BY <2>2, <2>3 DEF Call
  <2>5. editor' = [editor EXCEPT ![s] = [editor[s] EXCEPT !.saving = TRUE]]
    BY <1>4, <1>d DEF Submit
  <2>6. editor' \in [Sessions -> Editor]
    BY <2>1, <2>5, <1>c
  <2>7. call' \in [Calls -> Call \cup {None}]
    BY <1>4, <2>4, <1>b DEF Submit
  <2> QED BY <1>4, <2>6, <2>7, <1>d DEF Submit, TypeOK
<1>5. ASSUME NEW s \in Sessions, NEW c \in Calls, NEW k \in Sports, NEW to \in Levels,
             WriteSport(s, k, to, c)
      PROVE  TypeOK'
  <2>1. editor[s] \in Editor
    BY <1>d
  <2> DEFINE crossed == editor[s].crossed \/ \E x \in Underway(s) : call[x].op = "sport"
  <2>2. [editor[s] EXCEPT !.pendingSport = k, !.crossed = crossed] \in Editor
    <3>1. crossed \in {TRUE, FALSE}
      BY <2>1 DEF Editor
    <3> HIDE DEF crossed
    <3> QED BY <2>1, <3>1 DEF Editor
  <2>3. editor' = [editor EXCEPT ![s] = [editor[s] EXCEPT !.pendingSport = k, !.crossed = crossed]]
    BY <1>5, <1>d, <2>1 DEF WriteSport
  <2>4. Request(s, "sport", <<k, to>>, Blank) \in Call
    BY <1>e, RequestType DEF Item
  <2>5. editor' \in [Sessions -> Editor]
    <3> HIDE DEF crossed
    <3> QED BY <2>2, <2>3, <1>c
  <2>6. call' \in [Calls -> Call \cup {None}]
    BY <1>5, <2>4, <1>b DEF WriteSport
  <2> QED BY <1>5, <2>5, <2>6, <1>d DEF WriteSport, TypeOK
<1>6. ASSUME NEW c \in Calls, Loaded(c) PROVE TypeOK'
  <2>1. /\ call[c] \in Call /\ call[c].by \in Sessions /\ editor[call[c].by] \in Editor
        /\ call[c].state \in {"ok", "absent", "failed", "torn"}
    BY <1>6, <1>a DEF Loaded
  <2>2. \E ed \in Editor : editor' = [editor EXCEPT ![call[c].by] = ed]
    <3>1. CASE call[c].state = "ok"
      <4> DEFINE ed == editor[call[c].by]
      <4>1. editor' = [editor EXCEPT ![call[c].by] =
              [ed EXCEPT !.view = "form", !.began = "profile", !.form = Filled(call[c].answer),
                         !.stale = call[c].stale, !.hasProfile = TRUE,
                         !.chosen = call[c].answer.sports, !.crossed = call[c].stale]]
        BY <1>6, <2>1, <3>1, <1>d DEF Loaded
      <4> QED BY <4>1, <2>1, LoadedTypes
    <3>2. CASE call[c].state # "ok"
      <4>1. editor' = [editor EXCEPT ![call[c].by] = Unfilled(editor[call[c].by], call[c].state)]
        BY <1>6, <2>1, <3>2, <1>d DEF Loaded
      <4> QED BY <4>1, <3>2, <2>1, LoadedTypes
    <3> QED BY <3>1, <3>2
  <2>3. editor' \in [Sessions -> Editor]
    BY <2>1, <2>2, <1>c
  <2>4. call' \in [Calls -> Call \cup {None}]
    BY <1>6, <1>b DEF Loaded
  <2> QED BY <1>6, <2>3, <2>4, <1>d DEF Loaded, TypeOK
<1>7. ASSUME NEW c \in Calls, Saved(c) PROVE TypeOK'
  <2>1. call[c] \in Call /\ call[c].by \in Sessions /\ editor[call[c].by] \in Editor
    BY <1>7, <1>a DEF Saved
  <2>2. \E ed \in Editor : editor' = [editor EXCEPT ![call[c].by] = ed]
    BY <1>7, <1>d, <2>1, EditorTypes DEF Saved, SaveFailed
  <2>3. editor' \in [Sessions -> Editor]
    BY <2>1, <2>2, <1>c
  <2>4. call' \in [Calls -> Call \cup {None}]
    <3>1. call' = [call EXCEPT ![c] = None] \/ call' = Detached(call[c].by)
      BY <1>7 DEF Saved
    <3> QED BY <3>1, <2>1, <1>b, DetachedFacts, ZenonT(60)
  <2> QED BY <1>7, <2>3, <2>4, <1>d DEF Saved, TypeOK
<1>8. ASSUME NEW c \in Calls, SportAnswered(c) PROVE TypeOK'
  BY <1>8, <1>a, <1>b, <1>c, <1>d, SportWrittenType DEF SportAnswered, TypeOK
<1>9. ASSUME NEW c \in Calls, TimesOut(c) PROVE TypeOK'
  <2>1. \E k \in Call : call' = [call EXCEPT ![c] = k] \/
          \E d \in Calls : call' = [call EXCEPT ![c] = k, ![d] = [call[c] EXCEPT !.by = None]]
    BY <1>9, <1>a, <1>d, CallTypes DEF TimesOut
  <2>2. [call[c] EXCEPT !.by = None] \in Call
    BY <1>9, <1>a, CallTypes DEF TimesOut
  <2>3. call' \in [Calls -> Call \cup {None}]
    BY <2>1, <2>2, <1>d
  <2> QED BY <1>9, <2>3, <1>d DEF TimesOut, TypeOK
<1>10. ASSUME NEW c \in Calls, Drop(c) PROVE TypeOK'
  BY <1>10, <1>b, <1>d DEF Drop, TypeOK
<1>11. ASSUME NEW c \in Calls, ProfileByUserID(c) \/ Refuse(c) \/ SportReadBack(c) \/ PatchReads(c)
       PROVE  TypeOK'
  <2>1. call[c] \in Call
    BY <1>11, <1>a DEF ProfileByUserID, Refuse, SportReadBack, PatchReads, Arrived
  <2>2. \E k \in Call \cup {None} : call' = [call EXCEPT ![c] = k]
    <3>1. CASE ProfileByUserID(c)
      <4>1. call' = [call EXCEPT ![c] =
                       [call[c] EXCEPT !.state = IF profile.exists THEN "ok" ELSE "absent",
                                       !.answer = profile, !.stale = FALSE]]
        BY <3>1, <1>d, <2>1 DEF ProfileByUserID
      <4> QED BY <4>1, <2>1, <1>d, CallTypes
    <3>2. CASE Refuse(c)
      BY <3>2, <1>d, <2>1, CallTypes DEF Refuse
    <3>3. CASE SportReadBack(c)
      <4>1. call' = [call EXCEPT ![c] = [call[c] EXCEPT !.state = "ok", !.answer = profile]]
        BY <3>3, <1>d, <2>1 DEF SportReadBack
      <4> QED BY <4>1, <2>1, <1>d, CallTypes
    <3>4. CASE PatchReads(c)
      BY <3>4, <1>d, <2>1, CallTypes DEF PatchReads
    <3> QED BY <1>11, <3>1, <3>2, <3>3, <3>4
  <2>3. call' \in [Calls -> Call \cup {None}]
    BY <2>2, <1>b
  <2>4. UNCHANGED <<profile, editor>>
    BY <1>11 DEF ProfileByUserID, Refuse, SportReadBack, PatchReads
  <2> QED BY <2>3, <2>4, <1>d DEF TypeOK
<1>12. ASSUME NEW c \in Calls, SaveProfile(c) PROVE TypeOK'
  <2>1. call[c] \in Call /\ [call[c] EXCEPT !.state = "ok"] \in Call
    BY <1>12, <1>a, CallTypes DEF SaveProfile, Arrived
  <2>2. call[c].form \in [Fields -> Values \cup {""}]
    BY <2>1 DEF Call
  <2> QED BY <1>12, <2>1, <2>2, SetFieldsTypes, OthersType DEF SaveProfile, TypeOK
<1>13. ASSUME NEW c \in Calls, PatchProfile(c) PROVE TypeOK'
  <2>1. call[c] \in Call
    BY <1>13, <1>a DEF PatchProfile
  <2>2. Merged(call[c]) \in [Fields -> Values \cup {""}]
    <3>1. /\ call[c].item \in Fields
          /\ call[c].form \in [Fields -> Values \cup {""}]
          /\ call[c].answer.fields \in [Fields -> Values \cup {""}]
      BY <1>13, <2>1 DEF PatchProfile, Call, Item, Profile
    <3> QED BY <3>1 DEF Merged
  <2> QED BY <1>13, <2>2, SetFieldsTypes, OthersType DEF PatchProfile, TypeOK
<1>14. ASSUME NEW c \in Calls, SetSport(c) PROVE TypeOK'
  <2>1. call[c] \in Call /\ [call[c] EXCEPT !.state = "written"] \in Call
    BY <1>14, <1>a, CallTypes DEF SetSport, Arrived
  <2>2. call[c].item \in Sports \X Levels
    BY <1>14, <2>1 DEF SetSport, Arrived, Call, Item
  <2>3. profile' \in Profile
    <3>1. call[c].item[1] \in Sports /\ call[c].item[2] \in Levels
      BY <2>2
    <3>2. [profile.sports EXCEPT ![call[c].item[1]] = call[c].item[2]] \in [Sports -> Levels]
      BY <3>1, <1>d DEF Profile
    <3>3. profile' = [profile EXCEPT !.sports = [profile.sports EXCEPT ![call[c].item[1]] = call[c].item[2]]]
      BY <1>14, <1>d DEF SetSport, Profile
    <3> QED BY <3>2, <3>3, <1>d DEF Profile
  <2>4. editor' \in [Sessions -> Editor]
    <3>1. ASSUME NEW s \in Sessions
          PROVE  [editor[s] EXCEPT !.crossed = @ \/ s # call[c].by] \in Editor
      <4>1. editor[s] \in Editor /\ editor[s].crossed \in {TRUE, FALSE}
        BY <1>d DEF Editor
      <4>2. (editor[s].crossed \/ s # call[c].by) \in {TRUE, FALSE}
        OBVIOUS
      <4>3. [editor[s] EXCEPT !.crossed = @ \/ s # call[c].by] =
              [editor[s] EXCEPT !.crossed = (editor[s].crossed \/ s # call[c].by)]
        BY <4>1
      <4> QED BY <4>1, <4>2, <4>3, EditorTypes
    <3> QED BY <1>14, <3>1 DEF SetSport
  <2>5. call' \in [Calls -> Call \cup {None}]
    <3>1. \A x \in Calls : call[x] # None => [call[x] EXCEPT !.stale = TRUE] \in Call
      BY <1>d, CallTypes
    <3> QED BY <1>14, <1>d, <2>1, <3>1 DEF SetSport
  <2> QED BY <2>3, <2>4, <2>5 DEF TypeOK
<1>15. ASSUME NEW c \in Calls, NEW f \in Fields, NEW v \in Values \cup {""}, PatchArrives(c, f, v)
       PROVE  TypeOK'
  <2>1. Request(None, "patch", f, [g \in Fields |-> v]) \in Call
    BY RequestType DEF Item
  <2> QED BY <1>15, <2>1, <1>b, <1>d DEF PatchArrives, TypeOK
<1>16. CASE UNCHANGED vars
  BY <1>16 DEF vars, TypeOK
<1> QED
  BY <1>1, <1>2, <1>3, <1>4, <1>5, <1>6, <1>7, <1>8, <1>9, <1>10, <1>11, <1>12, <1>13, <1>14,
     <1>15, <1>16
     DEF Next, Respond, Serve, Levels

-----------------------------------------------------------------------------
(* Forms hold what is stored.                                               *)

(* Only four fields of a form, and two of a profile, matter to FormFits.    *)
LEMMA SameForm ==
  ASSUME NEW x, NEW y, NEW p, NEW q, FormFits(x, p),
         y.stale = x.stale, y.began = x.began, y.form = x.form, y.touched = x.touched,
         q.exists = p.exists, q.fields = p.fields
  PROVE  FormFits(y, q)
  BY DEF FormFits

(* What a write does to the profile and to the forms.                       *)
LEMMA SetFieldsFacts ==
  ASSUME TypeOK, NEW f, SetFields(f)
  PROVE  /\ profile'.exists = TRUE /\ profile'.fields = f /\ profile'.sports = profile.sports
         /\ \A s \in Sessions : editor'[s] = [editor[s] EXCEPT !.stale = TRUE]
         /\ \A s \in Sessions : editor'[s].stale = TRUE
<1>1. \A s \in Sessions : editor[s] \in Editor
  BY DEF TypeOK
<1>2. \A s \in Sessions : [editor[s] EXCEPT !.stale = TRUE].stale = TRUE
  BY <1>1 DEF Editor
<1>3. profile \in Profile
  BY DEF TypeOK
<1>4. /\ [profile EXCEPT !.exists = TRUE, !.fields = f].exists = TRUE
      /\ [profile EXCEPT !.exists = TRUE, !.fields = f].fields = f
      /\ [profile EXCEPT !.exists = TRUE, !.fields = f].sports = profile.sports
  BY <1>3 DEF Profile
<1> QED BY <1>2, <1>4 DEF SetFields

(* What a sport that is written does to the profile and to the forms.       *)
LEMMA SetSportFacts ==
  ASSUME TypeOK, NEW c \in Calls, SetSport(c)
  PROVE  /\ profile'.exists = profile.exists /\ profile'.fields = profile.fields
         /\ \A s \in Sessions :
              /\ editor'[s].stale = editor[s].stale /\ editor'[s].began = editor[s].began
              /\ editor'[s].form = editor[s].form /\ editor'[s].touched = editor[s].touched
              /\ editor'[s].view = editor[s].view
              /\ editor'[s].hasProfile = editor[s].hasProfile
              /\ editor'[s].chosen = editor[s].chosen
              /\ ~editor'[s].crossed => ~editor[s].crossed /\ s = call[c].by
<1>1. profile \in Profile /\ \A s \in Sessions : editor[s] \in Editor
  BY DEF TypeOK
<1>2. profile'.exists = profile.exists /\ profile'.fields = profile.fields
  BY <1>1 DEF SetSport, Profile
<1>3. ASSUME NEW s \in Sessions
      PROVE  /\ editor'[s].stale = editor[s].stale /\ editor'[s].began = editor[s].began
             /\ editor'[s].form = editor[s].form /\ editor'[s].touched = editor[s].touched
             /\ editor'[s].view = editor[s].view
             /\ editor'[s].hasProfile = editor[s].hasProfile
             /\ editor'[s].chosen = editor[s].chosen
             /\ ~editor'[s].crossed => ~editor[s].crossed /\ s = call[c].by
  <2>1. editor'[s] = [editor[s] EXCEPT !.crossed = @ \/ s # call[c].by]
    BY DEF SetSport
  <2>2. editor[s] \in Editor
    BY <1>1
  <2>3. editor'[s].crossed = (editor[s].crossed \/ s # call[c].by)
    BY <2>1, <2>2 DEF Editor
  <2> QED BY <2>1, <2>2, <2>3 DEF Editor
<1> QED BY <1>2, <1>3

(* What a load leaves in the form, field by field.                          *)
LEMMA LoadedFacts ==
  ASSUME TypeOK, NEW c \in Calls, Loaded(c)
  PROVE  /\ call[c] \in Call /\ call[c].by \in Sessions /\ editor[call[c].by] \in Editor
         /\ editor' = [editor EXCEPT ![call[c].by] = editor'[call[c].by]]
         /\ call' = [call EXCEPT ![c] = None]
         /\ profile' = profile
         /\ call[c].state = "ok" =>
              /\ editor'[call[c].by].view = "form"
              /\ editor'[call[c].by].began = "profile"
              /\ editor'[call[c].by].form = call[c].answer.fields
              /\ editor'[call[c].by].stale = call[c].stale
              /\ editor'[call[c].by].chosen = call[c].answer.sports
              /\ editor'[call[c].by].crossed = call[c].stale
         /\ call[c].state # "ok" =>
              /\ editor'[call[c].by].view \in {"form", "failed"}
              /\ \/ editor'[call[c].by].began = "absent" /\ call[c].state = "absent"
                 \/ editor'[call[c].by].began \in {"blind", "torn"}
                 \/ /\ editor'[call[c].by].began = editor[call[c].by].began
                    /\ editor'[call[c].by].form = editor[call[c].by].form
              /\ editor'[call[c].by].touched = editor[call[c].by].touched
              /\ editor'[call[c].by].stale = editor[call[c].by].stale
              /\ editor'[call[c].by].hasProfile = editor[call[c].by].hasProfile
              /\ editor'[call[c].by].chosen = editor[call[c].by].chosen
              /\ editor'[call[c].by].crossed = editor[call[c].by].crossed
<1> DEFINE s == call[c].by
           ed == editor[s]
<1>1. /\ call[c] \in Call /\ s \in Sessions /\ ed \in Editor
      /\ call[c].state \in {"ok", "absent", "failed", "torn"}
      /\ editor \in [Sessions -> Editor]
  BY DEF Loaded, TypeOK, Call
<1>2. call' = [call EXCEPT ![c] = None] /\ profile' = profile
  BY DEF Loaded
<1>3. \E x : editor' = [editor EXCEPT ![s] = x]
  BY DEF Loaded
<1>4. editor' = [editor EXCEPT ![s] = editor'[s]]
  BY <1>1, <1>3
<1>5. CASE call[c].state = "ok"
  <2>1. editor'[s] =
          [ed EXCEPT !.view = "form", !.began = "profile", !.form = Filled(call[c].answer),
                     !.stale = call[c].stale, !.hasProfile = TRUE,
                     !.chosen = call[c].answer.sports, !.crossed = call[c].stale]
    BY <1>1, <1>5 DEF Loaded
  <2>2. /\ editor'[s].view = "form"
        /\ editor'[s].began = "profile"
        /\ editor'[s].form = call[c].answer.fields
        /\ editor'[s].stale = call[c].stale
        /\ editor'[s].chosen = call[c].answer.sports
        /\ editor'[s].crossed = call[c].stale
    BY <1>1, <2>1 DEF Editor, Filled
  <2> QED BY <1>1, <1>2, <1>4, <1>5, <2>2
<1>6. CASE call[c].state # "ok"
  <2>1. editor'[s] = Unfilled(ed, call[c].state)
    BY <1>1, <1>6 DEF Loaded
  <2>2. CASE ed.of.knows404 /\ call[c].state = "failed"
    <3>1. editor'[s] = [ed EXCEPT !.view = "failed"]
      BY <2>1, <2>2 DEF Unfilled
    <3>2. /\ editor'[s].view = "failed" /\ editor'[s].began = ed.began
          /\ editor'[s].form = ed.form /\ editor'[s].touched = ed.touched
          /\ editor'[s].stale = ed.stale /\ editor'[s].hasProfile = ed.hasProfile
          /\ editor'[s].chosen = ed.chosen /\ editor'[s].crossed = ed.crossed
      BY <1>1, <3>1 DEF Editor
    <3> QED BY <1>1, <1>2, <1>4, <1>6, <3>2
  <2>3. CASE ~(ed.of.knows404 /\ call[c].state = "failed")
    <3> DEFINE began == CASE call[c].state = "failed" -> "blind" [] OTHER -> call[c].state
    <3>1. \E form : editor'[s] = [ed EXCEPT !.view = "form", !.began = began, !.form = form]
      BY <2>1, <2>3 DEF Unfilled
    <3>2. began \in {"blind", "torn"} \/ (began = "absent" /\ call[c].state = "absent")
      BY <1>1, <1>6
    <3> HIDE DEF began
    <3>3. /\ editor'[s].view = "form" /\ editor'[s].began = began
          /\ editor'[s].touched = ed.touched
          /\ editor'[s].stale = ed.stale /\ editor'[s].hasProfile = ed.hasProfile
          /\ editor'[s].chosen = ed.chosen /\ editor'[s].crossed = ed.crossed
      BY <1>1, <3>1, ZenonT(60) DEF Editor
    <3> QED BY <1>1, <1>2, <1>4, <1>6, <3>2, <3>3
  <2> QED BY <2>2, <2>3
<1> QED BY <1>5, <1>6

LEMMA FormsKept ==
  TypeOK /\ FormsFit /\ CallsFit /\ AbsencesFit /\ [Next]_vars => FormsFit'
<1> SUFFICES ASSUME TypeOK, FormsFit, CallsFit, AbsencesFit, [Next]_vars, NEW s \in Sessions
             PROVE  FormFits(editor'[s], profile')
  BY DEF FormsFit
<1>a. /\ editor \in [Sessions -> Editor] /\ editor[s] \in Editor
      /\ FormFits(editor[s], profile)
  BY DEF TypeOK, FormsFit
<1>b. FormFits(Closed, profile) /\ Closed.began = "nothing"
  BY DEF FormFits, Closed
<1>c. ASSUME NEW o \in Sessions, NEW ed, editor' = [editor EXCEPT ![o] = ed], profile' = profile,
             FormFits(ed, profile)
      PROVE  FormFits(editor'[s], profile')
  BY <1>a, <1>c
<1>d. ASSUME editor' = editor, profile' = profile PROVE FormFits(editor'[s], profile')
  BY <1>a, <1>d
<1>e. ASSUME NEW o \in Sessions, NEW ed, editor' = [editor EXCEPT ![o] = ed], profile' = profile,
             ed.stale = editor[o].stale, ed.began = editor[o].began,
             ed.form = editor[o].form, ed.touched = editor[o].touched
      PROVE  FormFits(editor'[s], profile')
  <2>1. FormFits(editor[o], profile)
    BY DEF FormsFit
  <2>2. FormFits(ed, profile)
    BY <1>e, <2>1, SameForm
  <2> QED BY <1>c, <1>e, <2>2
<1>f. ASSUME NEW o \in Sessions, NEW ed, editor' = [editor EXCEPT ![o] = ed], profile' = profile,
             ed.began = "nothing"
      PROVE  FormFits(editor'[s], profile')
  BY <1>c, <1>f DEF FormFits
<1>1. ASSUME NEW o \in Sessions, Leave(o) PROVE FormFits(editor'[s], profile')
  BY <1>1, <1>b, <1>f DEF Leave
<1>2. ASSUME NEW o \in Sessions, NEW f \in Fields, NEW v \in Values \cup {""}, Type(o, f, v)
      PROVE  FormFits(editor'[s], profile')
  <2> DEFINE ed == [editor[o] EXCEPT !.form = [@ EXCEPT ![f] = v], !.touched = @ \cup {f}]
  <2>1. editor[o] \in Editor /\ FormFits(editor[o], profile)
    BY <1>a DEF FormsFit
  <2>2. editor' = [editor EXCEPT ![o] = ed]
    BY <1>2, <1>a, <2>1 DEF Type
  <2>3. /\ ed.stale = editor[o].stale /\ ed.began = editor[o].began
        /\ ed.form = [editor[o].form EXCEPT ![f] = v]
        /\ ed.touched = editor[o].touched \cup {f}
    BY <2>1 DEF Editor
  <2>4. \A g \in Fields : g # f => ed.form[g] = editor[o].form[g]
    <3>1. editor[o].form \in [Fields -> Values \cup {""}]
      BY <2>1 DEF Editor
    <3> QED BY <2>3, <3>1
  <2> HIDE DEF ed
  <2>5. FormFits(ed, profile)
    BY <2>1, <2>3, <2>4 DEF FormFits
  <2> QED BY <1>2, <1>c, <2>2, <2>5 DEF Type
<1>3. ASSUME NEW o \in Sessions, NEW c \in Calls, NEW k \in Editors[o], Open(o, k, c)
      PROVE  FormFits(editor'[s], profile')
  <2>1. [Closed EXCEPT !.of = k, !.view = "loading"].began = "nothing"
    BY DEF Closed
  <2> QED BY <1>3, <1>f, <2>1 DEF Open
<1>4. ASSUME NEW o \in Sessions, NEW c \in Calls, Submit(o, c)
      PROVE  FormFits(editor'[s], profile')
  <2> DEFINE ed == [editor[o] EXCEPT !.saving = TRUE]
  <2>1. editor' = [editor EXCEPT ![o] = ed] /\ profile' = profile /\ editor[o] \in Editor
    BY <1>4, <1>a DEF Submit
  <2>2. /\ ed.stale = editor[o].stale /\ ed.began = editor[o].began
        /\ ed.form = editor[o].form /\ ed.touched = editor[o].touched
    BY <2>1 DEF Editor
  <2> HIDE DEF ed
  <2> QED BY <2>1, <2>2, <1>e
<1>5. ASSUME NEW o \in Sessions, NEW c \in Calls, NEW k \in Sports, NEW to \in Levels,
             WriteSport(o, k, to, c)
      PROVE  FormFits(editor'[s], profile')
  <2>1. editor[o] \in Editor /\ profile' = profile
    BY <1>5, <1>a DEF WriteSport
  <2>2. \E x : editor' = [editor EXCEPT ![o] = [editor[o] EXCEPT !.pendingSport = k, !.crossed = x]]
    BY <1>5, <1>a DEF WriteSport
  <2>3. PICK x : editor' = [editor EXCEPT ![o] = [editor[o] EXCEPT !.pendingSport = k, !.crossed = x]]
    BY <2>2
  <2> DEFINE ed == [editor[o] EXCEPT !.pendingSport = k, !.crossed = x]
  <2>4. /\ ed.stale = editor[o].stale /\ ed.began = editor[o].began
        /\ ed.form = editor[o].form /\ ed.touched = editor[o].touched
    BY <2>1 DEF Editor
  <2> HIDE DEF ed
  <2>5. editor' = [editor EXCEPT ![o] = ed]
    BY <2>3 DEF ed
  <2> QED BY <2>1, <2>4, <2>5, <1>e
<1>6. ASSUME NEW c \in Calls, Loaded(c) PROVE FormFits(editor'[s], profile')
  <2> DEFINE o == call[c].by
  <2>1. /\ o \in Sessions
        /\ editor' = [editor EXCEPT ![o] = editor'[o]]
        /\ profile' = profile
        /\ FormFits(editor[o], profile)
        /\ call[c] # None /\ call[c].op = "load"
        /\ CallFits(call[c], profile)
    BY <1>6, LoadedFacts DEF FormsFit, CallsFit, Loaded
  <2>2. CASE call[c].state = "ok"
    <3>1. /\ editor'[o].form = call[c].answer.fields
          /\ editor'[o].began = "profile"
          /\ editor'[o].stale = call[c].stale
      BY <1>6, <2>2, LoadedFacts
    <3>2. ~call[c].stale => profile.exists /\ call[c].answer.fields = profile.fields
      BY <2>1, <2>2 DEF CallFits
    <3>3. FormFits(editor'[o], profile)
      BY <3>1, <3>2 DEF FormFits
    <3> QED BY <1>c, <2>1, <3>3
  <2>3. CASE call[c].state # "ok"
    <3>1. /\ \/ editor'[o].began = "absent" /\ call[c].state = "absent"
             \/ editor'[o].began \in {"blind", "torn"}
             \/ /\ editor'[o].began = editor[o].began
                /\ editor'[o].form = editor[o].form
          /\ editor'[o].touched = editor[o].touched
          /\ editor'[o].stale = editor[o].stale
      BY <1>6, <2>3, LoadedFacts
    <3>2. call[c].state = "absent" /\ ~editor[o].stale => ~profile.exists
      BY <2>1 DEF AbsencesFit
    <3>3. FormFits(editor'[o], profile)
      BY <2>1, <3>1, <3>2 DEF FormFits
    <3> QED BY <1>c, <2>1, <3>3
  <2> QED BY <2>2, <2>3
<1>7. ASSUME NEW c \in Calls, Saved(c) PROVE FormFits(editor'[s], profile')
  <2>1. call[c].by \in Sessions /\ editor[call[c].by] \in Editor /\ profile' = profile
    BY <1>7, <1>a DEF Saved, TypeOK, Call
  <2>2. CASE call[c].state = "failed"
    <3> DEFINE ed == [editor[call[c].by] EXCEPT !.saving = FALSE]
    <3>1. editor' = [editor EXCEPT ![call[c].by] = ed]
      BY <1>7, <1>a, <2>1, <2>2 DEF Saved, SaveFailed
    <3>2. /\ ed.stale = editor[call[c].by].stale /\ ed.began = editor[call[c].by].began
          /\ ed.form = editor[call[c].by].form /\ ed.touched = editor[call[c].by].touched
      BY <2>1 DEF Editor
    <3> HIDE DEF ed
    <3> QED BY <1>e, <2>1, <3>1, <3>2
  <2>3. CASE call[c].state # "failed"
    <3>1. editor' = [editor EXCEPT ![call[c].by] = Closed]
      BY <1>7, <2>3 DEF Saved
    <3> QED BY <1>b, <1>f, <2>1, <3>1
  <2> QED BY <2>2, <2>3
<1>8. ASSUME NEW c \in Calls, SportAnswered(c) PROVE FormFits(editor'[s], profile')
  <2> DEFINE ed == SportWritten(editor[call[c].by], call[c])
  <2>1. call[c].by \in Sessions /\ editor[call[c].by] \in Editor /\ profile' = profile
    BY <1>8, <1>a DEF SportAnswered, TypeOK, Call
  <2>2. editor' = [editor EXCEPT ![call[c].by] = ed]
    BY <1>8, <1>a, <2>1 DEF SportAnswered
  <2>3. /\ ed.stale = editor[call[c].by].stale /\ ed.began = editor[call[c].by].began
        /\ ed.form = editor[call[c].by].form /\ ed.touched = editor[call[c].by].touched
    BY <2>1 DEF Editor, SportWritten
  <2> HIDE DEF ed
  <2> QED BY <1>e, <2>1, <2>2, <2>3
<1>9. ASSUME NEW c \in Calls, SaveProfile(c) \/ PatchProfile(c)
      PROVE  FormFits(editor'[s], profile')
  <2>1. editor'[s].stale = TRUE
    BY <1>9, SetFieldsFacts DEF SaveProfile, PatchProfile
  <2> QED BY <2>1 DEF FormFits
<1>10. ASSUME NEW c \in Calls, SetSport(c) PROVE FormFits(editor'[s], profile')
  <2>1. /\ profile'.exists = profile.exists /\ profile'.fields = profile.fields
        /\ editor'[s].stale = editor[s].stale /\ editor'[s].began = editor[s].began
        /\ editor'[s].form = editor[s].form /\ editor'[s].touched = editor[s].touched
    BY <1>10, SetSportFacts
  <2> QED BY <1>a, <2>1, SameForm
<1>11. ASSUME NEW c \in Calls,
              TimesOut(c) \/ Drop(c) \/ ProfileByUserID(c) \/ Refuse(c) \/ SportReadBack(c) \/ PatchReads(c)
       PROVE  FormFits(editor'[s], profile')
  BY <1>11, <1>d DEF TimesOut, Drop, ProfileByUserID, Refuse, SportReadBack, PatchReads
<1>12. ASSUME NEW c \in Calls, NEW f \in Fields, NEW v \in Values \cup {""}, PatchArrives(c, f, v)
       PROVE  FormFits(editor'[s], profile')
  BY <1>12, <1>d DEF PatchArrives
<1>13. CASE UNCHANGED vars
  BY <1>13, <1>d DEF vars
<1> QED
  BY <1>1, <1>2, <1>3, <1>4, <1>5, <1>6, <1>7, <1>8, <1>9, <1>10, <1>11, <1>12, <1>13
     DEF Next, Respond, Serve, Levels

-----------------------------------------------------------------------------
(* Requests carry, or have read, what is stored.                            *)

(* A request just made has read nothing, and one that lost its device or    *)
(* failed carries nothing else than before.                                 *)
LEMMA NewCallFits ==
  ASSUME NEW by, NEW op, NEW item, NEW form, NEW p, op # "save"
  PROVE  CallFits(Request(by, op, item, form), p)
  BY DEF CallFits, Request

LEMMA DetachedFits ==
  ASSUME NEW k \in Call, NEW p, CallFits(k, p)
  PROVE  CallFits([k EXCEPT !.by = None], p)
<1> DEFINE d == [k EXCEPT !.by = None]
<1>1. /\ d.op = k.op /\ d.state = k.state /\ d.stale = k.stale /\ d.answer = k.answer
      /\ d.form = k.form /\ d.touched = k.touched /\ d.began = k.began
  BY DEF Call
<1> HIDE DEF d
<1>2. CallFits(d, p)
  BY <1>1 DEF CallFits, FormFits
<1> QED BY <1>2 DEF d

LEMMA OverFits ==
  ASSUME NEW k \in Call, NEW p, NEW st \in {"failed", "torn", "written"}
  PROVE  CallFits([k EXCEPT !.state = st], p)
<1>1. [k EXCEPT !.state = st].state = st
  BY DEF Call
<1> QED BY <1>1 DEF CallFits

LEMMA StaleFits ==
  ASSUME NEW k \in Call, NEW p
  PROVE  CallFits([k EXCEPT !.stale = TRUE], p)
<1>1. [k EXCEPT !.stale = TRUE].stale = TRUE
  BY DEF Call
<1> QED BY <1>1 DEF CallFits, FormFits

LEMMA CallsKept ==
  TypeOK /\ FormsFit /\ CallsFit /\ [Next]_vars => CallsFit'
<1> SUFFICES ASSUME TypeOK, FormsFit, CallsFit, [Next]_vars, NEW x \in Calls, call'[x] # None
             PROVE  CallFits(call'[x], profile')
  BY DEF CallsFit
<1>a. /\ call \in [Calls -> Call \cup {None}]
      /\ \A c \in Calls : call[c] # None => call[c] \in Call /\ CallFits(call[c], profile)
      /\ profile \in Profile
  BY DEF TypeOK, CallsFit
<1>b. ASSUME NEW c \in Calls, NEW k, call' = [call EXCEPT ![c] = k], profile' = profile,
             k = None \/ CallFits(k, profile)
      PROVE  CallFits(call'[x], profile')
  BY <1>a, <1>b
<1>c. ASSUME call' = call, profile' = profile PROVE CallFits(call'[x], profile')
  BY <1>a, <1>c
<1>d. ASSUME NEW s \in Sessions, call' = Detached(s), profile' = profile
      PROVE  CallFits(call'[x], profile')
  <2>1. CASE call'[x] = call[x]
    BY <2>1, <1>a, <1>d
  <2>2. CASE call[x] # None /\ call'[x] = [call[x] EXCEPT !.by = None]
    <3>1. CallFits([call[x] EXCEPT !.by = None], profile)
      BY <2>2, <1>a, DetachedFits
    <3> QED BY <2>2, <3>1, <1>d
  <2> QED BY <2>1, <2>2, <1>d, DetachedFacts
<1>1. ASSUME NEW s \in Sessions, Leave(s) PROVE CallFits(call'[x], profile')
  BY <1>1, <1>d DEF Leave
<1>2. ASSUME NEW s \in Sessions, NEW f \in Fields, NEW v \in Values \cup {""}, Type(s, f, v)
      PROVE  CallFits(call'[x], profile')
  BY <1>2, <1>c DEF Type
<1>3. ASSUME NEW s \in Sessions, NEW c \in Calls, NEW k \in Editors[s], Open(s, k, c)
      PROVE  CallFits(call'[x], profile')
  <2>1. CallFits(Request(s, "load", None, Blank), profile)
    BY NewCallFits
  <2> QED BY <1>3, <2>1, <1>b DEF Open
<1>4. ASSUME NEW s \in Sessions, NEW c \in Calls, Submit(s, c)
      PROVE  CallFits(call'[x], profile')
  <2> DEFINE k == [Request(s, "save", None, editor[s].form) EXCEPT
                     !.touched = editor[s].touched, !.began = editor[s].began,
                     !.stale = editor[s].stale]
  <2>1. /\ k.op = "save" /\ k.form = editor[s].form /\ k.touched = editor[s].touched
        /\ k.began = editor[s].began /\ k.stale = editor[s].stale
    BY DEF Request
  <2>2. call' = [call EXCEPT ![c] = k] /\ profile' = profile
    BY <1>4 DEF Submit
  <2> HIDE DEF k
  <2>3. FormFits(editor[s], profile)
    BY DEF FormsFit
  <2>4. FormFits(k, profile)
    BY <2>1, <2>3, SameForm
  <2>5. CallFits(k, profile)
    BY <2>1, <2>4 DEF CallFits
  <2> QED BY <2>2, <2>5, <1>b
<1>5. ASSUME NEW s \in Sessions, NEW c \in Calls, NEW k \in Sports, NEW to \in Levels,
             WriteSport(s, k, to, c)
      PROVE  CallFits(call'[x], profile')
  <2>1. CallFits(Request(s, "sport", <<k, to>>, Blank), profile)
    BY NewCallFits
  <2> QED BY <1>5, <2>1, <1>b DEF WriteSport
<1>6. ASSUME NEW c \in Calls, Loaded(c) \/ SportAnswered(c) \/ Drop(c)
      PROVE  CallFits(call'[x], profile')
  <2>1. call' = [call EXCEPT ![c] = None] /\ profile' = profile
    BY <1>6 DEF Loaded, SportAnswered, Drop
  <2> QED BY <1>b, <2>1
<1>7. ASSUME NEW c \in Calls, Saved(c) PROVE CallFits(call'[x], profile')
  <2>1. call[c].by \in Sessions
    BY <1>7, <1>a DEF Saved, Call
  <2>2. (call' = [call EXCEPT ![c] = None] \/ call' = Detached(call[c].by)) /\ profile' = profile
    BY <1>7 DEF Saved
  <2> QED BY <1>b, <1>d, <2>1, <2>2
<1>8. ASSUME NEW c \in Calls, TimesOut(c) PROVE CallFits(call'[x], profile')
  <2>1. call[c] \in Call /\ CallFits(call[c], profile) /\ profile' = profile
    BY <1>8, <1>a DEF TimesOut
  <2>2. /\ CallFits([call[c] EXCEPT !.state = "failed"], profile)
        /\ CallFits([call[c] EXCEPT !.state = "torn"], profile)
        /\ CallFits([call[c] EXCEPT !.by = None], profile)
    BY <2>1, OverFits, DetachedFits
  <2>3. \/ call' = [call EXCEPT ![c] = [call[c] EXCEPT !.state = "failed"]]
        \/ call' = [call EXCEPT ![c] = [call[c] EXCEPT !.state = "torn"]]
        \/ \E d \in Calls : call' = [call EXCEPT ![c] = [call[c] EXCEPT !.state = "failed"],
                                              ![d] = [call[c] EXCEPT !.by = None]]
    BY <1>8, <1>a, <2>1 DEF TimesOut
  <2> QED BY <2>1, <2>2, <2>3, <1>a
<1>9. ASSUME NEW c \in Calls, ProfileByUserID(c) PROVE CallFits(call'[x], profile')
  <2> DEFINE k == [call[c] EXCEPT !.state = IF profile.exists THEN "ok" ELSE "absent",
                                  !.answer = profile, !.stale = FALSE]
  <2>1. call[c] \in Call /\ profile' = profile /\ call[c].op = "load"
    BY <1>9, <1>a DEF ProfileByUserID, Arrived
  <2>2. call' = [call EXCEPT ![c] = k]
    BY <1>9, <1>a, <2>1 DEF ProfileByUserID
  <2>3. /\ k.op = "load" /\ k.answer = profile
        /\ k.state = IF profile.exists THEN "ok" ELSE "absent"
    BY <2>1 DEF Call
  <2> HIDE DEF k
  <2>4. CallFits(k, profile)
    BY <2>3 DEF CallFits
  <2> QED BY <2>1, <2>2, <2>4, <1>b
<1>10. ASSUME NEW c \in Calls, Refuse(c) PROVE CallFits(call'[x], profile')
  <2>1. call[c] \in Call /\ profile' = profile
    BY <1>10, <1>a DEF Refuse
  <2>2. call' = [call EXCEPT ![c] = [call[c] EXCEPT !.state = "failed"]]
    BY <1>10, <1>a, <2>1 DEF Refuse
  <2> QED BY <2>1, <2>2, <1>b, OverFits
<1>11. ASSUME NEW c \in Calls, SportReadBack(c) PROVE CallFits(call'[x], profile')
  <2> DEFINE k == [call[c] EXCEPT !.state = "ok", !.answer = profile]
  <2>1. call[c] \in Call /\ profile' = profile /\ call[c].op = "sport"
    BY <1>11, <1>a DEF SportReadBack
  <2>2. call' = [call EXCEPT ![c] = k]
    BY <1>11, <1>a, <2>1 DEF SportReadBack
  <2>3. k.op = "sport"
    BY <2>1 DEF Call
  <2> HIDE DEF k
  <2>4. CallFits(k, profile)
    BY <2>3 DEF CallFits
  <2> QED BY <2>1, <2>2, <2>4, <1>b
<1>12. ASSUME NEW c \in Calls, PatchReads(c) PROVE CallFits(call'[x], profile')
  <2> DEFINE k == [call[c] EXCEPT !.state = "read", !.answer = profile, !.stale = FALSE]
  <2>1. call[c] \in Call /\ profile' = profile /\ call[c].op = "patch"
    BY <1>12, <1>a DEF PatchReads, Arrived
  <2>2. call' = [call EXCEPT ![c] = k] \/ call' = [call EXCEPT ![c] = None]
    BY <1>12, <1>a, <2>1 DEF PatchReads
  <2>3. k.op = "patch" /\ k.answer = profile
    BY <2>1 DEF Call
  <2> HIDE DEF k
  <2>4. CallFits(k, profile)
    BY <2>3 DEF CallFits
  <2> QED BY <2>1, <2>2, <2>4, <1>b
<1>13. ASSUME NEW c \in Calls, SaveProfile(c) PROVE CallFits(call'[x], profile')
  <2>1. call[c] \in Call /\ call[c].op = "save"
    BY <1>13, <1>a DEF SaveProfile, Arrived
  <2>2. call'[x] = IF x = c THEN [call[c] EXCEPT !.state = "ok"]
                   ELSE IF call[x] = None THEN None ELSE [call[x] EXCEPT !.stale = TRUE]
    BY <1>13 DEF SaveProfile, Others
  <2>3. CASE x = c
    <3>1. call'[x].op = "save" /\ call'[x].state = "ok"
      BY <2>1, <2>2, <2>3 DEF Call
    <3> QED BY <3>1 DEF CallFits
  <2>4. CASE x # c
    <3>1. call[x] \in Call /\ call'[x] = [call[x] EXCEPT !.stale = TRUE]
      BY <2>2, <2>4, <1>a
    <3> QED BY <3>1, StaleFits
  <2> QED BY <2>3, <2>4
<1>14. ASSUME NEW c \in Calls, PatchProfile(c) PROVE CallFits(call'[x], profile')
  <2>1. call'[x] = IF x = c \/ call[x] = None THEN None ELSE [call[x] EXCEPT !.stale = TRUE]
    BY <1>14 DEF PatchProfile, Others
  <2>2. call[x] \in Call /\ call'[x] = [call[x] EXCEPT !.stale = TRUE]
    BY <2>1, <1>a
  <2> QED BY <2>2, StaleFits
<1>15. ASSUME NEW c \in Calls, SetSport(c) PROVE CallFits(call'[x], profile')
  <2>1. call[c] \in Call /\ call[c].op = "sport"
    BY <1>15, <1>a DEF SetSport, Arrived
  <2>2. profile'.exists = profile.exists /\ profile'.fields = profile.fields
    BY <1>15, SetSportFacts
  <2>3. call'[x] = IF x = c THEN [call[c] EXCEPT !.state = "written"]
                   ELSE IF call[x] = None \/ call[x].op # "load" THEN call[x]
                   ELSE [call[x] EXCEPT !.stale = TRUE]
    BY <1>15 DEF SetSport
  <2>4. CASE x = c
    BY <2>1, <2>3, <2>4, OverFits
  <2>5. CASE x # c /\ call[x].op = "load"
    <3>1. call[x] \in Call /\ call'[x] = [call[x] EXCEPT !.stale = TRUE]
      BY <2>3, <2>5, <1>a
    <3> QED BY <3>1, StaleFits
  <2>6. CASE x # c /\ call[x].op # "load"
    <3>1. call'[x] = call[x] /\ CallFits(call[x], profile)
      BY <2>3, <2>6, <1>a
    <3> QED BY <2>2, <2>6, <3>1 DEF CallFits, FormFits
  <2> QED BY <2>4, <2>5, <2>6
<1>16. ASSUME NEW c \in Calls, NEW f \in Fields, NEW v \in Values \cup {""}, PatchArrives(c, f, v)
       PROVE  CallFits(call'[x], profile')
  <2>1. CallFits(Request(None, "patch", f, [g \in Fields |-> v]), profile)
    BY DEF CallFits, Request
  <2> QED BY <1>16, <2>1, <1>b DEF PatchArrives
<1>17. CASE UNCHANGED vars
  BY <1>17, <1>c DEF vars
<1> QED
  BY <1>1, <1>2, <1>3, <1>4, <1>5, <1>6, <1>7, <1>8, <1>9, <1>10, <1>11, <1>12, <1>13, <1>14,
     <1>15, <1>16, <1>17
     DEF Next, Respond, Serve, Levels

-----------------------------------------------------------------------------
(* How the requests and the form of one device move.                        *)

(* A request of a device was one before, or the device just made it.        *)
LEMMA CallMoves ==
  ASSUME TypeOK, [Next]_vars, NEW s \in Sessions, NEW x \in Calls,
         call'[x] # None, call'[x].by = s
  PROVE  \/ /\ call[x] # None /\ call[x].by = s /\ call'[x].op = call[x].op
            /\ call'[x].op = "load" /\ call'[x].state = "absent" =>
                 call[x].state = "absent" \/ (~profile.exists /\ profile' = profile)
            /\ call'[x].op = "sport" /\ call'[x].state = "ok" =>
                 \/ call[x].state = "ok" /\ call'[x].answer = call[x].answer
                 \/ call'[x].answer = profile /\ profile' = profile
         \/ \E k \in Editors[s] : Open(s, k, x)
         \/ Submit(s, x)
         \/ \E k \in Sports, to \in Levels : WriteSport(s, k, to, x)
<1> DEFINE Old == /\ call[x] # None /\ call[x].by = s /\ call'[x].op = call[x].op
                  /\ call'[x].op = "load" /\ call'[x].state = "absent" =>
                       call[x].state = "absent" \/ (~profile.exists /\ profile' = profile)
                  /\ call'[x].op = "sport" /\ call'[x].state = "ok" =>
                       \/ call[x].state = "ok" /\ call'[x].answer = call[x].answer
                       \/ call'[x].answer = profile /\ profile' = profile
           New == \/ \E k \in Editors[s] : Open(s, k, x)
                  \/ Submit(s, x)
                  \/ \E k \in Sports, to \in Levels : WriteSport(s, k, to, x)
<1> SUFFICES Old \/ New
  OBVIOUS
<1>a. /\ call \in [Calls -> Call \cup {None}]
      /\ \A c \in Calls : call[c] # None => call[c] \in Call
  BY DEF TypeOK
<1>b. CASE call'[x] = call[x]
  BY <1>b
<1>c. ASSUME NEW o \in Sessions, call' = Detached(o) PROVE Old
  <2>1. CASE call[x] # None /\ call'[x] = [call[x] EXCEPT !.by = None]
    <3>1. call'[x].by = None
      BY <2>1, <1>a DEF Call
    <3> QED BY <3>1, EditorsAssumption
  <2> QED BY <2>1, <1>c, DetachedFacts
<1>d. ASSUME NEW c \in Calls, NEW k, call' = [call EXCEPT ![c] = k], x # c PROVE Old
  BY <1>d, <1>a
<1>e. ASSUME NEW st, call[x] # None, call'[x] = [call[x] EXCEPT !.state = st],
             st \in {"failed", "torn", "written"}
      PROVE  Old
  <2>1. call[x] \in Call
    BY <1>e, <1>a
  <2>2. call'[x].by = call[x].by /\ call'[x].op = call[x].op /\ call'[x].state = st
    BY <2>1, <1>e DEF Call
  <2> QED BY <2>2, <1>e
<1>f. ASSUME call[x] # None, call'[x] = [call[x] EXCEPT !.stale = TRUE] PROVE Old
  <2>1. call[x] \in Call
    BY <1>f, <1>a
  <2>2. /\ call'[x].by = call[x].by /\ call'[x].op = call[x].op
        /\ call'[x].state = call[x].state /\ call'[x].answer = call[x].answer
    BY <2>1, <1>f DEF Call
  <2> QED BY <2>2, <1>f
<1>1. ASSUME NEW o \in Sessions, Leave(o) PROVE Old
  BY <1>1, <1>c DEF Leave
<1>2. ASSUME NEW o \in Sessions, NEW f \in Fields, NEW v \in Values \cup {""}, Type(o, f, v)
      PROVE  Old
  BY <1>2, <1>b DEF Type
<1>3. ASSUME NEW o \in Sessions, NEW c \in Calls, NEW k \in Editors[o], Open(o, k, c)
      PROVE  Old \/ New
  <2>1. call' = [call EXCEPT ![c] = Request(o, "load", None, Blank)]
    BY <1>3 DEF Open
  <2>2. CASE x = c
    <3>1. o = s
      BY <2>1, <2>2, <1>a DEF Request
    <3> QED BY <1>3, <2>2, <3>1
  <2> QED BY <2>1, <2>2, <1>d
<1>4. ASSUME NEW o \in Sessions, NEW c \in Calls, Submit(o, c) PROVE Old \/ New
  <2>1. PICK t, b, l : call' = [call EXCEPT ![c] =
          [Request(o, "save", None, editor[o].form) EXCEPT !.touched = t, !.began = b, !.stale = l]]
    BY <1>4 DEF Submit
  <2>2. CASE x = c
    <3>1. o = s
      BY <2>1, <2>2, <1>a DEF Request
    <3> QED BY <1>4, <2>2, <3>1
  <2> QED BY <2>1, <2>2, <1>d
<1>5. ASSUME NEW o \in Sessions, NEW c \in Calls, NEW k \in Sports, NEW to \in Levels,
             WriteSport(o, k, to, c)
      PROVE  Old \/ New
  <2>1. call' = [call EXCEPT ![c] = Request(o, "sport", <<k, to>>, Blank)]
    BY <1>5 DEF WriteSport
  <2>2. CASE x = c
    <3>1. o = s
      BY <2>1, <2>2, <1>a DEF Request
    <3> QED BY <1>5, <2>2, <3>1
  <2> QED BY <2>1, <2>2, <1>d
<1>6. ASSUME NEW c \in Calls, Loaded(c) \/ SportAnswered(c) \/ Drop(c) PROVE Old
  <2>1. call' = [call EXCEPT ![c] = None]
    BY <1>6 DEF Loaded, SportAnswered, Drop
  <2> QED BY <2>1, <1>a, <1>d
<1>7. ASSUME NEW c \in Calls, Saved(c) PROVE Old
  <2>1. call[c].by \in Sessions
    BY <1>7, <1>a DEF Saved, Call
  <2>2. call' = [call EXCEPT ![c] = None] \/ call' = Detached(call[c].by)
    BY <1>7 DEF Saved
  <2> QED BY <2>1, <2>2, <1>a, <1>c, <1>d
<1>8. ASSUME NEW c \in Calls, TimesOut(c) PROVE Old
  <2>1. call[c] \in Call /\ call[c] # None
    BY <1>8, <1>a DEF TimesOut
  <2>2. [call[c] EXCEPT !.by = None].by = None
    BY <2>1 DEF Call
  <2>3. \/ call'[x] = call[x]
        \/ x = c /\ call'[x] = [call[c] EXCEPT !.state = "failed"]
        \/ x = c /\ call'[x] = [call[c] EXCEPT !.state = "torn"]
        \/ call'[x] = [call[c] EXCEPT !.by = None]
    BY <1>8, <1>a, <2>1 DEF TimesOut
  <2> QED BY <2>1, <2>2, <2>3, <1>b, <1>e, EditorsAssumption
<1>9. ASSUME NEW c \in Calls, ProfileByUserID(c) PROVE Old
  <2> DEFINE k == [call[c] EXCEPT !.state = IF profile.exists THEN "ok" ELSE "absent",
                                  !.answer = profile, !.stale = FALSE]
  <2>1. call[c] \in Call /\ call[c] # None /\ profile' = profile /\ call[c].op = "load"
    BY <1>9, <1>a DEF ProfileByUserID, Arrived
  <2>2. call' = [call EXCEPT ![c] = k]
    BY <1>9, <1>a, <2>1 DEF ProfileByUserID
  <2>3. /\ k.op = "load" /\ k.by = call[c].by
        /\ k.state = IF profile.exists THEN "ok" ELSE "absent"
    BY <2>1 DEF Call
  <2> HIDE DEF k
  <2> QED BY <2>1, <2>2, <2>3, <1>a, <1>d
<1>10. ASSUME NEW c \in Calls, Refuse(c) PROVE Old
  <2>1. call[c] \in Call /\ call[c] # None
    BY <1>10, <1>a DEF Refuse
  <2>2. call' = [call EXCEPT ![c] = [call[c] EXCEPT !.state = "failed"]]
    BY <1>10, <1>a, <2>1 DEF Refuse
  <2> QED BY <2>1, <2>2, <1>a, <1>d, <1>e
<1>11. ASSUME NEW c \in Calls, SportReadBack(c) PROVE Old
  <2> DEFINE k == [call[c] EXCEPT !.state = "ok", !.answer = profile]
  <2>1. call[c] \in Call /\ call[c] # None /\ profile' = profile /\ call[c].op = "sport"
    BY <1>11, <1>a DEF SportReadBack
  <2>2. call' = [call EXCEPT ![c] = k]
    BY <1>11, <1>a, <2>1 DEF SportReadBack
  <2>3. k.op = "sport" /\ k.by = call[c].by /\ k.answer = profile
    BY <2>1 DEF Call
  <2> HIDE DEF k
  <2> QED BY <2>1, <2>2, <2>3, <1>a, <1>d
<1>12. ASSUME NEW c \in Calls, PatchReads(c) PROVE Old
  <2> DEFINE k == [call[c] EXCEPT !.state = "read", !.answer = profile, !.stale = FALSE]
  <2>1. call[c] \in Call /\ call[c] # None /\ profile' = profile /\ call[c].op = "patch"
    BY <1>12, <1>a DEF PatchReads, Arrived
  <2>2. call' = [call EXCEPT ![c] = k] \/ call' = [call EXCEPT ![c] = None]
    BY <1>12, <1>a, <2>1 DEF PatchReads
  <2>3. k.op = "patch" /\ k.by = call[c].by
    BY <2>1 DEF Call
  <2> HIDE DEF k
  <2> QED BY <2>1, <2>2, <2>3, <1>a, <1>d
<1>13. ASSUME NEW c \in Calls, SaveProfile(c) PROVE Old
  <2>1. call[c] \in Call /\ call[c] # None /\ call[c].op = "save"
    BY <1>13, <1>a DEF SaveProfile, Arrived
  <2>2. call'[x] = IF x = c THEN [call[c] EXCEPT !.state = "ok"]
                   ELSE IF call[x] = None THEN None ELSE [call[x] EXCEPT !.stale = TRUE]
    BY <1>13 DEF SaveProfile, Others
  <2>3. CASE x = c
    <3>1. call'[x].op = "save" /\ call'[x].by = call[x].by
      BY <2>1, <2>2, <2>3 DEF Call
    <3> QED BY <2>1, <2>3, <3>1
  <2> QED BY <2>2, <2>3, <1>f
<1>14. ASSUME NEW c \in Calls, PatchProfile(c) PROVE Old
  <2>1. call'[x] = IF x = c \/ call[x] = None THEN None ELSE [call[x] EXCEPT !.stale = TRUE]
    BY <1>14 DEF PatchProfile, Others
  <2> QED BY <2>1, <1>f
<1>15. ASSUME NEW c \in Calls, SetSport(c) PROVE Old
  <2>1. call[c] \in Call /\ call[c] # None
    BY <1>15, <1>a DEF SetSport, Arrived
  <2>2. call'[x] = IF x = c THEN [call[c] EXCEPT !.state = "written"]
                   ELSE IF call[x] = None \/ call[x].op # "load" THEN call[x]
                   ELSE [call[x] EXCEPT !.stale = TRUE]
    BY <1>15 DEF SetSport
  <2> QED BY <2>1, <2>2, <1>b, <1>e, <1>f
<1>16. ASSUME NEW c \in Calls, NEW f \in Fields, NEW v \in Values \cup {""}, PatchArrives(c, f, v)
       PROVE  Old
  <2>1. call' = [call EXCEPT ![c] = Request(None, "patch", f, [g \in Fields |-> v])]
    BY <1>16 DEF PatchArrives
  <2>2. x # c
    BY <2>1, <1>a, EditorsAssumption DEF Request
  <2> QED BY <2>1, <2>2, <1>d
<1>17. CASE UNCHANGED vars
  BY <1>17, <1>b DEF vars
<1> QED
  BY <1>1, <1>2, <1>3, <1>4, <1>5, <1>6, <1>7, <1>8, <1>9, <1>10, <1>11, <1>12, <1>13, <1>14,
     <1>15, <1>16, <1>17
     DEF Next, Respond, Serve, Levels

(* A form is opened, filled, closed with all that its device waited for, or *)
(* stays what it is: what it knows to be stale or crossed remains so.       *)
Stays(s) ==
  /\ editor'[s].view = editor[s].view
  /\ editor'[s].hasProfile = editor[s].hasProfile
  /\ ~editor'[s].stale => ~editor[s].stale
  /\ ~editor'[s].crossed => ~editor[s].crossed

LEMMA FormMoves ==
  ASSUME TypeOK, [Next]_vars, NEW s \in Sessions
  PROVE  \/ \E c \in Calls, k \in Editors[s] : Open(s, k, c)
         \/ \E c \in Calls : Loaded(c) /\ call[c].by = s
         \/ editor'[s] = Closed /\ call' = Detached(s) /\ profile' = profile
         \/ \E c \in Calls : SportAnswered(c) /\ call[c].by = s /\ Stays(s)
         \/ editor'[s].chosen = editor[s].chosen /\ Stays(s)
<1> DEFINE Moves == \/ \E c \in Calls, k \in Editors[s] : Open(s, k, c)
                    \/ \E c \in Calls : Loaded(c) /\ call[c].by = s
                    \/ editor'[s] = Closed /\ call' = Detached(s) /\ profile' = profile
                    \/ \E c \in Calls : SportAnswered(c) /\ call[c].by = s /\ Stays(s)
                    \/ editor'[s].chosen = editor[s].chosen /\ Stays(s)
<1> SUFFICES Moves
  OBVIOUS
<1>a. editor \in [Sessions -> Editor] /\ editor[s] \in Editor
  BY DEF TypeOK
<1>b. CASE editor'[s] = editor[s]
  BY <1>b DEF Stays
<1>c. ASSUME NEW o \in Sessions, NEW ed, editor' = [editor EXCEPT ![o] = ed], o # s PROVE Moves
  BY <1>a, <1>b, <1>c
<1>1. ASSUME NEW o \in Sessions, Leave(o) PROVE Moves
  <2>1. editor' = [editor EXCEPT ![o] = Closed] /\ call' = Detached(o) /\ profile' = profile
    BY <1>1 DEF Leave
  <2> QED BY <2>1, <1>a, <1>c
<1>2. ASSUME NEW o \in Sessions, NEW f \in Fields, NEW v \in Values \cup {""}, Type(o, f, v)
      PROVE  Moves
  <2>1. editor' = [editor EXCEPT ![o] =
                     [editor[o] EXCEPT !.form = [@ EXCEPT ![f] = v], !.touched = @ \cup {f}]]
    BY <1>2, <1>a DEF Type, Editor, TypeOK
  <2>2. CASE o = s
    <3>1. editor'[s] = [editor[s] EXCEPT !.form = [@ EXCEPT ![f] = v], !.touched = @ \cup {f}]
      BY <2>1, <2>2, <1>a
    <3> QED BY <3>1, <1>a DEF Stays, Editor
  <2> QED BY <2>1, <2>2, <1>c
<1>3. ASSUME NEW o \in Sessions, NEW c \in Calls, NEW k \in Editors[o], Open(o, k, c) PROVE Moves
  <2>1. CASE o = s
    BY <1>3, <2>1
  <2> QED BY <1>3, <2>1, <1>c DEF Open
<1>4. ASSUME NEW o \in Sessions, NEW c \in Calls, Submit(o, c) PROVE Moves
  <2>1. editor' = [editor EXCEPT ![o] = [editor[o] EXCEPT !.saving = TRUE]]
    BY <1>4, <1>a DEF Submit
  <2>2. CASE o = s
    <3>1. editor'[s] = [editor[s] EXCEPT !.saving = TRUE]
      BY <2>1, <2>2, <1>a
    <3> QED BY <3>1, <1>a DEF Stays, Editor
  <2> QED BY <2>1, <2>2, <1>c
<1>5. ASSUME NEW o \in Sessions, NEW c \in Calls, NEW k \in Sports, NEW to \in Levels,
             WriteSport(o, k, to, c)
      PROVE  Moves
  <2>1. \E x : /\ editor' = [editor EXCEPT ![o] = [editor[o] EXCEPT !.pendingSport = k, !.crossed = x]]
               /\ ~x => ~editor[o].crossed
    BY <1>5, <1>a DEF WriteSport
  <2>2. PICK x : /\ editor' = [editor EXCEPT ![o] = [editor[o] EXCEPT !.pendingSport = k, !.crossed = x]]
                 /\ ~x => ~editor[o].crossed
    BY <2>1
  <2>3. CASE o = s
    <3>1. editor'[s] = [editor[s] EXCEPT !.pendingSport = k, !.crossed = x]
      BY <2>2, <2>3, <1>a
    <3> QED BY <3>1, <2>2, <2>3, <1>a DEF Stays, Editor
  <2> QED BY <2>2, <2>3, <1>c
<1>6. ASSUME NEW c \in Calls, Loaded(c) PROVE Moves
  <2>1. CASE call[c].by = s
    BY <1>6, <2>1
  <2>2. CASE call[c].by # s
    BY <1>6, <2>2, <1>c, LoadedFacts
  <2> QED BY <2>1, <2>2
<1>7. ASSUME NEW c \in Calls, Saved(c) PROVE Moves
  <2>1. call[c].by \in Sessions /\ editor[call[c].by] \in Editor /\ profile' = profile
    BY <1>7, <1>a DEF Saved, TypeOK, Call
  <2>2. CASE call[c].by # s
    <3>1. \E x : editor' = [editor EXCEPT ![call[c].by] = x]
      BY <1>7, <1>a, <2>1 DEF Saved
    <3> QED BY <3>1, <2>1, <2>2, <1>c
  <2>3. CASE call[c].by = s /\ call[c].state = "failed"
    <3>1. editor'[s] = [editor[s] EXCEPT !.saving = FALSE]
      BY <1>7, <1>a, <2>3 DEF Saved, SaveFailed
    <3> QED BY <3>1, <1>a DEF Stays, Editor
  <2>4. CASE call[c].by = s /\ call[c].state # "failed"
    <3>1. editor' = [editor EXCEPT ![s] = Closed] /\ call' = Detached(s)
      BY <1>7, <2>4 DEF Saved
    <3> QED BY <3>1, <2>1, <1>a
  <2> QED BY <2>2, <2>3, <2>4
<1>8. ASSUME NEW c \in Calls, SportAnswered(c) PROVE Moves
  <2>1. call[c].by \in Sessions /\ editor[call[c].by] \in Editor
    BY <1>8, <1>a DEF SportAnswered, TypeOK, Call
  <2>2. editor' = [editor EXCEPT ![call[c].by] = SportWritten(editor[call[c].by], call[c])]
    BY <1>8, <1>a, <2>1 DEF SportAnswered
  <2>3. CASE call[c].by = s
    <3>1. editor'[s] = SportWritten(editor[s], call[c])
      BY <2>2, <2>3, <1>a
    <3>2. Stays(s)
      BY <3>1, <1>a, ZenonT(60) DEF Stays, SportWritten, Editor
    <3> QED BY <1>8, <2>3, <3>2
  <2> QED BY <2>1, <2>2, <2>3, <1>c
<1>9. ASSUME NEW c \in Calls, SaveProfile(c) \/ PatchProfile(c) PROVE Moves
  <2>1. editor'[s] = [editor[s] EXCEPT !.stale = TRUE]
    BY <1>9, SetFieldsFacts DEF SaveProfile, PatchProfile
  <2> QED BY <2>1, <1>a DEF Stays, Editor
<1>10. ASSUME NEW c \in Calls, SetSport(c) PROVE Moves
  BY <1>10, SetSportFacts DEF Stays
<1>11. ASSUME NEW c \in Calls,
              TimesOut(c) \/ Drop(c) \/ ProfileByUserID(c) \/ Refuse(c) \/ SportReadBack(c) \/ PatchReads(c)
       PROVE  Moves
  BY <1>11, <1>b DEF TimesOut, Drop, ProfileByUserID, Refuse, SportReadBack, PatchReads
<1>12. ASSUME NEW c \in Calls, NEW f \in Fields, NEW v \in Values \cup {""}, PatchArrives(c, f, v)
       PROVE  Moves
  BY <1>12, <1>b DEF PatchArrives
<1>13. CASE UNCHANGED vars
  BY <1>13, <1>b DEF vars
<1> QED
  BY <1>1, <1>2, <1>3, <1>4, <1>5, <1>6, <1>7, <1>8, <1>9, <1>10, <1>11, <1>12, <1>13
     DEF Next, Respond, Serve, Levels

(* How the profile itself moves: it is created or overwritten by a write    *)
(* that makes every form stale, or one sport of it is set.                  *)
LEMMA ProfileMoves ==
  ASSUME TypeOK, [Next]_vars
  PROVE  \/ profile' = profile
         \/ /\ profile'.sports = profile.sports
            /\ \A s \in Sessions : editor'[s].stale = TRUE
         \/ /\ profile'.exists = profile.exists
            /\ \E c \in Calls : SetSport(c)
<1> DEFINE Moves == \/ profile' = profile
                    \/ /\ profile'.sports = profile.sports
                       /\ \A s \in Sessions : editor'[s].stale = TRUE
                    \/ /\ profile'.exists = profile.exists
                       /\ \E c \in Calls : SetSport(c)
<1>1. ASSUME NEW c \in Calls, SaveProfile(c) \/ PatchProfile(c) PROVE Moves
  BY <1>1, SetFieldsFacts DEF SaveProfile, PatchProfile
<1>2. ASSUME NEW c \in Calls, SetSport(c) PROVE Moves
  BY <1>2, SetSportFacts
<1>3. CASE profile' = profile
  BY <1>3
<1>4. ASSUME NEW c \in Calls, Respond(c) \/ Drop(c) PROVE Moves
  BY <1>1, <1>2, <1>3, <1>4
     DEF Respond, Serve, TimesOut, Loaded, Saved, SportAnswered, Drop, ProfileByUserID, Refuse,
         SportReadBack, PatchReads
<1>5. ASSUME NEW s \in Sessions,
             \/ Leave(s)
             \/ \E f \in Fields, v \in Values \cup {""} : Type(s, f, v)
             \/ \E c \in Calls :
                  \/ \E k \in Editors[s] : Open(s, k, c)
                  \/ Submit(s, c)
                  \/ \E k \in Sports, to \in Levels : WriteSport(s, k, to, c)
      PROVE  Moves
  BY <1>3, <1>5 DEF Leave, Type, Open, Submit, WriteSport
<1>6. ASSUME NEW c \in Calls, NEW f \in Fields, NEW v \in Values \cup {""}, PatchArrives(c, f, v)
      PROVE  Moves
  BY <1>3, <1>6 DEF PatchArrives
<1>7. CASE UNCHANGED vars
  BY <1>3, <1>7 DEF vars
<1> QED BY <1>4, <1>5, <1>6, <1>7 DEF Next, Levels

(* A sport that is being written stays so until its form has the answer or  *)
(* is closed.                                                               *)
LEMMA SportPersists ==
  ASSUME TypeOK, [Next]_vars, NEW s \in Sessions, NEW x \in Calls,
         call[x] # None, call[x].by = s, call[x].op = "sport"
  PROVE  \/ call'[x] # None /\ call'[x].by = s /\ call'[x].op = "sport"
         \/ SportAnswered(x)
         \/ editor'[s] = Closed
<1> DEFINE Still == call'[x] # None /\ call'[x].by = s /\ call'[x].op = "sport"
<1>a. /\ call \in [Calls -> Call \cup {None}] /\ call[x] \in Call
      /\ \A c \in Calls : call[c] # None => call[c] \in Call
      /\ editor \in [Sessions -> Editor]
  BY DEF TypeOK
<1>b. CASE call'[x] = call[x]
  BY <1>b
<1>c. ASSUME NEW k, call'[x] = k, k \in Call, k.by = call[x].by, k.op = call[x].op PROVE Still
  BY <1>c, NoneAssumption
<1>d. ASSUME NEW c \in Calls, NEW k, call' = [call EXCEPT ![c] = k], c # x PROVE Still
  BY <1>d, <1>a
<1>e. ASSUME NEW st \in {"ok", "failed", "torn", "written"}, call'[x] = [call[x] EXCEPT !.state = st]
      PROVE  Still
  <2>1. [call[x] EXCEPT !.state = st] \in Call
    BY <1>a, CallTypes
  <2>2. [call[x] EXCEPT !.state = st].by = call[x].by /\ [call[x] EXCEPT !.state = st].op = call[x].op
    BY <1>a DEF Call
  <2> QED BY <1>c, <1>e, <2>1, <2>2
<1>f. ASSUME call'[x] = [call[x] EXCEPT !.stale = TRUE] PROVE Still
  <2>1. [call[x] EXCEPT !.stale = TRUE] \in Call
    BY <1>a, CallTypes
  <2>2. [call[x] EXCEPT !.stale = TRUE].by = call[x].by /\ [call[x] EXCEPT !.stale = TRUE].op = call[x].op
    BY <1>a DEF Call
  <2> QED BY <1>c, <1>f, <2>1, <2>2
<1>g. ASSUME NEW o \in Sessions, call' = Detached(o), o # s PROVE Still
  BY <1>g, <1>b DEF Detached, Underway
<1>1. ASSUME NEW o \in Sessions, Leave(o) PROVE Still \/ editor'[s] = Closed
  <2>1. editor' = [editor EXCEPT ![o] = Closed] /\ call' = Detached(o)
    BY <1>1 DEF Leave
  <2> QED BY <2>1, <1>a, <1>g
<1>2. ASSUME NEW o \in Sessions,
             \/ \E f \in Fields, v \in Values \cup {""} : Type(o, f, v)
             \/ \E c \in Calls :
                  \/ \E k \in Editors[o] : Open(o, k, c)
                  \/ Submit(o, c)
                  \/ \E k \in Sports, to \in Levels : WriteSport(o, k, to, c)
      PROVE  Still
  <2>1. \/ call' = call
        \/ \E c \in Calls : call[c] = None /\ \E k : call' = [call EXCEPT ![c] = k]
    BY <1>2 DEF Type, Open, Submit, WriteSport
  <2> QED BY <2>1, <1>b, <1>d
<1>3. ASSUME NEW c \in Calls, Loaded(c) \/ Saved(c) \/ SportAnswered(c) \/ Drop(c)
      PROVE  Still \/ SportAnswered(x) \/ editor'[s] = Closed
  <2>1. CASE x = c
    <3>1. SportAnswered(c)
      BY <1>3, <2>1, EditorsAssumption DEF Loaded, Saved, Drop
    <3> QED BY <2>1, <3>1
  <2>2. CASE x # c /\ call' = [call EXCEPT ![c] = None]
    BY <2>2, <1>d
  <2>3. CASE Saved(c) /\ call' # [call EXCEPT ![c] = None]
    <3>1. /\ call' = Detached(call[c].by) /\ editor' = [editor EXCEPT ![call[c].by] = Closed]
          /\ call[c].by \in Sessions
      BY <2>3, <1>a DEF Saved, Call
    <3> QED BY <3>1, <1>a, <1>g
  <2> QED BY <1>3, <2>1, <2>2, <2>3 DEF Loaded, SportAnswered, Drop
<1>4. ASSUME NEW c \in Calls, TimesOut(c) PROVE Still
  <2>1. call[c] \in Call
    BY <1>4, <1>a DEF TimesOut
  <2>2. \/ call'[x] = call[x]
        \/ x = c /\ call'[x] = [call[x] EXCEPT !.state = "failed"]
        \/ x = c /\ call'[x] = [call[x] EXCEPT !.state = "torn"]
    BY <1>4, <1>a, <2>1 DEF TimesOut
  <2> QED BY <2>2, <1>b, <1>e
<1>5. ASSUME NEW c \in Calls, ProfileByUserID(c) \/ PatchReads(c) PROVE Still
  <2>1. x # c
    BY <1>5 DEF ProfileByUserID, PatchReads, Arrived
  <2>2. \E k : call' = [call EXCEPT ![c] = k]
    <3>1. CASE ProfileByUserID(c)
      <4>1. call[c] \in Call
        BY <1>a, <3>1 DEF ProfileByUserID, Arrived
      <4>2. call' = [call EXCEPT ![c] =
                       [call[c] EXCEPT !.state = IF profile.exists THEN "ok" ELSE "absent",
                                       !.answer = profile, !.stale = FALSE]]
        BY <3>1, <4>1, <1>a DEF ProfileByUserID
      <4> QED BY <4>2
    <3>2. CASE PatchReads(c)
      BY <3>2 DEF PatchReads
    <3> QED BY <1>5, <3>1, <3>2
  <2> QED BY <2>1, <2>2, <1>d
<1>6. ASSUME NEW c \in Calls, Refuse(c) PROVE Still
  <2>1. call' = [call EXCEPT ![c] = [call[c] EXCEPT !.state = "failed"]]
    BY <1>6, <1>a DEF Refuse
  <2> QED BY <2>1, <1>a, <1>d, <1>e
<1>7. ASSUME NEW c \in Calls, SportReadBack(c) PROVE Still
  <2> DEFINE k == [call[c] EXCEPT !.state = "ok", !.answer = profile]
  <2>1. call[c] \in Call /\ profile \in Profile
    BY <1>7, <1>a DEF SportReadBack, TypeOK
  <2>2. call' = [call EXCEPT ![c] = k]
    BY <1>7, <1>a, <2>1 DEF SportReadBack
  <2>3. k \in Call
    BY <2>1, CallTypes
  <2>4. k.by = call[c].by /\ k.op = call[c].op
    BY <2>1 DEF Call
  <2> HIDE DEF k
  <2> QED BY <2>2, <2>3, <2>4, <1>a, <1>c, <1>d
<1>8. ASSUME NEW c \in Calls, SaveProfile(c) \/ PatchProfile(c) PROVE Still
  <2>1. x # c
    BY <1>8 DEF SaveProfile, PatchProfile, Arrived
  <2>2. call'[x] = [call[x] EXCEPT !.stale = TRUE]
    BY <1>8, <2>1 DEF SaveProfile, PatchProfile, Others
  <2> QED BY <2>2, <1>f
<1>9. ASSUME NEW c \in Calls, SetSport(c) PROVE Still
  <2>1. \/ call'[x] = [call[x] EXCEPT !.state = "written"]
        \/ call'[x] = call[x]
    BY <1>9 DEF SetSport
  <2> QED BY <2>1, <1>b, <1>e
<1>10. ASSUME NEW c \in Calls, NEW f \in Fields, NEW v \in Values \cup {""}, PatchArrives(c, f, v)
       PROVE  Still
  BY <1>10, <1>d DEF PatchArrives
<1>11. CASE UNCHANGED vars
  BY <1>11, <1>b DEF vars
<1> QED
  BY <1>1, <1>2, <1>3, <1>4, <1>5, <1>6, <1>7, <1>8, <1>9, <1>10, <1>11
     DEF Next, Respond, Serve

-----------------------------------------------------------------------------
(* One load at a time, one sport at a time.                                 *)

(* After these steps a device waits for nothing, or only for its new load.  *)
LEMMA NothingLeft ==
  ASSUME TypeOK, LoadsAlone, NEW s \in Sessions, NEW x \in Calls, call'[x] # None, call'[x].by = s
  PROVE  /\ ~(editor'[s] = Closed /\ call' = Detached(s))
         /\ \A c \in Calls : ~(Loaded(c) /\ call[c].by = s)
         /\ \A c \in Calls, k \in Editors[s] :
              Open(s, k, c) => /\ x = c /\ call'[x].op = "load" /\ call'[x].state = "sent"
                               /\ editor'[s].view = "loading" /\ ~editor'[s].hasProfile
<1>a. call \in [Calls -> Call \cup {None}] /\ editor \in [Sessions -> Editor]
  BY DEF TypeOK
<1>1. ASSUME call' = Detached(s) PROVE FALSE
  <2>1. ASSUME call[x] # None, call'[x] = [call[x] EXCEPT !.by = None] PROVE call'[x].by = None
    BY <2>1, <1>a DEF Call
  <2>2. \/ call'[x] = None
        \/ call'[x] = call[x] /\ call[x].by # s
        \/ call[x] # None /\ call'[x] = [call[x] EXCEPT !.by = None]
    BY <1>1, DetachedFacts
  <2> QED BY <2>1, <2>2, EditorsAssumption
<1>2. ASSUME NEW c \in Calls, Loaded(c), call[c].by = s PROVE FALSE
  <2>1. call' = [call EXCEPT ![c] = None] /\ call[c] # None /\ call[c].op = "load"
    BY <1>2 DEF Loaded
  <2>2. x # c /\ call[x] # None /\ call[x].by = s
    BY <2>1, <1>a
  <2> QED BY <1>2, <2>1, <2>2 DEF LoadsAlone
<1>3. ASSUME NEW c \in Calls, NEW k \in Editors[s], Open(s, k, c)
      PROVE  /\ x = c /\ call'[x].op = "load" /\ call'[x].state = "sent"
             /\ editor'[s].view = "loading" /\ ~editor'[s].hasProfile
  <2>1. /\ call' = [call EXCEPT ![c] = Request(s, "load", None, Blank)]
        /\ editor' = [editor EXCEPT ![s] = [Closed EXCEPT !.of = k, !.view = "loading"]]
        /\ editor[s].view = "closed"
    BY <1>3 DEF Open
  <2>2. x = c
    <3>1. x # c => call[x] # None /\ call[x].by = s
      BY <2>1, <1>a
    <3> QED BY <2>1, <3>1 DEF LoadsAlone
  <2>3. call'[x].op = "load" /\ call'[x].state = "sent"
    BY <2>1, <2>2, <1>a DEF Request
  <2>4. editor'[s].view = "loading" /\ ~editor'[s].hasProfile
    BY <2>1, <1>a DEF Closed
  <2> QED BY <2>2, <2>3, <2>4
<1> QED BY <1>1, <1>2, <1>3

(* What a device has just asked for, other than a load, it asked for from   *)
(* its form.                                                                *)
LEMMA AskedFromForm ==
  ASSUME TypeOK, NEW s \in Sessions, NEW x \in Calls
  PROVE  /\ Submit(s, x) =>
              editor[s].view = "form" /\ call'[x].op = "save" /\ call[x] = None
         /\ \A k \in Sports, to \in Levels :
              WriteSport(s, k, to, x) =>
                /\ editor[s].view = "form" /\ call'[x].op = "sport" /\ call'[x].state = "sent"
                /\ call[x] = None
                /\ \A y \in Calls : y # x => call'[y] = call[y]
                /\ ~editor'[s].crossed => \A y \in Underway(s) : call[y].op # "sport"
<1>a. call \in [Calls -> Call \cup {None}] /\ editor \in [Sessions -> Editor] /\ editor[s] \in Editor
  BY DEF TypeOK
<1>1. Submit(s, x) => editor[s].view = "form" /\ call'[x].op = "save" /\ call[x] = None
  BY <1>a DEF Submit, Request
<1>2. ASSUME NEW k \in Sports, NEW to \in Levels, WriteSport(s, k, to, x)
      PROVE  /\ editor[s].view = "form" /\ call'[x].op = "sport" /\ call'[x].state = "sent"
             /\ call[x] = None
             /\ \A y \in Calls : y # x => call'[y] = call[y]
             /\ ~editor'[s].crossed => \A y \in Underway(s) : call[y].op # "sport"
  <2>1. /\ call' = [call EXCEPT ![x] = Request(s, "sport", <<k, to>>, Blank)] /\ call[x] = None
        /\ editor[s].view = "form"
    BY <1>2 DEF WriteSport, SportPicker
  <2>2. call'[x].op = "sport" /\ call'[x].state = "sent"
    BY <2>1, <1>a DEF Request
  <2> DEFINE crossed == editor[s].crossed \/ \E y \in Underway(s) : call[y].op = "sport"
  <2>3. editor'[s] = [editor[s] EXCEPT !.pendingSport = k, !.crossed = crossed]
    BY <1>2, <1>a DEF WriteSport
  <2>4. editor'[s].crossed = crossed
    <3> HIDE DEF crossed
    <3> QED BY <2>3, <1>a DEF Editor
  <2> QED BY <2>1, <2>2, <2>4, <1>a
<1> QED BY <1>1, <1>2

LEMMA LoadsAloneKept == TypeOK /\ LoadsAlone /\ [Next]_vars => LoadsAlone'
<1> SUFFICES ASSUME TypeOK, LoadsAlone, [Next]_vars, NEW s \in Sessions, NEW x \in Calls,
                    call'[x] # None, call'[x].by = s
             PROVE  /\ editor'[s].view # "closed"
                    /\ call'[x].op = "load" <=> editor'[s].view = "loading"
                    /\ \A d \in Calls :
                         call'[x].op = "load" /\ call'[d] # None /\ call'[d].by = s => d = x
  BY DEF LoadsAlone
<1>1. ASSUME NEW c \in Calls, NEW k \in Editors[s], Open(s, k, c)
      PROVE  /\ editor'[s].view = "loading" /\ call'[x].op = "load"
             /\ \A d \in Calls : call'[d] # None /\ call'[d].by = s => d = x
  BY <1>1, NothingLeft
<1>2. CASE \E c \in Calls, k \in Editors[s] : Open(s, k, c)
  BY <1>1, <1>2
<1>3. CASE Stays(s) /\ ~\E c \in Calls, k \in Editors[s] : Open(s, k, c)
  <2>1. ASSUME NEW d \in Calls, call'[d] # None, call'[d].by = s
        PROVE  \/ call[d] # None /\ call[d].by = s /\ call'[d].op = call[d].op
               \/ editor[s].view = "form" /\ call'[d].op # "load"
    BY <2>1, <1>3, CallMoves, AskedFromForm
  <2>2. editor'[s].view = editor[s].view
    BY <1>3 DEF Stays
  <2> QED BY <2>1, <2>2 DEF LoadsAlone
<1> QED BY <1>2, <1>3, NothingLeft, FormMoves

LEMMA AbsencesKept == TypeOK /\ LoadsAlone /\ AbsencesFit /\ [Next]_vars => AbsencesFit'
<1> SUFFICES ASSUME TypeOK, LoadsAlone, AbsencesFit, [Next]_vars, NEW s \in Sessions, NEW x \in Calls,
                    call'[x] # None, call'[x].by = s, call'[x].op = "load",
                    call'[x].state = "absent", ~editor'[s].stale
             PROVE  ~profile'.exists
  BY DEF AbsencesFit
<1>1. ~\E k \in Editors[s] : Open(s, k, x)
  BY NothingLeft
<1>2. /\ call[x] # None /\ call[x].by = s /\ call[x].op = "load"
      /\ call[x].state = "absent" \/ (~profile.exists /\ profile' = profile)
  BY <1>1, CallMoves, AskedFromForm
<1>3. Stays(s)
  <2>1. ~\E c \in Calls, k \in Editors[s] : Open(s, k, c)
    BY NothingLeft
  <2> QED BY <2>1, NothingLeft, FormMoves
<1>4. CASE call[x].state = "absent"
  <2>1. ~profile.exists
    BY <1>2, <1>3, <1>4 DEF AbsencesFit, Stays
  <2>2. profile'.exists = profile.exists
    BY ProfileMoves
  <2> QED BY <2>1, <2>2
<1> QED BY <1>2, <1>4

LEMMA SportsKept == TypeOK /\ LoadsAlone /\ SportsFit /\ [Next]_vars => SportsFit'
<1> SUFFICES ASSUME TypeOK, LoadsAlone, SportsFit, [Next]_vars, NEW s \in Sessions, NEW x \in Calls,
                    call'[x] # None, call'[x].by = s, call'[x].op = "sport", ~editor'[s].crossed
             PROVE  /\ call'[x].state = "ok" => call'[x].answer.sports = profile'.sports
                    /\ \A d \in Calls :
                         call'[d] # None /\ call'[d].by = s /\ call'[d].op = "sport" => d = x
  BY DEF SportsFit
<1>1. Stays(s) /\ ~editor[s].crossed
  <2>1. ~\E c \in Calls, k \in Editors[s] : Open(s, k, c)
    BY NothingLeft
  <2> QED BY <2>1, NothingLeft, FormMoves DEF Stays
<1>2. ASSUME NEW d \in Calls, call'[d] # None, call'[d].by = s, call'[d].op = "sport"
      PROVE  \/ call[d] # None /\ call[d].by = s /\ call[d].op = "sport"
             \/ /\ call[d] = None /\ call'[d].state = "sent"
                /\ \A y \in Calls : y # d => call'[y] = call[y]
                /\ \A y \in Underway(s) : call[y].op # "sport"
  <2>1. ~\E k \in Editors[s] : Open(s, k, d)
    BY <1>2, NothingLeft
  <2> QED BY <1>2, <2>1, CallMoves, AskedFromForm
<1>3. ASSUME NEW d \in Calls, call'[d] # None, call'[d].by = s, call'[d].op = "sport"
      PROVE  d = x
  <2>1. CASE call[d] # None /\ call[d].by = s /\ call[d].op = "sport"
    BY <2>1, <1>1, <1>2 DEF SportsFit, Underway
  <2>2. CASE ~(call[d] # None /\ call[d].by = s /\ call[d].op = "sport")
    BY <2>2, <1>2, <1>3 DEF Underway
  <2> QED BY <2>1, <2>2
<1>4. ASSUME call'[x].state = "ok" PROVE call'[x].answer.sports = profile'.sports
  <2>1. call[x] # None /\ call[x].by = s /\ call[x].op = "sport"
    BY <1>2, <1>4
  <2>2. ~\E k \in Editors[s] : Open(s, k, x)
    BY NothingLeft
  <2>3. \/ call[x].state = "ok" /\ call'[x].answer = call[x].answer
        \/ call'[x].answer = profile /\ profile' = profile
    BY <1>4, <2>1, <2>2, CallMoves, AskedFromForm
  <2>4. ASSUME call[x].state = "ok" PROVE profile'.sports = profile.sports
    <3>1. ASSUME NEW c \in Calls, SetSport(c) PROVE FALSE
      <4>1. call[c].by = s /\ call[c] # None /\ call[c].op = "sport" /\ call[c].state = "sent"
        BY <3>1, SetSportFacts, ZenonT(60) DEF SetSport, Arrived
      <4> QED BY <4>1, <2>1, <2>4, <1>1 DEF SportsFit
    <3> QED BY <3>1, ProfileMoves
  <2> QED BY <2>1, <2>3, <2>4, <1>1 DEF SportsFit
<1> QED BY <1>3, <1>4

LEMMA ChosenKept ==
  TypeOK /\ CallsFit /\ LoadsAlone /\ SportsFit /\ ChosenIsStored /\ [Next]_vars => ChosenIsStored'
<1> SUFFICES ASSUME TypeOK, CallsFit, LoadsAlone, SportsFit, ChosenIsStored, [Next]_vars,
                    NEW s \in Sessions, editor'[s].hasProfile, ~editor'[s].crossed,
                    \A c \in Calls : call'[c] # None /\ call'[c].by = s => call'[c].op # "sport"
             PROVE  editor'[s].chosen = profile'.sports
  BY DEF ChosenIsStored, Underway
<1>a. editor \in [Sessions -> Editor] /\ call \in [Calls -> Call \cup {None}]
  BY DEF TypeOK
<1>b. editor'[s] # Closed
  BY DEF Closed
<1>1. CASE \E c \in Calls, k \in Editors[s] : Open(s, k, c)
  <2>1. PICK k : editor' = [editor EXCEPT ![s] = [Closed EXCEPT !.of = k, !.view = "loading"]]
    BY <1>1 DEF Open
  <2>2. ~editor'[s].hasProfile
    BY <2>1, <1>a DEF Closed
  <2> QED BY <2>2
<1>2. ASSUME NEW c \in Calls, Loaded(c), call[c].by = s PROVE editor'[s].chosen = profile'.sports
  <2>1. call[c] # None /\ call[c].op = "load" /\ CallFits(call[c], profile)
    BY <1>2 DEF Loaded, CallsFit
  <2>2. CASE call[c].state = "ok"
    <3>1. /\ editor'[s].chosen = call[c].answer.sports /\ editor'[s].crossed = call[c].stale
          /\ profile' = profile
      BY <1>2, <2>2, LoadedFacts
    <3> QED BY <2>1, <2>2, <3>1 DEF CallFits
  <2>3. CASE call[c].state # "ok"
    <3>1. /\ editor'[s].hasProfile = editor[s].hasProfile /\ editor'[s].chosen = editor[s].chosen
          /\ editor'[s].crossed = editor[s].crossed /\ profile' = profile
      BY <1>2, <2>3, LoadedFacts
    <3>2. \A y \in Underway(s) : call[y].op # "sport"
      BY <1>2, <2>1 DEF LoadsAlone, Underway
    <3> QED BY <3>1, <3>2 DEF ChosenIsStored
  <2> QED BY <2>2, <2>3
<1>3. ASSUME NEW c \in Calls, SportAnswered(c), call[c].by = s, ~editor[s].crossed
      PROVE  editor'[s].chosen = profile'.sports
  <2>1. call[c] # None /\ call[c].op = "sport" /\ profile' = profile /\ editor[s] \in Editor
    BY <1>3, <1>a DEF SportAnswered
  <2>2. editor'[s] = SportWritten(editor[s], call[c])
    BY <1>3, <1>a DEF SportAnswered
  <2>3. call[c].state = "ok"
    <3>1. call[c].state # "ok" => editor'[s].crossed
      BY <2>1, <2>2 DEF SportWritten, Editor
    <3> QED BY <3>1
  <2>4. editor'[s].chosen = call[c].answer.sports
    BY <2>1, <2>2, <2>3 DEF SportWritten, Editor
  <2> QED BY <1>3, <2>1, <2>3, <2>4 DEF SportsFit
<1>4. CASE /\ editor'[s].chosen = editor[s].chosen /\ Stays(s)
           /\ ~\E c \in Calls : SportAnswered(c) /\ call[c].by = s
  <2>1. editor[s].hasProfile /\ ~editor[s].crossed
    BY <1>4 DEF Stays
  <2>2. \A c \in Calls : call[c] # None /\ call[c].by = s => call[c].op # "sport"
    BY <1>4, <1>b, SportPersists
  <2>3. editor[s].chosen = profile.sports
    BY <2>1, <2>2 DEF ChosenIsStored, Underway
  <2>4. ASSUME NEW c \in Calls, SetSport(c) PROVE FALSE
    <3>1. call[c].by = s /\ call[c] # None /\ call[c].op = "sport"
      BY <2>4, SetSportFacts DEF SetSport, Arrived
    <3> QED BY <2>2, <3>1
  <2>5. profile'.sports = profile.sports
    BY <2>4, ProfileMoves
  <2> QED BY <1>4, <2>3, <2>5
<1> QED BY <1>b, <1>1, <1>2, <1>3, <1>4, FormMoves DEF Stays

(* The inductive invariant.                                                 *)
LEMMA NextIInv == IInv /\ [Next]_vars => IInv'
  BY NextTypeOK, FormsKept, CallsKept, LoadsAloneKept, AbsencesKept, SportsKept, ChosenKept
     DEF IInv

LEMMA Invariance == Spec => []IInv
  BY InitIInv, NextIInv, PTL DEF Spec

-----------------------------------------------------------------------------
(* What follows.                                                            *)

(* Type correctness.                                                        *)
THEOREM TypeCorrect == Spec => []TypeOK
<1>1. IInv => TypeOK
  BY DEF IInv
<1> QED BY <1>1, Invariance, PTL

(* Once no sport is being written, the rows a form shows are those of       *)
(* player_sports, unless the writes overlapped, were lost, or others wrote. *)
THEOREM ShowsStoredSports == Spec => []ChosenIsStored
<1>1. IInv => ChosenIsStored
  BY DEF IInv
<1> QED BY <1>1, Invariance, PTL

(* A form that is open holds what is stored in every field its person did   *)
(* not touch, whatever else happened, as long as nobody wrote the fields    *)
(* since it was filled.                                                     *)
THEOREM FormsAreTrue == Spec => []FormsFit
<1>1. IInv => FormsFit
  BY DEF IInv
<1> QED BY <1>1, Invariance, PTL

(* PUT replaces all of the profile and PATCH writes it back whole, and yet  *)
(* neither changes what it was not asked to, unless the profile was written *)
(* since it was read or the form began blank over a load that went wrong.   *)
THEOREM UntouchedFieldsSurvive == Spec => WritesKeepTheRest
<1> DEFINE Kept == \A c \in Calls, f \in Fields :
                     /\ profile.exists
                     /\ call[c] # None /\ Keeps(call[c], f)
                     /\ SaveProfile(c) \/ PatchProfile(c)
                     => profile'.fields[f] = profile.fields[f]
<1>1. ASSUME IInv PROVE Kept
  <2> SUFFICES ASSUME NEW c \in Calls, NEW f \in Fields, profile.exists,
                      call[c] # None, Keeps(call[c], f), SaveProfile(c) \/ PatchProfile(c)
               PROVE  profile'.fields[f] = profile.fields[f]
    OBVIOUS
  <2>1. TypeOK /\ call[c] \in Call /\ CallFits(call[c], profile)
    BY <1>1 DEF IInv, TypeOK, CallsFit
  <2>2. CASE SaveProfile(c)
    <3>1. call[c].op = "save" /\ call[c].state = "sent"
      BY <2>2 DEF SaveProfile, Arrived
    <3>2. call[c].form[f] = profile.fields[f]
      BY <2>1, <3>1 DEF CallFits, FormFits, Keeps
    <3>3. profile'.fields = call[c].form
      BY <2>1, <2>2, SetFieldsFacts DEF SaveProfile
    <3> QED BY <3>2, <3>3
  <2>3. CASE PatchProfile(c)
    <3>1. call[c].op = "patch" /\ call[c].state = "read"
      BY <2>3 DEF PatchProfile
    <3>2. f # call[c].item /\ call[c].answer.fields = profile.fields
      BY <2>1, <3>1 DEF CallFits, Keeps
    <3>3. call[c].answer.fields \in [Fields -> Values \cup {""}]
      BY <2>1 DEF Call, Profile
    <3>4. Merged(call[c])[f] = profile.fields[f]
      BY <3>2, <3>3 DEF Merged
    <3>5. profile'.fields = Merged(call[c])
      BY <2>1, <2>3, SetFieldsFacts DEF PatchProfile
    <3> QED BY <3>4, <3>5
  <2> QED BY <2>2, <2>3
<1>2. IInv => [Kept]_vars
  BY <1>1
<1> QED BY <1>2, Invariance, PTL DEF WritesKeepTheRest
=============================================================================
