--------------------------- MODULE ProfileEditor ---------------------------
(***************************************************************************)
(* The profile of one account, a player's or an owner's, and the forms     *)
(* that edit it on the web and on the phone, in several sessions at once.  *)
(* A form is filled from a load, PUT replaces all of the profile, PATCH    *)
(* reads it, merges and writes it back, and sports are written one by one. *)
(* One field stands for display_name, one for all the optional ones.       *)
(***************************************************************************)
EXTENDS Naturals

CONSTANTS
  Sessions,   \* the devices the person is signed in on
  Editors,    \* the forms that may be opened on each device
  Sports,     \* the catalogue
  Values,     \* what can be typed into a field
  Calls,      \* bound: requests at once
  MaxActs,    \* bound: what the person does
  None

(* The four forms.  "named": the name begins as that of the account;        *)
(* "knows404": the form distinguishes a 404 from a failure; "sports": it    *)
(* has the SportPicker.                                                     *)
PlayerProfileEditPage ==
  [app |-> "web", role |-> "PLAYER", named |-> TRUE, knows404 |-> TRUE, sports |-> TRUE]
OwnerProfileEditPage ==
  [app |-> "web", role |-> "OWNER", named |-> FALSE, knows404 |-> FALSE, sports |-> FALSE]
PlayerProfileEditScreen ==
  [app |-> "mobile", role |-> "PLAYER", named |-> FALSE, knows404 |-> FALSE, sports |-> FALSE]
OwnerProfileEditScreen ==
  [app |-> "mobile", role |-> "OWNER", named |-> FALSE, knows404 |-> FALSE, sports |-> FALSE]

Forms == {PlayerProfileEditPage, OwnerProfileEditPage,
          PlayerProfileEditScreen, OwnerProfileEditScreen}

ASSUME EditorsAssumption ==
  /\ Editors \in [Sessions -> SUBSET Forms]
  /\ Values # {} /\ "" \notin Values
  /\ None \notin Sessions
  /\ MaxActs \in Nat

VARIABLES
  profile,   \* the rows of player_profiles (owner_profiles) and player_sports
  editor,    \* what each session has open
  call,      \* the requests
  acts

vars == <<profile, editor, call, acts>>

Fields == {"display_name", "optional"}
Blank  == [f \in Fields |-> ""]

NoSports == [k \in Sports |-> "no"]

(* A form.  "began", history: what it was filled from - the profile, a 404, *)
(* a load that failed ("blind") or one whose body broke off ("torn").       *)
(* "touched", history: the fields the person changed.  "stale", history:    *)
(* the fields were written since they were loaded.  "crossed", history:     *)
(* sport requests overlapped, were lost, or others wrote sports.            *)
Closed ==
  [of |-> None, view |-> "closed", began |-> "nothing", form |-> Blank, touched |-> {},
   stale |-> FALSE, hasProfile |-> FALSE, chosen |-> NoSports, pendingSport |-> None,
   crossed |-> FALSE, saving |-> FALSE]

NoProfile == [exists |-> FALSE, fields |-> Blank, sports |-> NoSports]

(* A request of session "by", or of nobody who waits for it any more.       *)
Request(by, op, item, form) ==
  [by |-> by, op |-> op, item |-> item, form |-> form, touched |-> {}, began |-> "nothing",
   stale |-> FALSE, state |-> "sent", answer |-> NoProfile]

(* The values of the variables.                                             *)
Levels == {"no", "yes", "positioned"}

Profile == [exists : {TRUE, FALSE},
            fields : [Fields -> Values \cup {""}],
            sports : [Sports -> Levels]]

Editor == [of : Forms \cup {None}, view : {"closed", "loading", "failed", "form"},
           began : {"nothing", "profile", "absent", "blind", "torn"},
           form : [Fields -> Values \cup {""}], touched : SUBSET Fields,
           stale : {TRUE, FALSE}, hasProfile : {TRUE, FALSE}, chosen : [Sports -> Levels],
           pendingSport : Sports \cup {None}, crossed : {TRUE, FALSE}, saving : {TRUE, FALSE}]

(* What a request names: a sport and its new row, or the patched field.     *)
Item(op) == CASE op = "sport" -> Sports \X Levels
              [] op = "patch" -> Fields
              [] OTHER -> {None}

Call == {k \in [by : Sessions \cup {None}, op : {"load", "save", "sport", "patch"},
                item : {None} \cup Fields \cup (Sports \X Levels),
                form : [Fields -> Values \cup {""}], touched : SUBSET Fields,
                began : {"nothing", "profile", "absent", "blind", "torn"},
                stale : {TRUE, FALSE},
                state : {"sent", "ok", "absent", "failed", "torn", "written", "read"},
                answer : Profile] : k.item \in Item(k.op)}

(* No request is not a request.                                             *)
ASSUME NoneAssumption == None \notin Call

Init ==
  /\ \/ profile = NoProfile
     \/ \E v \in Values : profile = [exists |-> TRUE, fields |-> [f \in Fields |-> v],
                                     sports |-> NoSports]
  /\ editor = [s \in Sessions |-> Closed]
  /\ call = [c \in Calls |-> None]
  /\ acts = 0

Act == acts < MaxActs /\ acts' = acts + 1

Underway(s) == {c \in Calls : call[c] # None /\ call[c].by = s}

(* What a session that leaves its form still has under way, with nobody to  *)
(* take the answer; the effect's load is aborted on the web.                *)
Detached(s) ==
  [c \in Calls |-> IF c \notin Underway(s) THEN call[c]
                   ELSE IF call[c].state # "sent" \/ call[c].op = "load" THEN None
                   ELSE [call[c] EXCEPT !.by = None]]

-----------------------------------------------------------------------------
(* The forms.                                                              *)

Open(s, k, c) ==
  /\ editor[s].view = "closed" /\ call[c] = None
  /\ Act
  /\ editor' = [editor EXCEPT ![s] = [Closed EXCEPT !.of = k, !.view = "loading"]]
  /\ call' = [call EXCEPT ![c] = Request(s, "load", None, Blank)]
  /\ UNCHANGED profile

(* Mutant: the optional fields of the profile are not put into the form.    *)
FilledPartly(p) == [p.fields EXCEPT !["optional"] = ""]

Filled(p) == p.fields

(* The form after a load that brought no profile.  The player's page knows  *)
(* a 404 from a failure, but takes a body that broke off for a 404; the     *)
(* other forms begin blank whatever happened.                               *)
Unfilled(ed, why) ==
  IF ed.of.knows404 /\ why = "failed" THEN [ed EXCEPT !.view = "failed"]
  ELSE [ed EXCEPT
    !.view  = "form",
    !.began = CASE why = "failed" -> "blind" [] OTHER -> why,
    !.form  = IF ed.of.named THEN [@ EXCEPT !["display_name"] = CHOOSE v \in Values : TRUE]
              ELSE @]

Loaded(c) ==
  /\ call[c] # None /\ call[c].op = "load" /\ call[c].by # None
  /\ call[c].state \in {"ok", "absent", "failed", "torn"}
  /\ editor' = [editor EXCEPT ![call[c].by] =
       IF call[c].state = "ok"
       THEN [@ EXCEPT !.view = "form", !.began = "profile", !.form = Filled(call[c].answer),
                      !.stale = call[c].stale, !.hasProfile = TRUE,
                      !.chosen = call[c].answer.sports, !.crossed = call[c].stale]
       ELSE Unfilled(@, call[c].state)]
  /\ call' = [call EXCEPT ![c] = None]
  /\ UNCHANGED <<profile, acts>>

Type(s, f, v) ==
  /\ editor[s].view = "form" /\ v # editor[s].form[f]
  /\ Act
  /\ editor' = [editor EXCEPT ![s].form[f] = v, ![s].touched = @ \cup {f}]
  /\ UNCHANGED <<profile, call>>

(* handleSubmit; SubmitButton is disabled while it runs.                    *)
Submit(s, c) ==
  /\ editor[s].view = "form" /\ ~editor[s].saving /\ call[c] = None
  /\ Act
  /\ editor' = [editor EXCEPT ![s].saving = TRUE]
  /\ call' = [call EXCEPT ![c] =
       [Request(s, "save", None, editor[s].form) EXCEPT
          !.touched = editor[s].touched, !.began = editor[s].began, !.stale = editor[s].stale]]
  /\ UNCHANGED profile

(* Mutant: a failed save leaves the button disabled.                        *)
SaveFailedStuck(ed) == ed

SaveFailed(ed) == [ed EXCEPT !.saving = FALSE]

(* A saved form navigates away; it also does when the body of the answer    *)
(* broke off.                                                               *)
Saved(c) ==
  /\ call[c] # None /\ call[c].op = "save" /\ call[c].by # None
  /\ call[c].state \in {"ok", "failed", "torn"}
  /\ LET s == call[c].by IN
     IF call[c].state = "failed"
     THEN /\ editor' = [editor EXCEPT ![s] = SaveFailed(@)]
          /\ call' = [call EXCEPT ![c] = None]
     ELSE editor' = [editor EXCEPT ![s] = Closed] /\ call' = Detached(s)
  /\ UNCHANGED <<profile, acts>>

(* "Done", or the way back.                                                 *)
Leave(s) ==
  /\ editor[s].view # "closed"
  /\ Act
  /\ editor' = [editor EXCEPT ![s] = Closed]
  /\ call' = Detached(s)
  /\ UNCHANGED profile

(* SportPicker: a row is disabled while it is the pending one, which a      *)
(* second row takes over.                                                   *)
SportPicker(ed) ==
  IF ed.view # "form" \/ ~ed.of.sports THEN {}
  ELSE {row \in (Sports \ {ed.pendingSport}) \X Levels :
          /\ row[2] # ed.chosen[row[1]]
          /\ row[2] = "positioned" => ed.chosen[row[1]] # "no"}

(* writeSport                                                               *)
WriteSport(s, k, to, c) ==
  /\ <<k, to>> \in SportPicker(editor[s]) /\ editor[s].hasProfile
  /\ call[c] = None
  /\ Act
  /\ editor' = [editor EXCEPT ![s].pendingSport = k,
                             ![s].crossed = @ \/ \E x \in Underway(s) : call[x].op = "sport"]
  /\ call' = [call EXCEPT ![c] = Request(s, "sport", <<k, to>>, Blank)]
  /\ UNCHANGED profile

(* Mutant: the row that was clicked is marked, not what the server says.    *)
SportWrittenLocally(ed, k) == [ed EXCEPT !.pendingSport = None]

SportWritten(ed, k) ==
  IF k.state = "ok" THEN [ed EXCEPT !.pendingSport = None, !.chosen = k.answer.sports]
  ELSE [ed EXCEPT !.pendingSport = None, !.crossed = TRUE]

SportAnswered(c) ==
  /\ call[c] # None /\ call[c].op = "sport" /\ call[c].by # None
  /\ call[c].state \in {"ok", "failed", "torn"}
  /\ editor' = [editor EXCEPT ![call[c].by] = SportWritten(@, call[c])]
  /\ call' = [call EXCEPT ![c] = None]
  /\ UNCHANGED <<profile, acts>>

-----------------------------------------------------------------------------
(* The network.                                                            *)

(* The client gives up on a request that may still be carried out.          *)
TimesOut(c) ==
  /\ call[c] # None /\ call[c].by # None /\ call[c].state \in {"sent", "written", "ok", "absent"}
  /\ \/ call' = [call EXCEPT ![c].state = "failed"]
     \/ /\ call[c].state = "sent" /\ call[c].op # "load"
        /\ \E d \in Calls : /\ call[d] = None
                            /\ call' = [call EXCEPT ![c].state = "failed",
                                                    ![d] = [call[c] EXCEPT !.by = None]]
     \/ /\ call[c].state = "ok" /\ editor[call[c].by].of.app = "web"
        /\ call' = [call EXCEPT ![c].state = "torn"]
  /\ UNCHANGED <<profile, editor, acts>>

(* A request nobody waits for is lost, or was answered.                     *)
Drop(c) ==
  /\ call[c] # None /\ call[c].by = None /\ call[c].op # "patch"
  /\ call' = [call EXCEPT ![c] = None]
  /\ UNCHANGED <<profile, editor, acts>>

-----------------------------------------------------------------------------
(* The server.                                                             *)

Arrived(c, op) == call[c] # None /\ call[c].op = op /\ call[c].state = "sent"

ProfileByUserID(c) ==
  /\ Arrived(c, "load")
  /\ call' = [call EXCEPT ![c].state = IF profile.exists THEN "ok" ELSE "absent",
                         ![c].answer = profile, ![c].stale = FALSE]
  /\ UNCHANGED <<profile, editor, acts>>

(* The fields become f: what others loaded, or have read, is stale.         *)
SetFields(f) ==
  /\ profile' = [profile EXCEPT !.exists = TRUE, !.fields = f]
  /\ editor' = [s \in Sessions |-> [editor[s] EXCEPT !.stale = TRUE]]

Others(c, k) ==
  [x \in Calls |-> IF x = c THEN k ELSE IF call[x] = None THEN None
                   ELSE [call[x] EXCEPT !.stale = TRUE]]

(* PUT: one upsert, refused by the validation without a name.               *)
SaveProfile(c) ==
  /\ Arrived(c, "save") /\ call[c].form["display_name"] # ""
  /\ SetFields(call[c].form)
  /\ call' = Others(c, [call[c] EXCEPT !.state = "ok"])
  /\ UNCHANGED acts

Refuse(c) ==
  /\ call[c] # None
  /\ \/ Arrived(c, "save") /\ call[c].form["display_name"] = ""
     \/ Arrived(c, "sport") /\ call[c].item[2] = "no" /\ profile.sports[call[c].item[1]] = "no"
  /\ call' = [call EXCEPT ![c].state = "failed"]
  /\ UNCHANGED <<profile, editor, acts>>

(* SetSport and RemoveSport: the row is written, then the profile read for  *)
(* the answer.                                                              *)
SetSport(c) ==
  /\ Arrived(c, "sport") /\ profile.exists
  /\ call[c].item[2] = "no" => profile.sports[call[c].item[1]] # "no"
  /\ profile' = [profile EXCEPT !.sports[call[c].item[1]] = call[c].item[2]]
  /\ editor' = [s \in Sessions |-> [editor[s] EXCEPT !.crossed = @ \/ s # call[c].by]]
  /\ call' = [x \in Calls |-> IF x = c THEN [call[c] EXCEPT !.state = "written"]
                              ELSE IF call[x] = None \/ call[x].op # "load" THEN call[x]
                              ELSE [call[x] EXCEPT !.stale = TRUE]]
  /\ UNCHANGED acts

SportReadBack(c) ==
  /\ call[c] # None /\ call[c].op = "sport" /\ call[c].state = "written"
  /\ call' = [call EXCEPT ![c].state = "ok", ![c].answer = profile]
  /\ UNCHANGED <<profile, editor, acts>>

(* PATCH of one field, which no client of this repository sends: the stored *)
(* profile is read and, merged with the field, written back whole.          *)
PatchArrives(c, f, v) ==
  /\ call[c] = None /\ (f = "display_name" => v # "")
  /\ Act
  /\ call' = [call EXCEPT ![c] = Request(None, "patch", f, [g \in Fields |-> v])]
  /\ UNCHANGED <<profile, editor>>

PatchReads(c) ==
  /\ Arrived(c, "patch")
  /\ call' = [call EXCEPT ![c] = IF profile.exists
                                THEN [@ EXCEPT !.state = "read", !.answer = profile, !.stale = FALSE]
                                ELSE None]
  /\ UNCHANGED <<profile, editor, acts>>

(* Mutant: the merge takes every field from the request.                    *)
MergedAll(k) == k.form

Merged(k) == [k.answer.fields EXCEPT ![k.item] = k.form[k.item]]

PatchProfile(c) ==
  /\ call[c] # None /\ call[c].op = "patch" /\ call[c].state = "read"
  /\ SetFields(Merged(call[c]))
  /\ call' = Others(c, None)
  /\ UNCHANGED acts

Serve(c) ==
  \/ ProfileByUserID(c) \/ SaveProfile(c) \/ Refuse(c) \/ SetSport(c) \/ SportReadBack(c)
  \/ PatchReads(c) \/ PatchProfile(c)

Respond(c) == Serve(c) \/ TimesOut(c) \/ Loaded(c) \/ Saved(c) \/ SportAnswered(c)

Next ==
  \/ \E s \in Sessions :
       \/ Leave(s)
       \/ \E f \in Fields, v \in Values \cup {""} : Type(s, f, v)
       \/ \E c \in Calls :
            \/ \E k \in Editors[s] : Open(s, k, c)
            \/ Submit(s, c)
            \/ \E k \in Sports, to \in Levels : WriteSport(s, k, to, c)
  \/ \E c \in Calls :
       \/ Respond(c) \/ Drop(c)
       \/ \E f \in Fields, v \in Values \cup {""} : PatchArrives(c, f, v)

Spec == Init /\ [][Next]_vars

(* Every request is answered or times out, and its handler runs on.         *)
FairSpec == Spec /\ \A c \in Calls : WF_vars(Respond(c))

-----------------------------------------------------------------------------
(* Properties.                                                             *)

(* The types the proofs rest on.                                            *)
TypeOK ==
  /\ profile \in Profile
  /\ editor \in [Sessions -> Editor]
  /\ call \in [Calls -> Call \cup {None}]

(* What the writes of all the forms do keep.  A save does not change a      *)
(* field the person did not touch, if the profile was not written since the *)
(* form loaded it and the form did not begin blank because its load failed  *)
(* or broke off; a patch keeps the fields it does not name, if the profile  *)
(* was not written since it was read.                                       *)
Keeps(k, f) ==
  IF k.op = "save" THEN f \notin k.touched /\ k.began \in {"profile", "absent"} /\ ~k.stale
  ELSE k.op = "patch" /\ f # k.item /\ ~k.stale

WritesKeepTheRest ==
  [][\A c \in Calls, f \in Fields :
       /\ profile.exists
       /\ call[c] # None /\ Keeps(call[c], f)
       /\ SaveProfile(c) \/ PatchProfile(c)
       => profile'.fields[f] = profile.fields[f]]_vars

(* The comment on PlayerProfileEditScreen as it stands: the profile is      *)
(* loaded first "to avoid silently clearing fields the player did not mean  *)
(* to touch" - whatever became of that load.                                *)
UntouchedSurvives ==
  [][\A c \in Calls, f \in Fields :
       /\ profile.exists
       /\ call[c] # None /\ call[c].op = "save" /\ f \notin call[c].touched /\ ~call[c].stale
       /\ SaveProfile(c)
       => profile'.fields[f] = profile.fields[f]]_vars

(* Once no sport is being written, the rows shown are the stored ones, if   *)
(* the writes did not overlap, were answered, and nobody else wrote any.    *)
ChosenIsStored ==
  \A s \in Sessions :
    /\ editor[s].hasProfile /\ ~editor[s].crossed
    /\ \A c \in Underway(s) : call[c].op # "sport"
    => editor[s].chosen = profile.sports

(* No form stays loading, saving or with a row disabled for ever.           *)
Busy(s) == editor[s].view = "loading" \/ editor[s].saving \/ editor[s].pendingSport # None
EditorSettles == \A s \in Sessions : Busy(s) ~> ~Busy(s)
=============================================================================
