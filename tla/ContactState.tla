---------------------------- MODULE ContactState ----------------------------
(***************************************************************************)
(* The data of the contact loop: the state Mousehole persists, the file it *)
(* is persisted in, and what one contact with MAM makes of it.  Cookies    *)
(* are opaque, but the empty string is apart: it is stored like a cookie   *)
(* and taken for none.  Of a contact's record only what decides the next   *)
(* step survives: whether MAM was reached, and for what.  An update that   *)
(* MAM throttled (429) or rejected (403) is persisted exactly like one it  *)
(* applied, so all of them are "updated" here.                             *)
(***************************************************************************)
CONSTANTS
    Cookie,        \* the usable mam_id values the operator or MAM may hand out
    EmptyCookie,   \* "": defined, so `??` keeps it; falsy, so `!cookie` does not see it
    NoCookie       \* an absent cookie: `undefined` in the code

ASSUME CookieAssumption ==
    NoCookie \notin Cookie /\ EmptyCookie \notin Cookie \cup {NoCookie}

CookieOrNone == Cookie \cup {NoCookie}

CookieValue == CookieOrNone \cup {EmptyCookie}

\* state/serde.ts State; "never" is an absent lastMamContact.
State ==
    [cookie : CookieValue, contact : {"never", "lookup", "updated", "unreachable"}]

NoState == [cookie |-> NoCookie, contact |-> "never"]

(***************************************************************************)
(* state.json (and state.json.tmp).  Of valid JSON that is not of the      *)
(* current version, a "legacy" file holds its cookie under currentCookie,  *)
(* as version 1 did, and a "foreign" one holds it elsewhere: a later       *)
(* version's, or a document without a version.  A "corrupt" file is torn,  *)
(* not JSON, or a current-version document that fails the schema or names  *)
(* an instant that does not parse.                                         *)
(***************************************************************************)
File == [format : {"absent", "current", "legacy", "foreign", "corrupt"}, state : State]

Absent  == [format |-> "absent",  state |-> NoState]
Corrupt == [format |-> "corrupt", state |-> NoState]

\* serializeState: what `write` puts in the file.
Serialized(s) == [format |-> "current", state |-> s]

\* Mutant: any file that cannot be read counts as a fresh install.
ReadableAlways(file) == TRUE

\* readIfExists throws on a corrupt file; only a missing one is a fresh install.
Readable(file) == file.format # "corrupt"

\* Mutant: a file of version 1 is dropped whole, cookie and all.
ParseCurrentOnly(file) == IF file.format = "current" THEN file.state ELSE NoState

\* findCookie: the credential of a file that is not of the current version.
FindCookie(file) ==
    IF file.format = "legacy" /\ file.state.cookie \in Cookie
    THEN file.state.cookie
    ELSE NoCookie

\* readIfExists + migrateToCurrent: of another version only FindCookie survives.
Parse(file) ==
    IF file.format = "current" THEN file.state
                               ELSE [NoState EXCEPT !.cookie = FindCookie(file)]

\* commitContact: the cookie of PUT /cookie replaces the stored one.
Base(diskState, newCookie) ==
    IF newCookie = NoCookie THEN diskState
                            ELSE [diskState EXCEPT !.cookie = newCookie]

(***************************************************************************)
(* What contactMam can be told: the host lookup's answer, an update's      *)
(* answer with the cookie its Set-Cookie rotates to (if any), or nothing   *)
(* usable (time-out, network error, unparsable body, a lookup's non-2xx).  *)
(***************************************************************************)
Answer == [kind : {"lookup", "updated", "unreachable"}, rotated : CookieValue]

NoAnswer == [kind |-> "unreachable", rotated |-> NoCookie]

\* jsonIp's: the host's address, and no cookie.
GetHostInfo == {NoAnswer, [kind |-> "lookup", rotated |-> NoCookie]}

\* dynamicSeedbox's, of any status: it may rotate the cookie, to nothing too
\* (`Set-Cookie: mam_id=`).
UpdateMamIp == {NoAnswer} \cup {[kind |-> "updated", rotated |-> k] : k \in CookieValue}

\* Without a cookie, or with an empty one, contactMam asks jsonIp.
AnswersTo(base) == IF base.cookie \in Cookie THEN UpdateMamIp ELSE GetHostInfo

\* contactMam's return value: a lookup's has no cookie at all, an update's is
\* `rotatedCookie ?? cookie`, and without an answer the cookie stays as it was.
ContactResult(base, answer) ==
    [cookie  |-> CASE answer.kind = "lookup"     -> NoCookie
                   [] answer.rotated # NoCookie  -> answer.rotated
                   [] OTHER                      -> base.cookie,
     contact |-> answer.kind]

=============================================================================
