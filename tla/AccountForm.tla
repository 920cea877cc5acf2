------------------------------ MODULE AccountForm -----------------------------
(* The dialog that adds or changes an account. Its fields are one object v; a  *)
(* handler writes v back whole, from the copy of the render it belongs to. The *)
(* handler of the cookie file waits for the file in between. Names, addresses  *)
(* and queue lengths are not modelled: they restrict only whether the form can *)
(* be sent.                                                                    *)
EXTENDS Naturals, FiniteSets

CONSTANTS ConcurrencyMaximum,   \* providerConcurrencyMaximum
          DefaultConcurrency    \* of a new account

Platforms == {"leonardo", "adobe", "creativefabrica"}

ASSUME FormAssumption ==
    /\ ConcurrencyMaximum \in [Platforms -> Nat \ {0}]
    /\ \A p \in Platforms : DefaultConcurrency \in 1..ConcurrencyMaximum[p]

VARIABLES form,      \* "closed", "create" or "edit"
          v,         \* the fields; cookie is the platform a cookie file was chosen for
          reading,   \* the copy of v held by the handler that waits for a cookie file, as a set
          saving,    \* the dialog's mutation is pending
          orphans    \* mutations of dialogs closed since are pending

formVars == <<form, v, reading, saving, orphans>>

AuthMethods ==
    [leonardo |-> {"complete_cookie", "complete_cookie_password"},
     adobe |-> {"access_token", "complete_cookie"},
     creativefabrica |-> {"complete_cookie", "complete_cookie_password", "email_password"}]

MaxConcurrency == CHOOSE n \in {ConcurrencyMaximum[p] : p \in Platforms} :
                    \A p \in Platforms : ConcurrencyMaximum[p] <= n

MaxReads == 1    \* handlers that wait for a file at a time

Fields == [provider : Platforms, auth_method : UNION {AuthMethods[p] : p \in Platforms},
           password : BOOLEAN, otp : BOOLEAN, access_token : BOOLEAN,
           cookie : Platforms \cup {"none"},
           image_concurrency : 1..MaxConcurrency, video_reserved_slots : 0..MaxConcurrency]

FormTypeOK ==
    /\ form \in {"closed", "create", "edit"}
    /\ v \in Fields
    /\ v.auth_method \in AuthMethods[v.provider]
    /\ reading \subseteq Fields
    /\ saving \in BOOLEAN
    /\ orphans \in BOOLEAN

Blank(p, auth) ==
    [provider |-> p, auth_method |-> auth, password |-> FALSE, otp |-> FALSE, access_token |-> FALSE,
     cookie |-> "none", image_concurrency |-> DefaultConcurrency, video_reserved_slots |-> 0]

FormInit ==
    /\ form = "closed"
    /\ v = Blank("leonardo", "complete_cookie")
    /\ reading = {}
    /\ saving = FALSE
    /\ orphans = FALSE

-----------------------------------------------------------------------------
(* What the form shows and sends *)

isCookieMethod == v.auth_method \in {"complete_cookie", "complete_cookie_password"}

requiresPassword ==
    /\ form = "create"
    /\ \/ v.provider = "leonardo" /\ v.auth_method = "complete_cookie_password"
       \/ v.provider = "creativefabrica" /\ v.auth_method \in {"complete_cookie_password", "email_password"}

\* The inputs on screen.
Shown ==
    [password |-> IF form = "edit" THEN v.provider # "adobe" ELSE requiresPassword,
     otp |-> form = "create" /\ v.provider = "creativefabrica" /\ v.auth_method = "email_password",
     access_token |-> form = "create" /\ v.provider = "adobe" /\ v.auth_method = "access_token",
     cookie |-> form = "create" /\ isCookieMethod]

TokenSent == form = "create" /\ v.provider = "adobe" /\ v.auth_method = "access_token"

\* The credentials in the body of the request.
Body ==
    [password |-> v.password /\ (form = "edit" \/ v.provider # "adobe"),
     otp |-> form = "create" /\ v.provider = "creativefabrica" /\ v.otp,
     access_token |-> TokenSent /\ v.access_token,
     cookie |-> IF form = "create" /\ ~TokenSent /\ isCookieMethod THEN v.cookie ELSE "none"]

canSubmit ==
    /\ form # "closed"
    /\ form = "create" => /\ TokenSent => v.access_token
                          /\ ~TokenSent /\ isCookieMethod => v.cookie # "none"
    /\ requiresPassword => v.password
    /\ v.image_concurrency <= ConcurrencyMaximum[v.provider]
    /\ v.video_reserved_slots <= v.image_concurrency

-----------------------------------------------------------------------------
(* Opening and closing *)

OpenCreate ==
    /\ form = "closed"
    /\ form' = "create"
    /\ v' = Blank("leonardo", "complete_cookie")
    /\ UNCHANGED <<reading, saving, orphans>>

OpenEdit(p) ==
    /\ form = "closed"
    /\ form' = "edit"
    /\ \E auth \in IF p = "adobe" THEN {"access_token"} ELSE {"complete_cookie", "complete_cookie_password"} :
         v' = Blank(p, auth)
    /\ UNCHANGED <<reading, saving, orphans>>

\* The handlers of a dialog that is gone write to nothing; its mutation goes on.
Dismiss ==
    /\ form' = "closed"
    /\ v' = Blank("leonardo", "complete_cookie")
    /\ reading' = {}
    /\ saving' = FALSE

CloseForm ==
    /\ form # "closed"
    /\ Dismiss
    /\ orphans' = (orphans \/ saving)

-----------------------------------------------------------------------------
(* The fields *)

SetFields(next) ==
    /\ v' = next
    /\ UNCHANGED <<form, reading, saving, orphans>>

setProvider(p) ==
    /\ form = "create"
    /\ SetFields([Blank(p, IF p = "adobe" THEN "access_token" ELSE "complete_cookie") EXCEPT
                    !.image_concurrency = ConcurrencyMaximum[p],
                    !.video_reserved_slots = v.video_reserved_slots])

Mutant_OnlyTheMethod(m) ==
    /\ form = "create"
    /\ m \in AuthMethods[v.provider]
    /\ SetFields([v EXCEPT !.auth_method = m])

\* Each method drops what its inputs no longer show.
setAuthMethod(m) ==
    /\ form = "create"
    /\ m \in AuthMethods[v.provider]
    /\ SetFields(
         CASE m = "access_token" -> [v EXCEPT !.auth_method = m, !.cookie = "none"]
           [] m = "complete_cookie" -> [v EXCEPT !.auth_method = m, !.password = FALSE, !.otp = FALSE,
                                                 !.access_token = FALSE]
           [] m = "complete_cookie_password" -> [v EXCEPT !.auth_method = m, !.otp = FALSE]
           [] m = "email_password" -> [v EXCEPT !.auth_method = m, !.cookie = "none", !.access_token = FALSE])

TypePassword == Shown.password /\ SetFields([v EXCEPT !.password = ~@])

TypeOtp == Shown.otp /\ SetFields([v EXCEPT !.otp = ~@])

TypeAccessToken == Shown.access_token /\ SetFields([v EXCEPT !.access_token = ~@])

ChooseCookieFile ==
    /\ Shown.cookie
    /\ Cardinality(reading) < MaxReads
    /\ reading' = reading \cup {v}
    /\ UNCHANGED <<form, v, saving, orphans>>

Mutant_OnlyTheCookie(copy) ==
    /\ copy \in reading
    /\ reading' = reading \ {copy}
    /\ v' = [v EXCEPT !.cookie = copy.provider]
    /\ UNCHANGED <<form, saving, orphans>>

\* The file is read, or is no JSON; the whole form returns to the copy.
CookieFileRead(copy) ==
    /\ copy \in reading
    /\ reading' = reading \ {copy}
    /\ \E cookie \in {copy.provider, "none"} : v' = [copy EXCEPT !.cookie = cookie]
    /\ UNCHANGED <<form, saving, orphans>>

setConcurrency(n) ==
    /\ form # "closed"
    /\ n <= ConcurrencyMaximum[v.provider]
    /\ SetFields([v EXCEPT !.image_concurrency = n,
                           !.video_reserved_slots = IF @ < n THEN @ ELSE n])

setVideoReservedSlots(n) ==
    /\ form # "closed"
    /\ n <= v.image_concurrency
    /\ SetFields([v EXCEPT !.video_reserved_slots = n])

setRoutingRole(role) ==
    /\ form # "closed"
    /\ SetFields([v EXCEPT !.video_reserved_slots =
                    IF role = "general" THEN 0 ELSE IF @ > 1 THEN @ ELSE 1])

-----------------------------------------------------------------------------
(* Sending the form; the fields stay editable while it is under way *)

SubmitForm ==
    /\ canSubmit
    /\ ~saving
    /\ saving' = TRUE
    /\ UNCHANGED <<form, v, reading, orphans>>

SubmitFails ==
    /\ saving
    /\ saving' = FALSE
    /\ UNCHANGED <<form, v, reading, orphans>>

\* onSuccess closes the dialog that is open by then, whichever sent the form.
SubmitSucceeds ==
    /\ saving \/ orphans
    /\ Dismiss
    /\ \/ saving /\ UNCHANGED orphans
       \/ orphans /\ orphans' = saving

FormNext ==
    \/ OpenCreate
    \/ \E p \in Platforms : OpenEdit(p)
    \/ CloseForm
    \/ \E p \in Platforms : setProvider(p)
    \/ \E m \in UNION {AuthMethods[p] : p \in Platforms} : setAuthMethod(m)
    \/ TypePassword
    \/ TypeOtp
    \/ TypeAccessToken
    \/ ChooseCookieFile
    \/ \E copy \in reading : CookieFileRead(copy)
    \/ \E n \in 1..MaxConcurrency : setConcurrency(n)
    \/ \E n \in 0..MaxConcurrency : setVideoReservedSlots(n)
    \/ \E role \in {"general", "video_reserved"} : setRoutingRole(role)
    \/ SubmitForm
    \/ SubmitFails
    \/ SubmitSucceeds

FormSpec == FormInit /\ [][FormNext]_formVars

-----------------------------------------------------------------------------
(* Properties *)

\* A cookie file is sent only to the platform it was chosen for, even if the
\* platform is changed while the file is being read.
CookieForItsPlatform == canSubmit => Body.cookie \in {"none", v.provider}

\* No credential is sent that the form does not show: a password, a code or a
\* cookie left over from another method or platform stays behind.
SendsOnlyShown ==
    canSubmit => /\ Body.password => Shown.password
                 /\ Body.otp => Shown.otp
                 /\ Body.cookie # "none" => Shown.cookie

-----------------------------------------------------------------------------
(* Why they hold, as an inductive invariant *)

\* What the fields of a new account may hold together, on screen or in the copy
\* of a handler that waits for its file.
Coherent(fields) ==
    /\ fields.auth_method \in AuthMethods[fields.provider]
    /\ fields.cookie \in {"none", fields.provider}
    /\ fields.otp => fields.auth_method = "email_password"
    /\ fields.password /\ fields.provider # "adobe" => fields.auth_method # "complete_cookie"

FormInv ==
    /\ FormTypeOK
    /\ form = "create" => Coherent(v)
    /\ form = "edit" => v.provider # "adobe" \/ ~v.password
    /\ \A copy \in reading : form = "create" /\ Coherent(copy)

=============================================================================
