------------------------------- MODULE Payloads -------------------------------
(***************************************************************************)
(* What a request with a body goes through: authentication, the extractors *)
(* of its handler, the validation of its fields, the service, and the one  *)
(* envelope every Error and every result is turned into; and which         *)
(* passwords get past it into iam.users.                                   *)
(*                                                                         *)
(* What a service does between its lookup and its COMMIT is in UserService *)
(* and PasswordReset: here it answers with any result its code has for     *)
(* that payload.  A password is the set of the rules it satisfies, a field *)
(* is right or wrong, a column is given or not.                            *)
(***************************************************************************)
EXTENDS Integers, FiniteSets, Sequences

CONSTANTS
    Cause,     \* texts of errors below: of PostgreSQL, of bcrypt, of a parser
    None       \* nothing there

Rules == <<"length", "upper", "lower", "digit", "special">>
Rule == {Rules[i] : i \in DOMAIN Rules}

\* The payload types that derive Validate: the fields whose attribute is not strong_password, and
\* the types that have one that is.
Checked == [create |-> {"user_name", "email", "first_name", "last_name", "department"},
            login |-> {"email", "password"}, refresh |-> {"token"},
            recovery |-> {"email", "callback_uri"}, reset |-> {"token"},
            patch |-> {}, patch_mine |-> {}]

Kind == DOMAIN Checked
Field == UNION {Checked[k] : k \in Kind}
HasStrongPassword == {"create", "reset"}
Patch == {"patch", "patch_mine"}
Protected == {"create"} \cup Patch

\* UpdateUser, the payload of both PATCHes, besides its password.  profile: the avatar and the
\* names; roles: those to add and those to remove.  Own is what restricted_to_self keeps.
Column == {"profile", "email", "department_id", "status", "roles"}
Own == {"profile", "department_id"}

\* A request as the client sends it.  strange: a path segment that is no UUID.
Payload ==
    {p \in UNION {[kind : {k}, strange : BOOLEAN, readable : BOOLEAN, wrong : SUBSET Checked[k],
                   columns : IF k \in Patch THEN SUBSET Column ELSE {{}},
                   password : (IF k \in HasStrongPassword \cup Patch THEN SUBSET Rule ELSE {}) \cup
                              (IF k \in HasStrongPassword THEN {} ELSE {None})] : k \in Kind} :
        /\ p.strange => p.kind = "patch"
        /\ ~p.readable => p.wrong = {} /\ p.columns = {} /\ p.password \in {None, Rule}}

\* What the handler passes on to the service, of what the models tell apart.
Fields == [columns : SUBSET Column, password : (SUBSET Rule) \cup {None}]

VARIABLES
    pc,        \* the stage the request is at
    payload,   \* the request
    fields,    \* what the handler has passed on
    answer,    \* the response, None before there is one
    passwords, \* iam.users.password of the users the API has written, without their salt
    written    \* what the request, if it is a PATCH, has changed of its user

vars == <<pc, payload, fields, answer, passwords, written>>

------------------------------------------------------------------------------
(* package/errdef and package/response *)

Code == [VALIDATION_FAILED |-> 1000, NOT_FOUND |-> 1001, UNAUTHORIZED |-> 1002,
         BAD_REQUEST |-> 1003, RESOURCE_CONFLICT |-> 1004, UNPROCESSABLE |-> 1005,
         FORBIDDEN |-> 1006, UNKNOWN |-> 2000]

\* Error::App and Error::Validation.
App(code, message) == [code |-> code, message |-> message, cause |-> None, violations |-> {}]
WithCause(error, cause) == [error EXCEPT !.cause = cause]
Validation(message, violations) ==
    [code |-> Code.VALIDATION_FAILED, message |-> message, cause |-> None, violations |-> violations]

\* Mutant: the cause is the message.
UnknownExplained(cause) == WithCause(App(Code.UNKNOWN, cause), cause)
Unknown(cause) == WithCause(App(Code.UNKNOWN, "internal_server_error"), cause)

\* status_for, and what into_response does with a Validation.
StatusFor(code) ==
    CASE code = Code.NOT_FOUND -> 404
      [] code = Code.UNAUTHORIZED -> 401
      [] code = Code.BAD_REQUEST -> 400
      [] code = Code.RESOURCE_CONFLICT -> 409
      [] code \in {Code.UNPROCESSABLE, Code.VALIDATION_FAILED} -> 422
      [] code = Code.FORBIDDEN -> 403
      [] code = Code.UNKNOWN -> 500
      [] OTHER -> 400

\* into_response.
Envelope(error) ==
    [status |-> StatusFor(error.code), body |-> "json", data |-> FALSE,
     error |-> [code |-> StatusFor(error.code), message |-> error.message,
                errors |-> IF error.code = Code.VALIDATION_FAILED THEN error.violations ELSE None]]

Ok == [status |-> 200, body |-> "json", data |-> TRUE, error |-> None]

\* What axum itself answers to a path it cannot parse.
PathRejection == [status |-> 400, body |-> "text", data |-> FALSE, error |-> None]

\* The texts of the program's own: the messages of its errors, and how violations are named.
Message == {"internal_server_error", "user_does_not_exists", "username_or_email_is_already_taken",
            "invalid_payload_fields", "failed_payload_validation", "invalid_username_or_password",
            "invalid_or_malformed_refresh_token", "invalid_email_address", "invalid_or_expired_token",
            "malformed_or_missing_jwt_token", "invalid_json_body"}
Name == Field \cup Rule \cup
        {"password", "strong-pwd", "status", "field_must_be_of_valid_type",
         "department_id", "invalid_department_id_provided"}

\* The responses there are; what a cause says could only be in a message.
ErrorBody == [code : Int, message : Message \cup Cause, errors : {None} \cup SUBSET (Name \X Name)]
Response == [status : Int, body : {"json", "text"}, data : BOOLEAN, error : ErrorBody \cup {None}]

\* Causes are told apart from the texts the program has itself, None from all else.
ASSUME ConstantsAssumption ==
    /\ Cause \cap Message = {}
    /\ None \notin Payload \cup Fields \cup ErrorBody \cup Response /\ \A p \in SUBSET Rule : p # None

------------------------------------------------------------------------------
(* package/validation *)

StrongPassword(p) == \A rule \in Rule : rule \in p

\* Mutant: a rule was added to one of the two policies only.
PasswordCheckerShort(p) == {Rules[i] : i \in {n \in 1 .. 4 :
                               Rules[n] \notin p /\ \A m \in 1 .. n - 1 : Rules[m] \in p}}
\* password_checker names the first rule that is broken.
PasswordChecker(p) == {Rules[i] : i \in {n \in DOMAIN Rules :
                               Rules[n] \notin p /\ \A m \in 1 .. n - 1 : Rules[m] \in p}}

\* Validate::validate, and collect: every violation, at the path of its field.
Collect(p) ==
    {<<field, field>> : field \in p.wrong} \cup
    IF p.kind \in HasStrongPassword /\ ~StrongPassword(p.password)
    THEN {<<"password", "strong-pwd">>} ELSE {}

------------------------------------------------------------------------------
(* What the services can answer with, once their own checks are passed. *)

\* What From<sqlx::Error>, hash_password and the mailer's errors come to.
Unknowns == {Unknown(cause) : cause \in Cause}

\* UserServiceImpl::map_domain_error.
DomainError ==
    [UserNotFound |-> App(Code.NOT_FOUND, "user_does_not_exists"),
     UserDuplicateConstraint |-> App(Code.UNPROCESSABLE, "username_or_email_is_already_taken"),
     StatusNotFound |->
        Validation("invalid_payload_fields", {<<"status", "field_must_be_of_valid_type">>}),
     DepartmentNotFoundConstraint |->
        Validation("invalid_payload_fields", {<<"department_id", "invalid_department_id_provided">>})]

\* PgUserRepository::partial_update: only a column that is set can break its constraint.
UpdateErrors(columns) ==
    {DomainError[e] : e \in
        {d \in {"UserDuplicateConstraint", "StatusNotFound", "DepartmentNotFoundConstraint"} :
        /\ d = "UserDuplicateConstraint" => "email" \in columns
        /\ d = "StatusNotFound" => "status" \in columns
        /\ d = "DepartmentNotFoundConstraint" => "department_id" \in columns}}

CreateErrors == {DomainError.UserDuplicateConstraint, DomainError.DepartmentNotFoundConstraint}

\* AuthService.
AuthErrors(kind) ==
    CASE kind = "login" -> {App(Code.UNAUTHORIZED, "invalid_username_or_password")}
      [] kind = "refresh" ->
            {WithCause(App(Code.UNAUTHORIZED, "invalid_or_malformed_refresh_token"), cause) :
                cause \in Cause \cup {None}}
      [] kind = "recovery" -> {App(Code.NOT_FOUND, "invalid_email_address")}
      [] kind = "reset" -> {App(Code.BAD_REQUEST, "invalid_or_expired_token")}

\* Mutant: the handler of one's own profile passes the payload on as it is.
RestrictedToSelfNot(p) == [columns |-> p.columns, password |-> p.password]
\* What the handlers pass on: restricted_to_self keeps no email, status, password or roles.
RestrictedToSelf(p) ==
    IF p.kind = "patch_mine" THEN [columns |-> p.columns \cap Own, password |-> None]
                             ELSE [columns |-> p.columns, password |-> p.password]

------------------------------------------------------------------------------

Init ==
    /\ pc = "idle"
    /\ payload = None /\ fields = None /\ answer = None
    /\ passwords = {} /\ written = {}

Goto(step) == pc' = step /\ UNCHANGED <<payload, fields, answer, passwords, written>>

\* Mutant: an error is dropped instead of returned.
RespondNothing(response) ==
    /\ pc' = "answered"
    /\ UNCHANGED <<payload, fields, answer, passwords, written>>

Respond(response) ==
    /\ pc' = "answered"
    /\ answer' = response
    /\ UNCHANGED <<payload, fields, passwords, written>>

Arrive(p) ==
    /\ pc = "idle"
    /\ pc' = "authenticate"
    /\ payload' = p
    /\ UNCHANGED <<fields, answer, passwords, written>>

\* The answer is sent, and nothing is left of the request but what it has written.
Send ==
    /\ pc = "answered"
    /\ pc' = "idle"
    /\ payload' = None /\ fields' = None /\ answer' = None /\ written' = {}
    /\ UNCHANGED passwords

\* authenticate, where the route has it: any error of get_identity, too, is a 401.
Authenticate ==
    /\ pc = "authenticate"
    /\ \/ Goto("path")
       \/ /\ payload.kind \in Protected
          /\ \E cause \in Cause \cup {None} : Respond(Envelope(
                WithCause(App(Code.UNAUTHORIZED, "malformed_or_missing_jwt_token"), cause)))

\* The extractors run in the order of the handler's parameters.
ReadPath ==
    /\ pc = "path"
    /\ IF payload.strange THEN Respond(PathRejection) ELSE Goto("body")

\* Mutant: the handler takes axum's own Json.
ReadBodyPlain ==
    /\ pc = "body"
    /\ IF payload.readable THEN Goto("validate")
       ELSE Respond([PathRejection EXCEPT !.status = 415])

\* Json: also a body of another type, too large, or with a field that is not known.
ReadBody ==
    /\ pc = "body"
    /\ IF payload.readable THEN Goto("validate")
       ELSE \E cause \in Cause :
               Respond(Envelope(WithCause(App(Code.BAD_REQUEST, "invalid_json_body"), cause)))

\* ValidatedJson, or Json for UpdateUser, which has no rules; then the handler calls the service.
Validate ==
    /\ pc = "validate"
    /\ IF Collect(payload) # {}
       THEN Respond(Envelope(Validation("failed_payload_validation", Collect(payload))))
       ELSE /\ pc' = IF payload.kind \in Patch THEN "service" ELSE "write"
            /\ fields' = RestrictedToSelf(payload)
            /\ UNCHANGED <<payload, answer, passwords, written>>

\* partial_update up to its transaction: require_user, then the password.
CheckPassword ==
    /\ pc = "service"
    /\ \/ \E error \in Unknowns \cup {DomainError.UserNotFound} : Respond(Envelope(error))
       \/ IF fields.password # None /\ PasswordChecker(fields.password) # {}
          THEN Respond(Envelope(Validation("invalid_payload_fields",
                  {<<"password", rule>> : rule \in PasswordChecker(fields.password)})))
          ELSE Goto("write")

\* What a service does with the fields: it fails, or it writes them and commits; then its client may
\* still be told an UNKNOWN error, when it is the acknowledgement that is lost.
Serve(errors) ==
    \/ \E error \in errors \cup Unknowns : Respond(Envelope(error))
    \/ /\ pc' = "answered"
       /\ answer' \in {Ok} \cup {Envelope(error) : error \in Unknowns}
       /\ passwords' = passwords \cup ({fields.password} \ {None})
       /\ written' = IF payload.kind \notin Patch THEN {}
                     ELSE fields.columns \cup IF fields.password = None THEN {} ELSE {"password"}
       /\ UNCHANGED <<payload, fields>>

Create == pc = "write" /\ payload.kind = "create" /\ Serve(CreateErrors)

PartialUpdate == pc = "write" /\ payload.kind \in Patch /\ Serve(UpdateErrors(fields.columns))

AuthService ==
    /\ pc = "write" /\ payload.kind \in {"login", "refresh", "recovery", "reset"}
    /\ Serve(AuthErrors(payload.kind))

Next ==
    \/ \E p \in Payload : Arrive(p)
    \/ Authenticate \/ ReadPath \/ ReadBody \/ Validate
    \/ CheckPassword \/ Create \/ PartialUpdate \/ AuthService
    \/ Send

Spec == Init /\ [][Next]_vars

------------------------------------------------------------------------------
(* Properties *)

TypeOK ==
    /\ pc \in {"idle", "authenticate", "path", "body", "validate", "service", "write", "answered"}
    /\ payload \in Payload \cup {None} /\ (payload = None <=> pc = "idle")
    /\ fields \in Fields \cup {None} /\ (pc \in {"service", "write"} => fields # None)
    /\ answer \in Response \cup {None} /\ (answer # None <=> pc = "answered")
    /\ passwords \in SUBSET SUBSET Rule
    /\ written \in SUBSET (Column \cup {"password"})

\* Every password the API has written satisfies all five rules, by whichever of its three ways,
\* with two different policies, it came.
PasswordsAreStrong == \A p \in passwords : StrongPassword(p)

\* Every answer is the one envelope (README.md, "Endpoints"), with data or an error, never both
\* and never neither, and only a 422 lists fields; what axum refuses itself, a path, has none.  What
\* error.code is, is no part of this: into_response puts the HTTP status there, as
\* tests/auth_routes.rs:51 expects, where openapi.yaml ("Errors") documents 1000 to 2000.
AnswersAreEnvelopes ==
    answer # None =>
        \/ answer.body = "text" /\ payload.strange
        \/ /\ answer.body = "json"
           /\ (answer.data <=> answer.error = None)
           /\ (answer.data <=> answer.status = 200)
           /\ (~answer.data => /\ answer.status >= 400
                               /\ (answer.error.errors # None => answer.status = 422))

\* No answer shows a cause; a 500 never explains itself (openapi.yaml, "Errors").
CausesStayInside ==
    answer # None /\ answer.error # None =>
        /\ answer.error.message \notin Cause
        /\ (answer.status = 500 =>
               answer.error.message = "internal_server_error" /\ answer.error.errors = None)

\* A user's own PATCH changes at most the profile and the department, and no email, status,
\* password or role that it names is looked at on the way: no error is about one.  Bruno's
\* Patch My User says so too; openapi.yaml ("Update the authenticated user") drops the department
\* and, by UpdateMyUser, takes an email instead.
OwnPatchIsRestricted ==
    payload # None /\ payload.kind = "patch_mine" =>
        /\ written \subseteq Own
        /\ answer # None /\ answer.error # None =>
              /\ answer.error.message # "username_or_email_is_already_taken"
              /\ answer.error.errors # None => \A v \in answer.error.errors : v[1] \in Own

===============================================================================
