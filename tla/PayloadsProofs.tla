---------------------------- MODULE PayloadsProofs ----------------------------
(***************************************************************************)
(* What holds of Payloads whatever the causes of errors are.  The two      *)
(* policies, the attribute of the payload types and the check of the       *)
(* service, accept the same passwords; so what is about to be written has  *)
(* passed one of them, or is nothing.                                      *)
(***************************************************************************)
EXTENDS Payloads, TLAPS

\* From the extractors on there is a request; past them its fields are right and the handler has
\* passed on what it may; at the write the password, if there is one, is strong.  A PATCH of one's
\* own has changed no more than it may.
IInv ==
    /\ pc # "idle" => payload \in Payload
    /\ fields \in Fields \cup {None}
    /\ pc \in {"service", "write"} =>
          /\ fields = RestrictedToSelf(payload) /\ fields \in Fields
          /\ payload.wrong = {}
          /\ payload.kind \in HasStrongPassword => StrongPassword(payload.password)
    /\ pc = "service" => payload.kind \in Patch
    /\ pc = "write" /\ payload.kind = "patch" /\ fields.password # None => StrongPassword(fields.password)
    /\ passwords \in SUBSET SUBSET Rule /\ PasswordsAreStrong
    /\ written \in SUBSET (Column \cup {"password"})
    /\ pc # "answered" => written = {}
    /\ pc # "idle" /\ payload.kind = "patch_mine" => written \subseteq Own

\* strong_password accepts what password_checker finds nothing wrong with, and nothing else: a rule
\* that one of them has and the other has not would show here.
LEMMA PoliciesAgree ==
    ASSUME NEW p
    PROVE  PasswordChecker(p) = {} <=> StrongPassword(p)
  <1> DEFINE Broken(n) == Rules[n] \notin p /\ \A m \in 1 .. n - 1 : Rules[m] \in p
  <1>1. DOMAIN Rules = 1 .. 5 /\ Rule = {Rules[1], Rules[2], Rules[3], Rules[4], Rules[5]}
    BY DEF Rules, Rule
  <1>2. PasswordChecker(p) = {} <=> \A n \in 1 .. 5 : ~Broken(n)
    BY <1>1 DEF PasswordChecker
  <1>3. /\ 1 .. 1 - 1 = {} /\ 1 .. 2 - 1 = {1} /\ 1 .. 3 - 1 = {1, 2}
        /\ 1 .. 4 - 1 = {1, 2, 3} /\ 1 .. 5 - 1 = {1, 2, 3, 4}
    OBVIOUS
  <1>4. (\A n \in 1 .. 5 : ~Broken(n)) <=> \A n \in 1 .. 5 : Rules[n] \in p
    <2>1. ASSUME \A n \in 1 .. 5 : ~Broken(n) PROVE \A n \in 1 .. 5 : Rules[n] \in p
      <3>1. Rules[1] \in p
        BY <1>3, <2>1
      <3>2. Rules[2] \in p
        BY <1>3, <2>1, <3>1
      <3>3. Rules[3] \in p
        BY <1>3, <2>1, <3>1, <3>2
      <3>4. Rules[4] \in p
        BY <1>3, <2>1, <3>1, <3>2, <3>3
      <3>5. Rules[5] \in p
        BY <1>3, <2>1, <3>1, <3>2, <3>3, <3>4
      <3> QED BY <3>1, <3>2, <3>3, <3>4, <3>5
    <2>2. ASSUME \A n \in 1 .. 5 : Rules[n] \in p PROVE \A n \in 1 .. 5 : ~Broken(n)
      BY <2>2
    <2> QED BY <2>1, <2>2
  <1>5. StrongPassword(p) <=> \A n \in 1 .. 5 : Rules[n] \in p
    BY <1>1 DEF StrongPassword
  <1> QED BY <1>2, <1>4, <1>5

\* What a request can have for a password, and which columns it can name.
LEMMA PayloadType ==
    ASSUME NEW p \in Payload
    PROVE  /\ p.kind \in Kind
           /\ p.wrong \subseteq Checked[p.kind]
           /\ p.columns \subseteq Column
           /\ p.password \in (SUBSET Rule) \cup {None}
           /\ p.kind \in HasStrongPassword => p.password \in SUBSET Rule
           /\ p.kind \notin HasStrongPassword \cup Patch => p.password = None
  BY DEF Payload

\* What the handler passes on is of the type the service takes, and one's own PATCH is restricted.
LEMMA Restricted ==
    ASSUME NEW p \in Payload
    PROVE  /\ RestrictedToSelf(p) \in Fields
           /\ RestrictedToSelf(p).columns \subseteq Column
           /\ RestrictedToSelf(p).password \in (SUBSET Rule) \cup {None}
           /\ p.kind = "patch_mine" =>
                 RestrictedToSelf(p).columns \subseteq Own /\ RestrictedToSelf(p).password = None
           /\ p.kind # "patch_mine" => RestrictedToSelf(p).password = p.password
  BY PayloadType DEF RestrictedToSelf, Fields

\* What reaches the write is strong, or no password at all.
LEMMA WrittenIsStrong ==
    ASSUME IInv, pc = "write", fields.password # None
    PROVE  fields.password \in SUBSET Rule /\ StrongPassword(fields.password)
  <1>1. payload \in Payload /\ fields = RestrictedToSelf(payload)
    BY DEF IInv
  <1>2. /\ fields.password \in SUBSET Rule
        /\ payload.kind # "patch_mine" /\ fields.password = payload.password
    BY <1>1, Restricted
  <1>3. payload.kind \in HasStrongPassword \cup {"patch"}
    BY <1>1, <1>2, PayloadType DEF Patch
  <1> QED BY <1>2, <1>3 DEF IInv

\* Whichever service it is, a request that is served is answered, and what it has written is what
\* was passed on.
LEMMA Serves ==
    ASSUME NEW errors, Serve(errors)
    PROVE  /\ pc' = "answered" /\ payload' = payload /\ fields' = fields
           /\ \/ passwords' = passwords /\ written' = written
              \/ /\ passwords' = passwords \cup ({fields.password} \ {None})
                 /\ \/ payload.kind \notin Patch /\ written' = {}
                    \/ /\ payload.kind \in Patch
                       /\ written' = fields.columns \cup
                                     IF fields.password = None THEN {} ELSE {"password"}
  BY DEF Serve, Respond

LEMMA InvNext == IInv /\ [Next]_vars => IInv'
  <1> SUFFICES ASSUME IInv, [Next]_vars PROVE IInv'
    OBVIOUS
  <1>1. ASSUME UNCHANGED passwords PROVE (passwords \in SUBSET SUBSET Rule)' /\ PasswordsAreStrong'
    BY <1>1 DEF IInv, PasswordsAreStrong
  <1>2. ASSUME NEW errors, Serve(errors), pc = "write" PROVE IInv'
    <2>1. (passwords \in SUBSET SUBSET Rule)' /\ PasswordsAreStrong'
      <3>1. /\ passwords' \subseteq passwords \cup {fields.password}
            /\ fields.password = None => passwords' = passwords
        BY <1>2, Serves
      <3> QED BY <1>2, <3>1, WrittenIsStrong DEF IInv, PasswordsAreStrong
    <2>2. payload \in Payload /\ fields = RestrictedToSelf(payload) /\ written = {}
      BY <1>2 DEF IInv
    <2>3. /\ written' \in SUBSET (Column \cup {"password"})
          /\ payload.kind = "patch_mine" => written' \subseteq Own
      <3>1. \/ written' = {}
            \/ written' = fields.columns \cup IF fields.password = None THEN {} ELSE {"password"}
        BY <1>2, <2>2, Serves
      <3> QED BY <2>2, <3>1, Restricted
    <2>4. pc' = "answered" /\ payload' = payload /\ fields' = fields
      BY <1>2, Serves
    <2> HIDE DEF PasswordsAreStrong
    <2> QED BY <2>1, <2>2, <2>3, <2>4 DEF IInv
  <1> HIDE DEF PasswordsAreStrong
  <1>3. ASSUME NEW p \in Payload, Arrive(p) PROVE IInv'
    <2>1. pc' = "authenticate" /\ payload' = p /\ fields' = fields /\ written' = {}
      BY <1>3 DEF Arrive, IInv
    <2> QED BY <1>1, <1>3, <2>1 DEF IInv, Arrive
  <1>4. CASE Authenticate
    BY <1>1, <1>4 DEF Authenticate, Goto, Respond, IInv
  <1>5. CASE ReadPath
    BY <1>1, <1>5 DEF ReadPath, Goto, Respond, IInv
  <1>6. CASE ReadBody
    BY <1>1, <1>6 DEF ReadBody, Goto, Respond, IInv
  <1>7. CASE Validate
    <2>1. CASE Collect(payload) # {}
      BY <1>1, <1>7, <2>1 DEF Validate, Respond, IInv
    <2>2. CASE Collect(payload) = {}
      <3>1. /\ pc = "validate" /\ pc' = IF payload.kind \in Patch THEN "service" ELSE "write"
            /\ payload' = payload /\ fields' = RestrictedToSelf(payload)
            /\ passwords' = passwords /\ written' = written
        BY <1>7, <2>2 DEF Validate
      <3>2. payload \in Payload /\ payload.wrong = {} /\ written = {}
            /\ (payload.kind \in HasStrongPassword => StrongPassword(payload.password))
        BY <2>2, <3>1 DEF IInv, Collect
      <3>3. RestrictedToSelf(payload) \in Fields
        BY <3>2, Restricted
      <3>4. (fields = RestrictedToSelf(payload))'
        BY <3>1 DEF RestrictedToSelf
      <3>5. pc' = "write" => payload.kind # "patch"
        BY <3>1 DEF Patch
      <3> QED BY <1>1, <3>1, <3>2, <3>3, <3>4, <3>5 DEF IInv
    <2> QED BY <2>1, <2>2
  <1>8. CASE CheckPassword
    <2>1. \/ pc' = "answered"
          \/ pc' = "write" /\ (fields.password = None \/ PasswordChecker(fields.password) = {})
      BY <1>8 DEF CheckPassword, Respond, Goto
    <2>2. pc' = "write" => fields.password = None \/ StrongPassword(fields.password)
      BY <2>1, PoliciesAgree
    <2>3. pc = "service" /\ UNCHANGED <<payload, fields, passwords, written>>
      BY <1>8 DEF CheckPassword, Respond, Goto
    <2>4. RestrictedToSelf(payload)' = RestrictedToSelf(payload)
      BY <2>3 DEF RestrictedToSelf
    <2> QED BY <1>1, <2>1, <2>2, <2>3, <2>4 DEF IInv
  <1>9. CASE Create
    BY <1>2, <1>9 DEF Create
  <1>10. CASE PartialUpdate
    BY <1>2, <1>10 DEF PartialUpdate
  <1>11. CASE AuthService
    BY <1>2, <1>11 DEF AuthService
  <1>12. CASE Send
    BY <1>1, <1>12 DEF Send, IInv
  <1>13. CASE UNCHANGED vars
    BY <1>1, <1>13 DEF vars, IInv, RestrictedToSelf
  <1> QED
    BY <1>3, <1>4, <1>5, <1>6, <1>7, <1>8, <1>9, <1>10, <1>11, <1>12, <1>13 DEF Next

THEOREM Invariant == Spec => []IInv
  <1>1. Init => IInv
    <2> SUFFICES ASSUME Init PROVE IInv
      OBVIOUS
    <2>1. pc = "idle" /\ fields = None /\ passwords = {} /\ written = {}
      BY DEF Init
    <2> QED BY <2>1 DEF IInv, PasswordsAreStrong
  <1> QED BY <1>1, InvNext, PTL DEF Spec

------------------------------------------------------------------------------

\* Whichever way a password comes, it satisfies all the rules.
THEOREM Strong == Spec => []PasswordsAreStrong
  <1>1. IInv => PasswordsAreStrong
    BY DEF IInv
  <1> QED BY <1>1, Invariant, PTL

------------------------------------------------------------------------------
(* Answers *)

\* What an error may say of a request for one's own PATCH: nothing of a column that was dropped.
Restrained(message, violations) ==
    message # "username_or_email_is_already_taken" /\ \A v \in violations : v[1] \in Own

\* An error as the program makes them for payload p: its texts are its own, only an UNKNOWN one has
\* the code of a failure and says nothing about it.
Sound(e, p) ==
    /\ e.code \in {1000, 1001, 1002, 1003, 1004, 1005, 1006, 2000}
    /\ e.message \in Message
    /\ e.violations \in SUBSET (Name \X Name)
    /\ e.code = 2000 => e.message = "internal_server_error"
    /\ p.kind = "patch_mine" => Restrained(e.message, e.violations)

\* What a client reads in the answer to payload p when it is an error.
Explains(response, p) ==
    /\ response \in Response /\ response.error \in ErrorBody
    /\ response.body = "json" /\ ~response.data
    /\ response.status >= 400
    /\ response.error.message \in Message
    /\ response.error.errors # None => response.status = 422
    /\ response.status = 500 =>
          response.error.message = "internal_server_error" /\ response.error.errors = None
    /\ p.kind = "patch_mine" =>
          Restrained(response.error.message,
                     IF response.error.errors = None THEN {} ELSE response.error.errors)

LEMMA CodeValues ==
    /\ Code.VALIDATION_FAILED = 1000 /\ Code.NOT_FOUND = 1001 /\ Code.UNAUTHORIZED = 1002
    /\ Code.BAD_REQUEST = 1003 /\ Code.RESOURCE_CONFLICT = 1004 /\ Code.UNPROCESSABLE = 1005
    /\ Code.FORBIDDEN = 1006 /\ Code.UNKNOWN = 2000
  BY DEF Code

\* Every code is answered with the status of an error, only UNKNOWN with a 500, and a validation
\* error with a 422.
LEMMA StatusIsAnError ==
    ASSUME NEW code \in {1000, 1001, 1002, 1003, 1004, 1005, 1006, 2000}
    PROVE  /\ StatusFor(code) \in Int /\ StatusFor(code) >= 400
           /\ StatusFor(code) = 500 => code = 2000
           /\ code = 1000 => StatusFor(code) = 422
  BY CodeValues DEF StatusFor

\* Whatever an error is, its envelope explains it.
LEMMA EnvelopeExplains ==
    ASSUME NEW e, NEW p, Sound(e, p)
    PROVE  Explains(Envelope(e), p)
  <1> DEFINE status == StatusFor(e.code)
             errors == IF e.code = 1000 THEN e.violations ELSE None
             body == [code |-> status, message |-> e.message, errors |-> errors]
             envelope == Envelope(e)
  <1>1. /\ status \in Int /\ status >= 400 /\ (status = 500 => e.code = 2000)
        /\ errors # None => status = 422
    <2>1. e.code \in {1000, 1001, 1002, 1003, 1004, 1005, 1006, 2000}
      BY DEF Sound
    <2> QED BY <2>1, StatusIsAnError
  <1>2. envelope = [status |-> status, body |-> "json", data |-> FALSE, error |-> body]
    BY CodeValues DEF Envelope
  <1>3. e.message \in Message /\ errors \in {None} \cup SUBSET (Name \X Name)
    BY DEF Sound
  <1>4. e.code = 2000 => e.message = "internal_server_error" /\ errors = None
    <2>1. e.code = 2000 => errors = None
      OBVIOUS
    <2> QED BY <2>1 DEF Sound
  <1>5. p.kind = "patch_mine" => Restrained(e.message, IF errors = None THEN {} ELSE errors)
    BY DEF Sound, Restrained
  <1> HIDE DEF status, errors
  <1>6. body \in ErrorBody
    BY <1>1, <1>3 DEF ErrorBody
  <1>7. body.code = status /\ body.message = e.message /\ body.errors = errors
    OBVIOUS
  <1> HIDE DEF body, envelope
  <1>8. /\ envelope.error = body /\ envelope.status = status
        /\ envelope.body = "json" /\ envelope.data = FALSE
    BY <1>2, Zenon
  <1>9. envelope \in Response
    BY <1>1, <1>2, <1>6 DEF Response
  <1>10. Explains(envelope, p)
    BY <1>1, <1>3, <1>4, <1>5, <1>6, <1>7, <1>8, <1>9 DEF Explains
  <1> QED BY <1>10 DEF envelope

\* The constructors of errors, for any payload.
LEMMA AppSound ==
    ASSUME NEW code \in {1000, 1001, 1002, 1003, 1004, 1005, 1006}, NEW message \in Message,
           NEW cause, NEW p,
           p.kind = "patch_mine" => message # "username_or_email_is_already_taken"
    PROVE  Sound(App(code, message), p) /\ Sound(WithCause(App(code, message), cause), p)
  <1> DEFINE e == App(code, message)
             f == WithCause(e, cause)
  <1>1. e.code = code /\ e.message = message /\ e.violations = {}
    BY DEF App
  <1>2. f.code = code /\ f.message = message /\ f.violations = {}
    BY DEF App, WithCause
  <1>3. code # 2000
    OBVIOUS
  <1>4. p.kind = "patch_mine" => Restrained(message, {})
    BY DEF Restrained
  <1> HIDE DEF e, f
  <1>5. Sound(e, p)
    BY <1>1, <1>3, <1>4 DEF Sound
  <1>6. Sound(f, p)
    BY <1>2, <1>3, <1>4 DEF Sound
  <1> QED BY <1>5, <1>6 DEF e, f

LEMMA UnknownSound ==
    ASSUME NEW p, NEW e \in Unknowns
    PROVE  Sound(e, p)
  <1>1. e.code = 2000 /\ e.message = "internal_server_error" /\ e.violations = {}
    BY CodeValues DEF Unknowns, Unknown, App, WithCause
  <1>2. e.message \in Message /\ e.message # "username_or_email_is_already_taken"
    BY <1>1 DEF Message
  <1>3. Restrained(e.message, e.violations)
    BY <1>1, <1>2 DEF Restrained
  <1> QED BY <1>1, <1>2, <1>3 DEF Sound

LEMMA ValidationSound ==
    ASSUME NEW message \in Message, NEW violations \in SUBSET (Name \X Name), NEW p,
           p.kind = "patch_mine" => Restrained(message, violations)
    PROVE  Sound(Validation(message, violations), p)
  <1> DEFINE e == Validation(message, violations)
  <1>1. e.code = 1000 /\ e.message = message /\ e.violations = violations
    BY CodeValues DEF Validation
  <1>2. e.code # 2000
    BY <1>1
  <1> HIDE DEF e
  <1>3. Sound(e, p)
    BY <1>1, <1>2 DEF Sound
  <1> QED BY <1>3 DEF e

LEMMA ViolationNames ==
    {"password", "strong-pwd", "status", "field_must_be_of_valid_type", "department_id",
     "invalid_department_id_provided"} \cup Rule \subseteq Name
  BY DEF Name

\* The messages of the services' errors; only one is about a column that one's own PATCH drops.
LEMMA Messages ==
    /\ {"user_does_not_exists", "invalid_payload_fields", "invalid_username_or_password",
        "invalid_or_malformed_refresh_token", "invalid_email_address", "invalid_or_expired_token",
        "failed_payload_validation", "malformed_or_missing_jwt_token", "invalid_json_body"}
       \subseteq Message \ {"username_or_email_is_already_taken"}
    /\ "username_or_email_is_already_taken" \in Message
  BY DEF Message

\* map_domain_error: an error is sound for p unless it is about a column that p may not change.
LEMMA DomainErrorSound ==
    ASSUME NEW p
    PROVE  /\ Sound(DomainError.UserNotFound, p)
           /\ Sound(DomainError.DepartmentNotFoundConstraint, p)
           /\ p.kind # "patch_mine" => /\ Sound(DomainError.UserDuplicateConstraint, p)
                                      /\ Sound(DomainError.StatusNotFound, p)
  <1> DEFINE department == {<<"department_id", "invalid_department_id_provided">>}
             status == {<<"status", "field_must_be_of_valid_type">>}
  <1>1. department \in SUBSET (Name \X Name) /\ status \in SUBSET (Name \X Name)
    BY ViolationNames
  <1>2. Restrained("invalid_payload_fields", department)
    BY DEF Restrained, Own
  <1> HIDE DEF department, status
  <1>3. Sound(App(1001, "user_does_not_exists"), p)
    BY Messages, AppSound
  <1>4. Sound(Validation("invalid_payload_fields", department), p)
    BY <1>1, <1>2, Messages, ValidationSound
  <1>5. p.kind # "patch_mine" => Sound(App(1005, "username_or_email_is_already_taken"), p)
    BY Messages, AppSound
  <1>6. p.kind # "patch_mine" => Sound(Validation("invalid_payload_fields", status), p)
    BY <1>1, Messages, ValidationSound
  <1>7. /\ DomainError.UserNotFound = App(1001, "user_does_not_exists")
        /\ DomainError.DepartmentNotFoundConstraint = Validation("invalid_payload_fields", department)
        /\ DomainError.UserDuplicateConstraint = App(1005, "username_or_email_is_already_taken")
        /\ DomainError.StatusNotFound = Validation("invalid_payload_fields", status)
    BY CodeValues DEF DomainError, department, status
  <1> QED BY <1>3, <1>4, <1>5, <1>6, <1>7

LEMMA UpdateErrorsSound ==
    ASSUME NEW p, NEW columns, p.kind = "patch_mine" => columns \subseteq Own,
           NEW e \in UpdateErrors(columns)
    PROVE  Sound(e, p)
  <1>1. PICK d \in {"UserDuplicateConstraint", "StatusNotFound", "DepartmentNotFoundConstraint"} :
           /\ e = DomainError[d]
           /\ d = "UserDuplicateConstraint" => "email" \in columns
           /\ d = "StatusNotFound" => "status" \in columns
    BY DEF UpdateErrors
  <1>2. p.kind = "patch_mine" => d = "DepartmentNotFoundConstraint"
    BY <1>1 DEF Own
  <1> QED BY <1>1, <1>2, DomainErrorSound

LEMMA AuthErrorsSound ==
    ASSUME NEW kind \in {"login", "refresh", "recovery", "reset"}, NEW e \in AuthErrors(kind), NEW p
    PROVE  Sound(e, p)
  <1>1. \/ e = App(1002, "invalid_username_or_password")
        \/ \E cause \in Cause \cup {None} :
              e = WithCause(App(1002, "invalid_or_malformed_refresh_token"), cause)
        \/ e = App(1001, "invalid_email_address")
        \/ e = App(1003, "invalid_or_expired_token")
    BY CodeValues DEF AuthErrors
  <1> QED BY <1>1, Messages, AppSound

\* The violations of a payload are pairs of names; a PATCH of one's own has none.
LEMMA CollectType ==
    ASSUME NEW p \in Payload
    PROVE  Collect(p) \in SUBSET (Name \X Name) /\ (p.kind = "patch_mine" => Collect(p) = {})
  <1>1. p.wrong \subseteq Name
    BY DEF Payload, Name, Field
  <1>2. "password" \in Name /\ "strong-pwd" \in Name
    BY ViolationNames
  <1>3. {<<field, field>> : field \in p.wrong} \subseteq Name \X Name
    BY <1>1
  <1>4. {<<"password", "strong-pwd">>} \subseteq Name \X Name
    BY <1>2
  <1>5. p.kind = "patch_mine" => p.wrong = {} /\ p.kind \notin HasStrongPassword
    BY PayloadType DEF Checked, HasStrongPassword
  <1> QED BY <1>3, <1>4, <1>5 DEF Collect

\* Where there is an answer, it is the data, the rejection of a strange path, or an error.
AnswerKnown ==
    /\ pc \in {"idle", "authenticate", "path", "body", "validate", "service", "write", "answered"}
    /\ pc = "idle" => payload = None
    /\ answer # None <=> pc = "answered"
    /\ answer # None =>
          \/ answer = Ok
          \/ answer = PathRejection /\ payload.strange
          \/ Explains(answer, payload)

LEMMA AnswerNext == IInv /\ AnswerKnown /\ [Next]_vars => AnswerKnown'
  <1> SUFFICES ASSUME IInv, AnswerKnown, [Next]_vars PROVE AnswerKnown'
    OBVIOUS
  <1> USE DEF AnswerKnown
  <1>1. ASSUME NEW response, Respond(response), pc # "idle", Explains(response, payload)
        PROVE  AnswerKnown'
    <2>1. response # None
      BY <1>1, ConstantsAssumption, Zenon DEF Explains
    <2> QED BY <1>1, <2>1, Zenon DEF Respond
  <1>2. ASSUME NEW step \in {"path", "body", "validate", "service", "write"}, Goto(step),
               pc # "idle", pc # "answered"
        PROVE  AnswerKnown'
    BY <1>2 DEF Goto
  <1>3. Ok # None
    <2>1. Ok \in Response
      BY DEF Ok, Response
    <2> QED BY <2>1, ConstantsAssumption
  <1>4. ASSUME NEW errors, Serve(errors), pc = "write",
               \A e \in errors : Sound(e, payload)
        PROVE  AnswerKnown'
    <2>1. CASE \E error \in errors \cup Unknowns : Respond(Envelope(error))
      BY <1>1, <1>4, <2>1, UnknownSound, EnvelopeExplains
    <2>2. CASE ~ \E error \in errors \cup Unknowns : Respond(Envelope(error))
      <3>1. /\ pc' = "answered" /\ payload' = payload
            /\ answer' \in {Ok} \cup {Envelope(error) : error \in Unknowns}
        BY <1>4, <2>2, Zenon DEF Serve
      <3>2. answer' = Ok \/ Explains(answer', payload)
        BY <3>1, UnknownSound, EnvelopeExplains, Zenon
      <3>3. answer' # None
        BY <1>3, <3>2, ConstantsAssumption, Zenon DEF Explains
      <3> QED BY <3>1, <3>2, <3>3
    <2> QED BY <2>1, <2>2
  <1>5. ASSUME NEW p \in Payload, Arrive(p) PROVE AnswerKnown'
    BY <1>5 DEF Arrive
  <1>6. CASE Authenticate
    BY <1>1, <1>2, <1>6, CodeValues, Messages, AppSound, EnvelopeExplains DEF Authenticate
  <1>7. CASE ReadPath
    <2>1. PathRejection # None
      <3>1. PathRejection \in Response
        BY DEF PathRejection, Response
      <3> QED BY <3>1, ConstantsAssumption
    <2>2. CASE payload.strange
      BY <1>7, <2>1, <2>2 DEF ReadPath, Respond
    <2> QED BY <1>2, <1>7, <2>2 DEF ReadPath
  <1>8. CASE ReadBody
    BY <1>1, <1>2, <1>8, CodeValues, Messages, AppSound, EnvelopeExplains DEF ReadBody
  <1>9. CASE Validate
    <2>1. CASE Collect(payload) # {}
      <3>1. payload \in Payload
        BY <1>9 DEF Validate, IInv
      <3>2. Collect(payload) \in SUBSET (Name \X Name) /\ payload.kind # "patch_mine"
        BY <2>1, <3>1, CollectType
      <3>3. Explains(Envelope(Validation("failed_payload_validation", Collect(payload))), payload)
        BY <3>2, Messages, ValidationSound, EnvelopeExplains
      <3> QED BY <1>1, <1>9, <2>1, <3>3 DEF Validate
    <2>2. CASE Collect(payload) = {}
      BY <1>9, <2>2 DEF Validate
    <2> QED BY <2>1, <2>2
  <1>10. CASE CheckPassword
    <2> DEFINE broken == {<<"password", rule>> : rule \in PasswordChecker(fields.password)}
    <2>1. broken \in SUBSET (Name \X Name)
      <3>1. PasswordChecker(fields.password) \subseteq Rule
        BY DEF PasswordChecker, Rule
      <3> QED BY <3>1, ViolationNames
    <2>2. ASSUME fields.password # None
          PROVE  Explains(Envelope(Validation("invalid_payload_fields", broken)), payload)
      <3>1. payload.kind # "patch_mine"
        BY <1>10, <2>2, Restricted DEF CheckPassword, IInv
      <3> HIDE DEF broken
      <3> QED BY <2>1, <3>1, Messages, ValidationSound, EnvelopeExplains
    <2>3. ASSUME NEW error \in Unknowns \cup {DomainError.UserNotFound}, Respond(Envelope(error))
          PROVE  AnswerKnown'
      <3>1. Sound(error, payload)
        BY UnknownSound, DomainErrorSound
      <3> QED BY <1>1, <1>10, <2>3, <3>1, EnvelopeExplains DEF CheckPassword
    <2> QED BY <1>1, <1>2, <1>10, <2>2, <2>3 DEF CheckPassword
  <1>11. CASE Create
    <2>1. \A e \in CreateErrors : Sound(e, payload)
      BY <1>11, DomainErrorSound DEF Create, CreateErrors
    <2> QED BY <1>4, <1>11, <2>1 DEF Create
  <1>12. CASE PartialUpdate
    <2>1. payload.kind = "patch_mine" => fields.columns \subseteq Own
      BY <1>12, Restricted DEF PartialUpdate, IInv
    <2>2. \A e \in UpdateErrors(fields.columns) : Sound(e, payload)
      BY <2>1, UpdateErrorsSound
    <2> QED BY <1>4, <1>12, <2>2 DEF PartialUpdate
  <1>13. CASE AuthService
    <2>1. \A e \in AuthErrors(payload.kind) : Sound(e, payload)
      BY <1>13, AuthErrorsSound DEF AuthService
    <2> QED BY <1>4, <1>13, <2>1 DEF AuthService
  <1>14. CASE Send
    BY <1>14 DEF Send
  <1>15. CASE UNCHANGED vars
    BY <1>15 DEF vars
  <1> QED
    BY <1>5, <1>6, <1>7, <1>8, <1>9, <1>10, <1>11, <1>12, <1>13, <1>14, <1>15 DEF Next

\* Every answer is known, along with what has been checked of the request.
THEOREM AnswersAreKnown == Spec => [](IInv /\ AnswerKnown)
  <1>1. Init => AnswerKnown
    BY DEF Init, AnswerKnown
  <1> QED BY <1>1, AnswerNext, Invariant, PTL DEF Spec

------------------------------------------------------------------------------

\* Every variable holds a value of its type, every answer a response with an error body or none.
THEOREM TypeCorrect == Spec => []TypeOK
  <1>1. IInv /\ AnswerKnown => TypeOK
    <2> SUFFICES ASSUME IInv, AnswerKnown PROVE TypeOK
      OBVIOUS
    <2>1. payload \in Payload \cup {None} /\ (payload = None <=> pc = "idle")
      BY ConstantsAssumption DEF IInv, AnswerKnown
    <2>2. Ok \in Response /\ PathRejection \in Response
      BY DEF Ok, PathRejection, Response
    <2>3. answer \in Response \cup {None}
      BY <2>2, Zenon DEF AnswerKnown, Explains
    <2>4. fields \in Fields \cup {None} /\ (pc \in {"service", "write"} => fields # None)
      BY ConstantsAssumption DEF IInv
    <2> QED BY <2>1, <2>3, <2>4 DEF IInv, AnswerKnown, TypeOK
  <1> QED BY <1>1, AnswersAreKnown, PTL

\* The answer to every request is the one envelope, whatever is wrong with it and whatever fails.
THEOREM Envelopes == Spec => []AnswersAreEnvelopes
  <1>1. IInv /\ AnswerKnown => AnswersAreEnvelopes
    <2> SUFFICES ASSUME AnswerKnown, answer # None
                 PROVE  \/ answer.body = "text" /\ payload.strange
                        \/ /\ answer.body = "json"
                           /\ (answer.data <=> answer.error = None)
                           /\ (answer.data <=> answer.status = 200)
                           /\ (~answer.data => /\ answer.status >= 400
                                               /\ (answer.error.errors # None => answer.status = 422))
      BY DEF AnswersAreEnvelopes
    <2>1. CASE answer = Ok
      BY <2>1 DEF Ok
    <2>2. CASE answer = PathRejection /\ payload.strange
      BY <2>2 DEF PathRejection
    <2>3. CASE Explains(answer, payload)
      <3>1. answer.error # None
        BY <2>3, ConstantsAssumption, Zenon DEF Explains
      <3>2. answer.status \in Int
        BY <2>3 DEF Explains, Response
      <3> QED BY <2>3, <3>1, <3>2 DEF Explains
    <2> QED BY <2>1, <2>2, <2>3 DEF AnswerKnown
  <1> QED BY <1>1, AnswersAreKnown, PTL

\* No answer shows the cause of an error, and a 500 does not explain itself.
THEOREM CausesInside == Spec => []CausesStayInside
  <1>1. IInv /\ AnswerKnown => CausesStayInside
    <2> SUFFICES ASSUME AnswerKnown, answer # None, answer.error # None
                 PROVE  /\ answer.error.message \notin Cause
                        /\ (answer.status = 500 =>
                               /\ answer.error.message = "internal_server_error"
                               /\ answer.error.errors = None)
      BY DEF CausesStayInside
    <2>1. Explains(answer, payload)
      BY DEF AnswerKnown, Ok, PathRejection
    <2> QED BY <2>1, ConstantsAssumption DEF Explains
  <1> QED BY <1>1, AnswersAreKnown, PTL

\* A PATCH of one's own changes no email, status, password or role, and is refused for none.
THEOREM OwnPatch == Spec => []OwnPatchIsRestricted
  <1>1. IInv /\ AnswerKnown => OwnPatchIsRestricted
    <2> SUFFICES ASSUME IInv, AnswerKnown, payload # None, payload.kind = "patch_mine"
                 PROVE  OwnPatchIsRestricted
      BY DEF OwnPatchIsRestricted
    <2>1. written \subseteq Own
      BY DEF IInv, AnswerKnown
    <2>2. ASSUME answer # None, answer.error # None
          PROVE  /\ answer.error.message # "username_or_email_is_already_taken"
                 /\ answer.error.errors # None => \A v \in answer.error.errors : v[1] \in Own
      <3>1. Explains(answer, payload)
        BY <2>2 DEF AnswerKnown, Ok, PathRejection
      <3> QED BY <3>1 DEF Explains, Restrained
    <2> QED BY <2>1, <2>2 DEF OwnPatchIsRestricted
  <1> QED BY <1>1, AnswersAreKnown, PTL

===============================================================================
