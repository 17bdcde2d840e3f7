---------------------------- MODULE MCService ----------------------------
(* An instance of Service for TLC: a write with a token (perhaps the delete *)
(* of a project) and a probe without; a plain environment and those that    *)
(* differ from it in one or two settings, each the boundary of a rule.      *)
EXTENDS Service, TLC

MCRequests == {"w", "p"}
MCKind == [r \in MCRequests |-> IF r = "p" THEN "probe" ELSE "write"]
MCActor == [r \in MCRequests |-> IF r = "w" THEN "alice" ELSE Anonymous]

Good == Secret("s", MinSecretBytes)
Short == Secret("s", MinSecretBytes - 1)
Str(text) == Json("string", text)

NoEnv == [key \in KnownKeys \ {"version"} |-> Unset]
\* The first key of a name is the one that counts.
Ring(length) == [is |-> "ring", entries |-> <<[id |-> "new", key |-> "k2", length |-> KeyLength],
                                              [id |-> "old", key |-> "k1", length |-> length],
                                              [id |-> "new", key |-> "k1", length |-> KeyLength]>>]
Doc(extra) == [is |-> "file", doc |-> extra @@ ("version" :> Json("number", Number(1)))]
SealedSecret(version, id, key, well) ==
    Doc("jwt_secret" :> Envelope(version, "aes-256-gcm", id, key, TRUE, well, Good))

\* A collection nobody reserved, and a reserved one without documents.
Harmless == ("suites" :> {Document})
         @@ ("milestones" :> {[Document EXCEPT !.file = FALSE], [Document EXCEPT !.json = FALSE],
                              [Document EXCEPT !.dotted = TRUE]})

Base == [command |-> None, log |-> Unset, log_format |-> Unset, key_file |-> Unset,
         file |-> Unset, lock_timeout |-> Unset, root |-> Harmless, env |-> NoEnv,
         max_body |-> Unset, request_timeout |-> Unset, max_concurrency |-> Number(1)]

Enforcing == [Base EXCEPT
    !.env["auth_required"] = Flag(TRUE), !.env["jwt_secret"] = Good,
    !.env["bootstrap_username"] = Word("root"), !.env["bootstrap_password"] = Word("pw")]

\* Environments that serve: a file under the environment, with a null in it, no
\* cap and no timeout; an encrypted secret, with a cap of one.
Layered == [Base EXCEPT
    !.file = Doc(("auth_required" :> Json("boolean", Flag(TRUE)))
                 @@ ("jwt_secret_file" :> Json("null", Junk))
                 @@ ("access_token_ttl" :> Str(Span(MaxSeconds, 1)))),
    !.env["auth_required"] = Flag(FALSE),
    !.log_format = Word("json"), !.lock_timeout = Number(0),
    !.max_concurrency = Number(0), !.request_timeout = Number(0)]

Sealing == [Enforcing EXCEPT
    !.env["jwt_secret"] = Unset,
    !.key_file = Ring(KeyLength), !.file = SealedSecret(1, "old", "k1", TRUE)]

Serves == {Layered, Sealing}

Refused ==
    { [Base EXCEPT !.command = "frobnicate"], [Base EXCEPT !.log = Junk],
      [Base EXCEPT !.log_format = Word("xml")], [Base EXCEPT !.lock_timeout = Junk],
      [Base EXCEPT !.root = "test_runs" :> {Document}], [Base EXCEPT !.key_file = Blank],
      [Base EXCEPT !.key_file = Junk], [Base EXCEPT !.key_file = Ring(KeyLength - 1)],
      [Base EXCEPT !.key_file = Ring(0)],
      [Base EXCEPT !.file = Blank], [Base EXCEPT !.file = Junk],
      [Base EXCEPT !.file = Doc("jwt_secrets" :> Str(Good))],
      [Base EXCEPT !.file = Doc("version" :> Json("number", Number(2)))],
      [Base EXCEPT !.file = Doc("version" :> Str(Number(1)))],
      [Base EXCEPT !.file = [is |-> "file", doc |-> "auth_required" :> Json("boolean", Flag(FALSE))]],
      [Base EXCEPT !.file = Doc("auth_required" :> Str(Flag(TRUE)))],
      [Base EXCEPT !.file = Doc("jwt_secret" :> Json("number", Good))],
      [Base EXCEPT !.file = SealedSecret(1, "old", "k1", TRUE)],
      [Base EXCEPT !.key_file = Ring(KeyLength), !.file = SealedSecret(2, "old", "k1", TRUE)],
      [Base EXCEPT !.key_file = Ring(KeyLength), !.file = SealedSecret(1, "gone", "k1", TRUE)],
      [Base EXCEPT !.key_file = Ring(KeyLength), !.file = SealedSecret(1, "new", "k1", TRUE)],
      [Base EXCEPT !.key_file = Ring(KeyLength), !.file = SealedSecret(1, "old", "k1", FALSE)],
      [Base EXCEPT !.env["auth_required"] = Junk],
      [Base EXCEPT !.env["access_token_ttl"] = Span(0, 60)],
      [Base EXCEPT !.env["refresh_token_ttl"] = Span(MaxSeconds \div 60 + 1, 60)],
      [Base EXCEPT !.env["jwt_secret"] = Short],
      [Base EXCEPT !.env["jwt_secret_file"] = Junk],
      [Base EXCEPT !.env["jwt_secret"] = Good, !.file = Doc("jwt_secret_file" :> Str(Good))],
      [Enforcing EXCEPT !.env["jwt_secret"] = Unset],
      [Enforcing EXCEPT !.env["bootstrap_password"] = Unset],
      [Enforcing EXCEPT !.env["bootstrap_username"] = Unset, !.env["bootstrap_password"] = Unset],
      [Enforcing EXCEPT !.max_body = Number(0)],
      [Enforcing EXCEPT !.request_timeout = Junk],
      [Base EXCEPT !.max_concurrency = Junk] }

\* The next start, with another bootstrap account in its environment.
MCRestarts == {[Sealing EXCEPT !.env["bootstrap_username"] = Word("other")]}
MCDeployments == Serves \union Refused \union MCRestarts
=============================================================================
