------------------------------ MODULE Startup ------------------------------
(***************************************************************************)
(* What a process makes of its environment before it serves: the command   *)
(* it is, the log settings, the key ring, the optional configuration file  *)
(* with its encrypted values, the authentication settings layered from     *)
(* environment, file and defaults, and the request bounds.  Everything     *)
(* here is a pure operator, as it is in the code; Service takes the steps. *)
(*                                                                         *)
(* A result is Ok(v) or Err(e).  A raw setting is a text, reduced to what  *)
(* its parser tells apart; Unset is a variable or key that is not there.   *)
(***************************************************************************)
EXTENDS Naturals, Sequences, SequencesExt, FiniteSets

Ok(v) == [val |-> v]
Err(e) == [err |-> e]
IsErr(r) == "err" \in DOMAIN r

\* Texts.  is: "unset", "blank", "junk" or what the text spells.
Unset == [is |-> "unset"]
Blank == [is |-> "blank"]
Junk == [is |-> "junk"]
Number(n) == [is |-> "number", n |-> n]
Flag(b) == [is |-> "flag", on |-> b]
Span(n, scale) == [is |-> "span", n |-> n, scale |-> scale]
Word(w) == [is |-> "word", word |-> w]
Secret(s, length) == [is |-> "secret", word |-> s, length |-> length]

CONSTANTS
    MaxSeconds,         \* the largest u64, scaled down
    MinSecretBytes,     \* MIN_SECRET_BYTES
    KeyLength           \* KEY_LENGTH

ASSUME StartupConstants ==
    MaxSeconds \in Nat /\ MinSecretBytes \in Nat /\ KeyLength \in Nat

-----------------------------------------------------------------------------
(* The bounds main reads from the environment.  An unset or blank variable *)
(* keeps the default, a text that is no number panics, and zero is a        *)
(* refusal, an off switch or a value, depending on the bound.               *)

Bound(raw, default, zero) ==
    CASE raw \in {Unset, Blank} -> Ok(default)
      [] raw = Junk -> Err("not_a_number")
      [] raw = Number(0) -> zero
      [] OTHER -> Ok(raw.n)

NoBound == 0        \* None: no timeout, no cap
DefaultLockTimeout == 5000
DefaultBody == 50
DefaultTimeout == 300
DefaultConcurrency == 128

LockTimeoutFrom(raw) == Bound(raw, DefaultLockTimeout, Ok(0))
MaxBodyBytesFrom(raw) == Bound(raw, DefaultBody, Err("body_zero"))
RequestTimeoutFrom(raw) == Bound(raw, DefaultTimeout, Ok(NoBound))
MaxConcurrencyFrom(raw) == Bound(raw, DefaultConcurrency, Ok(NoBound))

\* install_subscriber: the filter and the format, each with its default.
LogFilterFrom(raw) == IF raw = Junk THEN Err("log_filter") ELSE Ok(raw)
LogFormatFrom(raw) ==
    IF raw \in {Unset, Blank, Word("compact"), Word("json")} THEN Ok(raw) ELSE Err("log_format")

-----------------------------------------------------------------------------
(* The key ring.  A key file is Unset, unreadable, no document, or the      *)
(* sequence of its entries [id, key, length]; a key that is not base64 has  *)
(* the length 0 and is refused as malformed.                                *)

NoRing == <<>>

ParseKeyRing(entries) ==
    LET bad == {i \in DOMAIN entries : entries[i].length # KeyLength} IN
    IF bad = {} THEN Ok(entries)
    ELSE LET first == CHOOSE i \in bad : \A j \in bad : i <= j IN
         Err(IF entries[first].length = 0 THEN "key_file_malformed" ELSE "key_length")

LoadKeyRing(keyFile) ==
    CASE keyFile = Unset -> Ok(NoRing)
      [] keyFile = Junk -> Err("key_file_malformed")
      [] keyFile = Blank -> Err("key_file_unreadable")
      [] OTHER -> ParseKeyRing(keyFile.entries)

\* KeyRing::get: the first key with the identifier.
RingHas(ring, id) == \E i \in DOMAIN ring : ring[i].id = id
RingGet(ring, id) ==
    LET i == CHOOSE i \in DOMAIN ring :
                 ring[i].id = id /\ \A j \in 1..(i - 1) : ring[j].id # id IN
    ring[i].key

-----------------------------------------------------------------------------
(* The configuration file.  A document maps the keys it has to JSON values; *)
(* a value has the JSON type its text would be read as.                     *)

KnownKeys == {"version", "auth_required", "jwt_secret", "jwt_secret_file",
              "access_token_ttl", "refresh_token_ttl",
              "bootstrap_username", "bootstrap_password"}

SecretKeys == {"jwt_secret", "bootstrap_password"}

Json(type, text) == [type |-> type, text |-> text]

\* An encrypted value: key is the one it was sealed with, intact says that
\* nonce and ciphertext are the ones that were written, well that it has
\* every field of an envelope.
Envelope(version, algorithm, id, key, intact, well, text) ==
    [type |-> "object", version |-> version, algorithm |-> algorithm, id |-> id,
     key |-> key, intact |-> intact, well |-> well, text |-> text]

CheckField(key, value) ==
    \/ value.type = "null"
    \/ key = "auth_required" /\ value.type = "boolean"
    \/ key \in SecretKeys /\ value.type \in {"string", "object"}
    \/ key \notin SecretKeys \union {"auth_required"} /\ value.type = "string"

CheckShape(doc) ==
    /\ DOMAIN doc \subseteq KnownKeys
    /\ "version" \in DOMAIN doc
    /\ doc["version"].type = "number"
    /\ \A key \in DOMAIN doc \ {"version"} : CheckField(key, doc[key])

\* The typed parse: an object that is no envelope fits no SecretValue.
Typed(doc) == \A key \in DOMAIN doc \intersect SecretKeys :
                  doc[key].type = "object" => doc[key].well

ConfigParse(file) ==
    CASE file = Blank -> Err("file_unreadable")
      [] file = Junk -> Err("file_malformed")
      [] OTHER ->
            IF ~CheckShape(file.doc) \/ ~Typed(file.doc) THEN Err("file_malformed")
            ELSE IF file.doc["version"].text # Number(1) THEN Err("file_version")
            ELSE Ok(file.doc)

ResolveSecret(value, ring) ==
    IF value.type # "object" THEN Ok(value)
    ELSE IF value.version # 1 THEN Err("envelope_version")
    ELSE IF value.algorithm # "aes-256-gcm" THEN Err("envelope_algorithm")
    ELSE IF ~RingHas(ring, value.id) THEN Err("unknown_key")
    ELSE IF RingGet(ring, value.id) # value.key \/ ~value.intact THEN Err("decryption")
    ELSE Ok(Json("string", value.text))

ResolveSecrets(doc, ring) ==
    LET resolved == [key \in DOMAIN doc |->
                        IF key \in SecretKeys THEN ResolveSecret(doc[key], ring)
                        ELSE Ok(doc[key])] IN
    IF \E key \in DOMAIN doc : IsErr(resolved[key])
    THEN Err("file_secret")
    ELSE Ok([key \in DOMAIN doc |-> resolved[key].val])

NoDocument == [key \in {} |-> 0]

\* The ring is loaded first, whether a file is named or not.
LoadFromEnv(keyFile, file) ==
    LET ring == LoadKeyRing(keyFile) IN
    IF IsErr(ring) THEN ring
    ELSE IF file = Unset THEN Ok(NoDocument)
    ELSE LET doc == ConfigParse(file) IN
         IF IsErr(doc) THEN doc ELSE ResolveSecrets(doc.val, ring.val)

-----------------------------------------------------------------------------
(* The authentication settings: the environment wins, key by key.           *)

\* file_lookup: a null in the file is a key that is not there.
FileText(doc, key) ==
    IF key \in DOMAIN doc /\ doc[key].type # "null" THEN doc[key].text ELSE Unset

\* Lookup with the two sources swapped.
LookupFileFirst(env, doc, key) ==
    IF FileText(doc, key) # Unset THEN FileText(doc, key) ELSE env[key]

Lookup(env, doc, key) == IF env[key] # Unset THEN env[key] ELSE FileText(doc, key)

\* The parsers.
ParseBool(raw) == IF raw.is = "flag" THEN Ok(raw.on) ELSE Err("not_a_flag")

ParseDuration(raw) ==
    IF raw.is # "span" \/ raw.n = 0 \/ raw.n * raw.scale > MaxSeconds
    THEN Err("not_a_duration")
    ELSE Ok(raw.n * raw.scale)

DefaultAccessTtl == 15 * 60
DefaultRefreshTtl == 14 * 24 * 60 * 60

Or(raw, parsed, default) == IF raw = Unset THEN Ok(default) ELSE parsed

\* read_secret_file: a path names a file that is there, with the secret in it
\* trimmed, or one that cannot be read.
ReadSecretFile(path) == IF path = Junk THEN Err("secret_file") ELSE Ok(path)

SigningSecret(inline, path, required) ==
    CASE inline # Unset /\ path # Unset -> Err("secret_conflict")
      [] inline = Unset /\ path = Unset -> IF required THEN Err("secret_missing") ELSE Ok(Unset)
      [] inline = Unset /\ IsErr(ReadSecretFile(path)) -> ReadSecretFile(path)
      [] OTHER -> LET secret == IF inline # Unset THEN inline ELSE path IN
                  IF secret.length < MinSecretBytes THEN Err("secret_short") ELSE Ok(secret)

FirstError(results) ==
    LET i == CHOOSE i \in DOMAIN results :
                 IsErr(results[i]) /\ \A j \in 1..(i - 1) : ~IsErr(results[j]) IN
    results[i]

\* AuthConfig::from_single_lookup.
AuthConfig(env, doc) ==
    LET At(key) == Lookup(env, doc, key)
        required == Or(At("auth_required"), ParseBool(At("auth_required")), FALSE)
        access == Or(At("access_token_ttl"), ParseDuration(At("access_token_ttl")),
                     DefaultAccessTtl)
        refresh == Or(At("refresh_token_ttl"), ParseDuration(At("refresh_token_ttl")),
                      DefaultRefreshTtl)
        secret == IF IsErr(required) THEN required
                  ELSE SigningSecret(At("jwt_secret"), At("jwt_secret_file"), required.val)
        name == At("bootstrap_username")
        bootstrap == IF (name # Unset) # (At("bootstrap_password") # Unset)
                     THEN Err("bootstrap_incomplete") ELSE Ok(name)
        results == <<required, access, refresh, secret, bootstrap>> IN
    IF \E i \in DOMAIN results : IsErr(results[i]) THEN FirstError(results)
    ELSE Ok([required |-> required.val, access_ttl |-> access.val,
             refresh_ttl |-> refresh.val, jwt_secret |-> secret.val,
             bootstrap_username |-> name])
=============================================================================
