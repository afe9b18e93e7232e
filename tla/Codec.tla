------------------------------- MODULE Codec -------------------------------
(***************************************************************************)
(* The field codec src/config.rs calls, encrypt_str_or_original and        *)
(* decrypt_str_or_original of password_security (not under src/; written   *)
(* from spec 4.2).  A stored field is plain text or a ciphertext tagged    *)
(* with its version; a ciphertext made on another machine, or of another  *)
(* version, does not decrypt.  Plain text longer than 128 bytes is stored  *)
(* as it is.                                                               *)
(***************************************************************************)
CONSTANTS
    Strings,    \* plain text values, "" among them
    Long,       \* those longer than ENCRYPT_MAX_LEN (128)
    NoPlain     \* text that is no value of Strings: what a foreign ciphertext reads as

ASSUME CodecAssumption == "" \in Strings /\ Long \subseteq Strings /\ "" \notin Long

Current == "00"     \* PASSWORD_ENC_VERSION

Plain(s) == [kind |-> "plain", v |-> s]

Cipher(s, ver) == [kind |-> "ct", v |-> s, ver |-> ver]

Field == [kind : {"plain"}, v : Strings]
         \cup [kind : {"ct"}, v : Strings \cup {NoPlain}, ver : {Current, "other"}]

(* encrypt_str_or_original(s, version, max_len): "" and over-long text are *)
(* kept as they are, anything else is encrypted with the current version.  *)
EncryptStr(s) ==
    IF s = "" \/ s \in Long THEN Plain(s) ELSE Cipher(s, Current)

(* decrypt_str_or_original(f, version): (plain, was_encrypted,             *)
(* needs_rewrite).  A current ciphertext decrypts; anything else comes     *)
(* back unchanged, with a rewrite requested when it is not "".             *)
DecryptStr(f) ==
    IF f.kind = "ct" /\ f.ver = Current
    THEN [plain |-> f.v, encrypted |-> TRUE, rewrite |-> FALSE]
    ELSE [plain |-> IF f.kind = "plain" THEN f.v ELSE NoPlain, encrypted |-> FALSE,
          rewrite |-> f # Plain("")]
====
