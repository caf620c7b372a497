------------------------------ MODULE GenCert ------------------------------
(***************************************************************************)
(* tor-gencert: a directory authority's tool that loads (or creates) the  *)
(* authority identity key, generates (or reuses) a signing key and writes *)
(* a key certificate binding the two.  One run is parse_commandline,      *)
(* load_identity_key, load_signing_key or generate_signing_key, and       *)
(* generate_certificate, each of which may fail and end the run with     *)
(* exit status 1; runs follow one another on the same files.             *)
(*                                                                         *)
(* Keys are numbered as they are generated; a file holds nothing, an      *)
(* encrypted identity key, an unencrypted signing key, a certificate of  *)
(* an identity key and a signing key, or junk.  OpenSSL, the RNG and the  *)
(* file layer (lib/fs, not in this repository) are outcomes: every call  *)
(* that reports an error may fail.                                        *)
(***************************************************************************)
EXTENDS Integers, Sequences, FiniteSets

CONSTANTS
    Paths,                           \* file names
    DefaultId, DefaultSk, DefaultCert, \* ./authority_identity_key, ...
    Argvs,                           \* the command lines run (without argv[0])
    MaxKeys                          \* bound on the keys generated

VARIABLES
    disk,      \* file name -> content
    pc,        \* "idle" between runs, else the next step of main
    opts,      \* what parse_commandline set
    idKey,     \* identity_key (0: NULL)
    sigKey,    \* signing_key
    nextKey,   \* the next key generate_key returns
    exit,      \* exit status of the last run (-1 before any)
    created,   \* ghost: identity keys installed on disk
    roles      \* ghost: file name -> the roles runs have named it for

vars == <<disk, pc, opts, idKey, sigKey, nextKey, exit, created, roles>>

\* Some file has been named for two roles, in one run or in two.
Aliased == \E p \in Paths : Cardinality(roles[p]) > 1

None == [kind |-> "none", key |-> 0, sk |-> 0]
IdFile(k) == [kind |-> "id", key |-> k, sk |-> 0]
SkFile(k) == [kind |-> "sk", key |-> k, sk |-> 0]
Cert(i, s) == [kind |-> "cert", key |-> i, sk |-> s]
Junk == [kind |-> "junk", key |-> 0, sk |-> 0]

NoPath == "none"

(***************************************************************************)
(* parse_commandline over the tokens from position i.  A missing option   *)
(* argument, -h, an out-of-range -m, an address that does not resolve to  *)
(* IPv4, or an unknown option give 1; a repeated -i, -s or -c gives -1.   *)
(* atoi reads a token that is not a numeral as 0.                         *)
(***************************************************************************)
AtoI(tok) == CASE tok = "12" -> 12 [] tok = "25" -> 25 [] tok = "-1" -> -1
                  [] tok = "3" -> 3 [] OTHER -> 0

FileOpt == [o \in {"-i", "-s", "-c"} |->
              CASE o = "-i" -> "id" [] o = "-s" -> "sk" [] OTHER -> "cert"]

RECURSIVE ParseFrom(_, _, _)
ParseFrom(argv, i, o) ==
  IF i > Len(argv) \/ o.ret # 0 THEN o
  ELSE
  LET a == argv[i]
      hasArg == i + 1 <= Len(argv)
      arg == IF hasArg THEN argv[i + 1] ELSE ""
      Fail(r) == [o EXCEPT !.ret = r]
  IN CASE a \in {"--help", "-h"} -> Fail(1)
       [] a \in DOMAIN FileOpt ->
            IF ~hasArg THEN Fail(1)
            ELSE IF o[FileOpt[a]] # NoPath THEN Fail(-1)
            ELSE ParseFrom(argv, i + 2, [o EXCEPT ![FileOpt[a]] = arg])
       [] a = "-m" ->
            IF ~hasArg \/ AtoI(arg) > 24 \/ AtoI(arg) < 0 THEN Fail(1)
            ELSE ParseFrom(argv, i + 2, [o EXCEPT !.months = AtoI(arg)])
       [] a \in {"-r", "--reuse"} -> ParseFrom(argv, i + 1, [o EXCEPT !.reuse = TRUE])
       [] a = "-v" -> ParseFrom(argv, i + 1, o)
       [] a = "-a" ->
            IF ~hasArg \/ arg # "v4addr" THEN Fail(1)
            ELSE ParseFrom(argv, i + 2, [o EXCEPT !.addr = TRUE])
       [] a = "--create-identity-key" ->
            ParseFrom(argv, i + 1, [o EXCEPT !.makeId = TRUE])
       [] a = "--passphrase-fd" ->
            IF ~hasArg THEN Fail(1)
            ELSE ParseFrom(argv, i + 2, [o EXCEPT !.pfd = AtoI(arg)])
       [] OTHER -> Fail(1)

\* The options after the loop, with the default file names filled in.
ParseCommandline(argv) ==
  LET o == ParseFrom(argv, 1, [ret |-> 0, id |-> NoPath, sk |-> NoPath,
                               cert |-> NoPath, months |-> 12, reuse |-> FALSE,
                               makeId |-> FALSE, pfd |-> -1, addr |-> FALSE])
  IN [o EXCEPT !.id = IF @ = NoPath THEN DefaultId ELSE @,
               !.sk = IF @ = NoPath THEN DefaultSk ELSE @,
               !.cert = IF @ = NoPath THEN DefaultCert ELSE @]

Finish(code) ==
    /\ pc' = "idle" /\ exit' = code
    /\ idKey' = 0 /\ sigKey' = 0

(***************************************************************************)
(* main up to parse_commandline: crypto_global_init or crypto_seed_rng    *)
(* may fail; a nonzero parse_commandline, or a failed load_passphrase     *)
(* when --passphrase-fd was given, ends the run.                         *)
(***************************************************************************)
Start(argv) ==
  /\ pc = "idle"
  /\ LET o == ParseCommandline(argv) IN
     /\ opts' = o
     /\ \/ /\ o.ret = 0 /\ pc' = "identity" /\ UNCHANGED <<exit, idKey, sigKey>>
           /\ roles' = [p \in Paths |->
                          roles[p] \cup {r \in {"id", "sk", "cert"} : o[r] = p}]
        \/ Finish(1) /\ UNCHANGED roles \* init or seeding failed, bad options,
                                          \* or passphrase unread
  /\ UNCHANGED <<disk, nextKey, created>>

(***************************************************************************)
(* load_identity_key.  With --create-identity-key the file must not       *)
(* exist; a new key is generated and written through a temporary file    *)
(* (start_writing_to_stdio_file, PEM_write_PKCS8PrivateKey_nid,          *)
(* finish_writing_to_file, whose result is not checked: the key stays    *)
(* loaded whether or not the file was installed).  Otherwise the file    *)
(* must exist and PEM_read_PrivateKey reads any private key in it (the   *)
(* read of an encrypted one fails with a wrong passphrase).              *)
(***************************************************************************)
Readable(c) == c.kind \in {"id", "sk"}

\* Mutant of NoEntry: the existence check of --create-identity-key dropped.
NoEntryIgnored(c) == TRUE

\* file_status(identity_key_file) is FN_NOENT.
NoEntry(c) == c.kind = "none"

LoadIdentityKey ==
  /\ pc = "identity"
  /\ LET p == opts.id IN
     IF opts.makeId
     THEN \/ /\ NoEntry(disk[p]) /\ nextKey <= MaxKeys
             /\ idKey' = nextKey /\ nextKey' = nextKey + 1
             /\ \/ /\ disk' = [disk EXCEPT ![p] = IdFile(nextKey)]
                   /\ created' = created \cup {nextKey}
                \/ UNCHANGED <<disk, created>>     \* finish_writing_to_file fails
             /\ pc' = "signing" /\ UNCHANGED <<exit, sigKey>>
          \/ /\ Finish(1)  \* file exists, generation, start or PEM write failed
             /\ UNCHANGED <<disk, nextKey, created>>
     ELSE \/ /\ Readable(disk[p])
             /\ idKey' = disk[p].key
             /\ pc' = "signing" /\ UNCHANGED <<exit, sigKey, disk, nextKey, created>>
          \/ /\ Finish(1)  \* no file, fopen or PEM_read failed
             /\ UNCHANGED <<disk, nextKey, created>>
  /\ UNCHANGED <<opts, roles>>

(***************************************************************************)
(* load_signing_key with -r (no passphrase: an encrypted key is read only *)
(* if the one typed at the terminal is right), else generate_signing_key, *)
(* which writes the new key unencrypted through a temporary file, again   *)
(* without checking finish_writing_to_file.                               *)
(***************************************************************************)
SigningKey ==
  /\ pc = "signing"
  /\ LET p == opts.sk IN
     IF opts.reuse
     THEN \/ /\ Readable(disk[p])
             /\ sigKey' = disk[p].key
             /\ pc' = "certificate" /\ UNCHANGED <<exit, idKey, disk, nextKey>>
          \/ /\ Finish(1) /\ UNCHANGED <<disk, nextKey>>
     ELSE \/ /\ nextKey <= MaxKeys
             /\ sigKey' = nextKey /\ nextKey' = nextKey + 1
             /\ \/ disk' = [disk EXCEPT ![p] = SkFile(nextKey)]
                \/ UNCHANGED disk                  \* finish_writing_to_file fails
             /\ pc' = "certificate" /\ UNCHANGED <<exit, idKey>>
          \/ /\ Finish(1) /\ UNCHANGED <<disk, nextKey>>
  /\ UNCHANGED <<opts, created, roles>>

(***************************************************************************)
(* generate_certificate: fopen(certificate_file, "w") truncates the file, *)
(* then fputs writes the certificate of the loaded keys; a failed fopen   *)
(* leaves the old file, a failed fputs an empty or partial one; fclose,  *)
(* whose flush of the buffered text can fail, is not checked, so the run *)
(* exits 0 with a partial certificate.                                    *)
(***************************************************************************)
GenerateCertificate ==
  /\ pc = "certificate"
  /\ LET p == opts.cert IN
     \/ /\ disk' = [disk EXCEPT ![p] = Cert(idKey, sigKey)] /\ Finish(0)
     \/ /\ UNCHANGED disk /\ Finish(1)               \* fopen failed
     \/ /\ disk' = [disk EXCEPT ![p] = Junk] /\ Finish(1)   \* fputs failed
     \/ /\ disk' = [disk EXCEPT ![p] = Junk] /\ Finish(0)   \* fclose's flush failed, unchecked
  /\ UNCHANGED <<opts, nextKey, created, roles>>

Init ==
  /\ disk = [p \in Paths |-> None]
  /\ pc = "idle"
  /\ opts = ParseCommandline(<<>>)
  /\ idKey = 0 /\ sigKey = 0 /\ nextKey = 1 /\ exit = -1
  /\ created = {} /\ roles = [p \in Paths |-> {}]

Next ==
  \/ \E argv \in Argvs : Start(argv)
  \/ LoadIdentityKey
  \/ SigningKey
  \/ GenerateCertificate

Spec == Init /\ [][Next]_vars
-----------------------------------------------------------------------------
TypeOK ==
  /\ disk \in [Paths -> {None, Junk} \cup {IdFile(k) : k \in 1..MaxKeys}
                 \cup {SkFile(k) : k \in 1..MaxKeys}
                 \cup {Cert(i, s) : i, s \in 0..MaxKeys}]
  /\ pc \in {"idle", "identity", "signing", "certificate"}
  /\ nextKey \in 1..(MaxKeys + 1) /\ exit \in {-1, 0, 1}
  /\ created \subseteq 1..MaxKeys /\ roles \in [Paths -> SUBSET {"id", "sk", "cert"}]

(***************************************************************************)
(* An identity key, once installed on disk, is never lost: no later run   *)
(* replaces or truncates the file holding it (--create-identity-key       *)
(* refuses an existing file, and the signing key and certificate go to   *)
(* other files), as long as no file is named for two roles, in one run   *)
(* or in two.                                                             *)
(***************************************************************************)
IdentityNeverLost ==
  ~Aliased => \A k \in created : \E p \in Paths : disk[p] = IdFile(k)

(***************************************************************************)
(* A run that exits 0 leaves on disk the keys its certificate certifies: *)
(* the certificate file binds the identity key in the identity key file  *)
(* to the signing key in the signing key file, which an authority loads  *)
(* together.                                                              *)
(***************************************************************************)
ExitZeroMeansSaved ==
  pc = "idle" /\ exit = 0 /\ ~Aliased =>
    /\ disk[opts.cert].kind = "cert"
    /\ Readable(disk[opts.id]) /\ disk[opts.id].key = disk[opts.cert].key
    /\ Readable(disk[opts.sk]) /\ disk[opts.sk].key = disk[opts.cert].sk
=============================================================================
