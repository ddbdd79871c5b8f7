-------------------------------- MODULE TofuStore --------------------------------
(***************************************************************************)
(* Trust on first use: SelfSignedTofuServerVerifier over the filesystem    *)
(* store.  A handshake with a server name trusts the first certificate it  *)
(* sees, and no other until that one expires; the store keeps what is      *)
(* trusted in a map, and in one file per name for the next start of the    *)
(* program.  The module is about the trust surviving the crashes, failed   *)
(* writes and expiries that can come between the steps of a store.         *)
(***************************************************************************)
EXTENDS Integers

CONSTANTS
    Names,      \* server names
    Certs,      \* self-signed certificates
    Subjects,   \* the names each certificate is for
    NotBefore,  \* the validity of each certificate, in whole seconds
    NotAfter,
    Givens,     \* what the application may start the store with: the certificates
                \* it gives for the names, or none
    None,
    MaxTime     \* bound on the clock

\* What store_certificate writes one after the other, and the parser reads.
Pieces == {"digest", "not_before", "not_after"}

\* A store_certificate under way, and what it does next.
Stores == [name : Names, cert : Certs, next : {"create"} \cup Pieces]

ASSUME TofuAssumption ==
    /\ None \notin Certs \cup Stores
    /\ Subjects \in [Certs -> SUBSET Names]
    /\ NotBefore \in [Certs -> Int]
    /\ NotAfter \in [Certs -> Int]
    /\ Givens \subseteq [Names -> Certs \cup {None}]
    /\ MaxTime \in Nat

VARIABLES
    now,        \* the system's clock
    map,        \* FilesystemTofuServerCertStore::map
    files,      \* the store's directory
    storing,    \* the verification that holds the mutex to write its file
    running,    \* the program runs
    accepted,   \* history: the certificates that handshakes accepted
    unsaved,    \* history: names whose certificate was trusted without a file
    setBack,    \* history: the clock has been set back
    given       \* history: what the last start was given

vars == <<now, map, files, storing, running, accepted, unsaved, setBack, given>>

\* A file, as the certificate each of its pieces was taken from.  A file that is
\* not there has none.
File == [Pieces -> Certs \cup {None}]

Empty == [p \in Pieces |-> None]

TypeOK ==
    /\ now \in 0..MaxTime
    /\ map \in [Names -> Certs \cup {None}]
    /\ files \in [Names -> File]
    /\ storing \in Stores \cup {None}
    /\ running \in BOOLEAN
    /\ accepted \in [Names -> SUBSET Certs]
    /\ unsaved \in SUBSET Names
    /\ setBack \in BOOLEAN
    /\ given \in [Names -> Certs \cup {None}]

Init ==
    /\ now = 0
    /\ map = [n \in Names |-> None]
    /\ files = [n \in Names |-> Empty]
    /\ storing = None
    /\ running = FALSE
    /\ accepted = [n \in Names |-> {}]
    /\ unsaved = {}
    /\ setBack = FALSE
    /\ given = [n \in Names |-> None]

ValidAt(c, t) == NotBefore[c] <= t /\ t <= NotAfter[c]

\* What handshakes with n have accepted and is still valid.
Trusted(n) == {c \in accepted[n] : ValidAt(c, now)}

-----------------------------------------------------------------------------
(* Starting the program.  An operator named Name_Slip is Name with a mistake  *)
(* the properties must notice.                                               *)

\* parse_entry: a file with less than all of its data is not an entry.
Whole(f) == \A p \in Pieces : f[p] # None

\* The entry goes by the digest: files that mix certificates never parse to one
\* of them, see FilesAreOfOneCert.
Parsed(f) == f["digest"]

\* The names that had a given certificate only and are given another, or none.
GivenAnew(g) ==
    {n \in Names : Trusted(n) # {} /\ ~Whole(files[n]) /\ g[n] # given[n]}

\* Keeps what the application gave.
Start_Slip(g) ==
    /\ ~running
    /\ running' = TRUE
    /\ given' = g
    /\ map' = [n \in Names |->
           IF g[n] # None THEN g[n]
           ELSE IF Whole(files[n]) THEN Parsed(files[n]) ELSE None]
    /\ unsaved' = unsaved \cup GivenAnew(g)
    /\ UNCHANGED <<now, files, storing, accepted, setBack>>

\* new, which is given nothing, and new_with_certs: the directory's entries are
\* put over those given.
Start(g) ==
    /\ ~running
    /\ running' = TRUE
    /\ given' = g
    /\ map' = [n \in Names |->
           IF Whole(files[n]) THEN Parsed(files[n]) ELSE g[n]]
    /\ unsaved' = unsaved \cup GivenAnew(g)
    /\ UNCHANGED <<now, files, storing, accepted, setBack>>

\* new_empty and new_empty_with_certs: the directory is "ignored and potentially
\* overwritten".
StartEmpty(g) ==
    /\ ~running
    /\ running' = TRUE
    /\ given' = g
    /\ map' = g
    /\ unsaved' = Names
    /\ UNCHANGED <<now, files, storing, accepted, setBack>>

\* The process ends, between any two steps of a store.
Crash ==
    /\ running
    /\ running' = FALSE
    /\ map' = [n \in Names |-> None]
    /\ storing' = None
    /\ UNCHANGED <<now, files, accepted, unsaved, setBack, given>>

-----------------------------------------------------------------------------
(* verify_server_cert *)

\* webpki has found c self-signed, for n and currently valid, and the mutex of
\* the store is free.
Verifying(n, c) ==
    /\ running
    /\ storing = None
    /\ n \in Subjects[c]
    /\ ValidAt(c, now)

\* The stored certificate is still valid, and it is this one.  Any other is
\* refused, which changes nothing.
VerifyKnown(n, c) ==
    /\ Verifying(n, c)
    /\ map[n] = c
    /\ accepted' = [accepted EXCEPT ![n] = @ \cup {c}]
    /\ UNCHANGED <<now, map, files, storing, running, unsaved, setBack, given>>

\* Forgets to look at the stored certificate's end.
Replaceable_Slip(n) == map[n] # None => NotBefore[map[n]] < now

\* A new server name, or a stored certificate that is "no longer valid".
Replaceable(n) == map[n] # None => ~ValidAt(map[n], now)

\* store_certificate: the map at once, the file while the mutex is held.
VerifyNew(n, c) ==
    /\ Verifying(n, c)
    /\ Replaceable(n)
    /\ map' = [map EXCEPT ![n] = c]
    /\ storing' = [name |-> n, cert |-> c, next |-> "create"]
    /\ UNCHANGED <<now, files, running, accepted, unsaved, setBack, given>>

Storing(step) == storing # None /\ storing.next = step

\* store_certificate returns, and the handshake accepts the certificate.
Accept ==
    /\ storing' = None
    /\ accepted' = [accepted EXCEPT ![storing.name] = @ \cup {storing.cert}]

\* create_dir_all or File::create fails: the file stays as it was.
CreateFails ==
    /\ Storing("create")
    /\ Accept
    /\ unsaved' = unsaved \cup {storing.name}
    /\ UNCHANGED <<now, map, files, running, setBack, given>>

\* File::create truncates.
Create ==
    /\ Storing("create")
    /\ files' = [files EXCEPT ![storing.name] = Empty]
    /\ storing' = [storing EXCEPT !.next = "digest"]
    /\ UNCHANGED <<now, map, running, accepted, unsaved, setBack, given>>

\* A slip: the file has one piece less.
After_Slip(p) == IF p = "digest" THEN "not_before" ELSE "end"

\* The piece after p.
After(p) == IF p = "digest" THEN "not_before" ELSE "not_after"

\* The next write_all.  If it fails, the writes after it are tried all the same.
Write(p) ==
    /\ Storing(p)
    /\ \E ok \in BOOLEAN :
         /\ files' = IF ok THEN [files EXCEPT ![storing.name][p] = storing.cert]
                           ELSE files
         /\ unsaved' = IF ok THEN unsaved ELSE unsaved \cup {storing.name}
    /\ IF p = "not_after"
       THEN Accept
       ELSE /\ storing' = [storing EXCEPT !.next = After(p)]
            /\ UNCHANGED accepted
    /\ UNCHANGED <<now, map, running, setBack, given>>

-----------------------------------------------------------------------------
(* Time *)

Tick ==
    /\ now < MaxTime
    /\ now' = now + 1
    /\ UNCHANGED <<map, files, storing, running, accepted, unsaved, setBack,
                   given>>

SetClockBack ==
    /\ now > 0
    /\ now' \in 0..(now - 1)
    /\ setBack' = TRUE
    /\ UNCHANGED <<map, files, storing, running, accepted, unsaved, given>>

-----------------------------------------------------------------------------

Next ==
    \/ \E g \in Givens : Start(g) \/ StartEmpty(g)
    \/ Crash
    \/ \E n \in Names, c \in Certs : VerifyKnown(n, c) \/ VerifyNew(n, c)
    \/ CreateFails \/ Create
    \/ \E p \in Pieces : Write(p)
    \/ Tick \/ SetClockBack

Spec == Init /\ [][Next]_vars

-----------------------------------------------------------------------------
(* Properties *)

\* "The certificate has not changed since the last connection to this server
\* name" (tofu.rs:256), for as long as it is valid: of all the certificates ever
\* accepted for a name only one is still valid, whatever crashes, expires and is
\* renewed, unless a file could not be written, new_empty threw the directory
\* away, a start was not given a certificate that only the application kept, or
\* the clock was set back.
OneCertPerName ==
    ~setBack =>
      \A n \in Names \ unsaved : \A c, d \in Trusted(n) : c = d

\* An entry of the directory is a certificate some handshake presented for the
\* name, digest and validity from one and the same: writes that fail or stop in
\* the middle leave a file the parser refuses (tofu.rs:224-226).
FilesAreOfOneCert ==
    \A n \in Names : Whole(files[n]) =>
      \A p, q \in Pieces : files[n][p] = files[n][q]

\* What a restart would have for n that is given the same again.
Restored(n) == IF Whole(files[n]) THEN Parsed(files[n]) ELSE given[n]

StoringIsAhead ==
    storing # None =>
      /\ running
      /\ map[storing.name] = storing.cert
      /\ ~setBack => NotBefore[storing.cert] <= now
      /\ storing.next # "create" =>
           \A p \in Pieces : files[storing.name][p] \in {None, storing.cert}

WrittenInOrder ==
    (storing # None /\ storing.name \notin unsaved) =>
      /\ storing.next \in {"not_before", "not_after"} =>
           files[storing.name]["digest"] = storing.cert
      /\ storing.next = "not_after" =>
           files[storing.name]["not_before"] = storing.cert

PiecesAgree ==
    \A n \in Names : \A p, q \in Pieces :
      files[n][p] # None /\ files[n][q] # None => files[n][p] = files[n][q]

BegunByNow == ~setBack => \A n \in Names : \A c \in accepted[n] : NotBefore[c] <= now

StoringNothingTrusted ==
    (storing # None /\ ~setBack /\ storing.name \notin unsaved) =>
      Trusted(storing.name) = {}

SavedAgrees ==
    \A n \in Names \ unsaved :
      (storing = None \/ storing.name # n) =>
        /\ running => map[n] = Restored(n)
        /\ ~setBack => Trusted(n) \subseteq {Restored(n)}

\* A restart, at any moment, trusts what the program trusted: whenever no write
\* is under way the map is what the directory would restore, and nothing else
\* that is still valid was ever accepted; a write is only under way for a name
\* with nothing left to trust (tofu.rs:201-207, 375-377).
StoreInv ==
    /\ StoringIsAhead
    /\ WrittenInOrder
    /\ PiecesAgree
    /\ BegunByNow
    /\ StoringNothingTrusted
    /\ SavedAgrees
=============================================================================
