------------------------------ MODULE SslScan ------------------------------
(***************************************************************************)
(* What apps/ssl_check makes of an sslyze scan (sslyze_scanner.py).  A     *)
(* scan is the outcome of each command and the certificate that was        *)
(* received.  A command that did not complete is no finding of any kind:   *)
(* "lacking" is told from "clean" nowhere but in what the code leaves out. *)
(***************************************************************************)
EXTENDS Integers, FiniteSets

\* ssl_check/constants.py: the protocols sslyze is asked to try.
PROTOCOL_SCANS == {"SSL 2.0", "SSL 3.0", "TLS 1.0", "TLS 1.1", "TLS 1.2", "TLS 1.3"}

VulnerabilityScans == {"heartbleed", "openssl_ccs_injection", "robot",
                       "tls_compression_crime", "insecure_renegotiation"}

Commands == PROTOCOL_SCANS \cup VulnerabilityScans

\* "found": a cipher suite was accepted, or the vulnerability is there.
Outcomes == {"lacking", "clean", "found"}

Certificate == [outcome : {"lacking", "completed"}, days : Int, trusted : BOOLEAN]

Scan == [command : [Commands -> Outcomes], certificate : Certificate]

\* _completed and what the loops collect: the labels of the accepted protocols,
\* the true entries of the dictionary of vulnerabilities.
Protocols(scan) == {p \in PROTOCOL_SCANS : scan.command[p] = "found"}

Vulnerabilities(scan) == {v \in VulnerabilityScans : scan.command[v] = "found"}

Untrusted(certificate) == certificate.outcome = "completed" /\ ~certificate.trusted

ExpiresWithin(certificate, days) == certificate.outcome = "completed" /\ certificate.days < days

\* Mutant: the old protocols are looked at before the certificate.
GradeByProtocolsFirst(protocols, vulnerabilities, certificate) ==
    IF \/ protocols \cap {"SSL 2.0", "SSL 3.0"} # {}
       \/ vulnerabilities \cap {"heartbleed", "openssl_ccs_injection", "robot"} # {}
    THEN "F"
    ELSE IF protocols \cap {"TLS 1.0", "TLS 1.1"} # {} THEN "B"
    ELSE IF Untrusted(certificate) THEN "T"
    ELSE IF ExpiresWithin(certificate, 0) THEN "F"
    ELSE IF /\ "TLS 1.3" \in protocols
            /\ vulnerabilities \cap {"tls_compression_crime", "insecure_renegotiation"} = {}
    THEN "A+" ELSE "A"

\* _synthesise_grade: the first rule that applies.
SynthesiseGrade(protocols, vulnerabilities, certificate) ==
    IF \/ protocols \cap {"SSL 2.0", "SSL 3.0"} # {}
       \/ vulnerabilities \cap {"heartbleed", "openssl_ccs_injection", "robot"} # {}
    THEN "F"
    ELSE IF Untrusted(certificate) THEN "T"
    ELSE IF ExpiresWithin(certificate, 0) THEN "F"
    ELSE IF protocols \cap {"TLS 1.0", "TLS 1.1"} # {} THEN "B"
    ELSE IF /\ "TLS 1.3" \in protocols
            /\ vulnerabilities \cap {"tls_compression_crime", "insecure_renegotiation"} = {}
    THEN "A+" ELSE "A"

\* _parse: the fields of an SSLReport that the report and the advice read.
ParseScan(scan) ==
    LET protocols == Protocols(scan)
        vulnerabilities == Vulnerabilities(scan)
        certificate == scan.certificate IN
    [grade |-> SynthesiseGrade(protocols, vulnerabilities, certificate),
     has_warnings |-> \/ protocols \cap {"TLS 1.0", "TLS 1.1"} # {}
                      \/ vulnerabilities # {}
                      \/ Untrusted(certificate)
                      \/ ExpiresWithin(certificate, 30),
     protocols |-> protocols,
     vulnerabilities |-> vulnerabilities,
     certificate |-> certificate]

-----------------------------------------------------------------------------
\* Scan s is like scan t but for one more defect: an old protocol accepted, a
\* vulnerability found, a chain that is not trusted, fewer days left.
Defects == {"SSL 2.0", "SSL 3.0", "TLS 1.0", "TLS 1.1"} \cup VulnerabilityScans

Worsenings(scan) ==
    {[scan EXCEPT !.command[c] = "found"] : c \in Defects}
        \cup {[scan EXCEPT !.certificate.trusted = FALSE],
              [scan EXCEPT !.certificate.days = @ - 1],
              [scan EXCEPT !.certificate.days = -1]}
=============================================================================
