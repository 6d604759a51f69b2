----------------------------- MODULE MCStartup -----------------------------
EXTENDS Startup

Used(c) ==
  {s \in Secret : \/ c.tls /\ s \in {"cert", "key"}
                  \/ c.mechanism = "plain" /\ s \in {"username", "password"}
                  \/ c.mechanism = "oauthbearer" /\ s = "token"}

Present(c) == {s \in Secret : c.src[s] # {}}

(* What clientOpts refuses, one thing at a time: a secret that is not used *)
(* or is missing, or is given in two ways, or an unknown mechanism.        *)
Refused(c) ==
  \/ Present(c) = {"cert"}
  \/ Present(c) = {"token"} /\ c.mechanism = "none"
  \/ Present(c) \subseteq Used(c) /\ Present(c) \in {{}, {"username"}} /\ c.mechanism # "none"
  \/ Present(c) = Used(c) /\ \E s \in Used(c) : c.src[s] = {"inline", "file"}

(* What it accepts: no secrets; an inline token; and, from files, a client *)
(* certificate or a password, whose halves may match or not, and a token,  *)
(* read after TLS has got through.                                         *)
From(c, way, S) == Present(c) = S /\ \A s \in S : c.src[s] = {way}

Accepted(c) ==
  \/ Present(c) = {} /\ c.mechanism = "none"
  \/ /\ c.options /\ c.createTopic
     /\ \/ ~c.tls /\ c.mechanism = "oauthbearer" /\ From(c, "inline", {"token"})
        \/ c.tls /\ c.mechanism = "none" /\ From(c, "file", {"cert", "key"})
        \/ ~c.tls /\ c.mechanism = "plain" /\ From(c, "file", {"username", "password"})
        \/ c.tls /\ c.mechanism = "oauthbearer" /\ From(c, "file", {"token"})

MCConfigs == {c \in ConfigOf : Refused(c) \/ Accepted(c)}
=============================================================================
