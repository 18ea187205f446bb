---------------------------- MODULE NodeSdkProps ----------------------------
(* What an application that uses the Node.js SDK may rely on. *)
EXTENDS NodeSdk

Returned == {i \in Ids : calls[i].at = "done"}

\* A flag as the methods see it: a link without a file is no flag.
AsFlag(s) == IF s = Dangling THEN None ELSE s

\* What a call for one flag comes to is right for the flag as it was at some moment of
\* the call: the file may change or vanish between existsSync and readFileSync, the
\* variables of the process never change, and nothing is remembered from earlier
\* calls.  Only a request that failed gives a default although the flag is there, and
\* only json throws, for a value that is not JSON
\* (index.ts:53-77, 106-111, 126-134, 148-164).
AnswersAreOfTheirTime ==
  \A i \in Returned :
    LET c == calls[i]
        past == {AsFlag(s) : s \in c.seen[c.name]} IN
    c.kind # "allFlags" /\ ~c.failed =>
      /\ c.read[c.name] \in past
      /\ c.answer = "default" =>
           \E f \in past : f = None \/ f.disabled \/ (c.kind = "int" /\ f.value \notin Numbers)
      /\ c.answer = "throws" =>
           c.kind = "json" /\ \E f \in past \ {None} : f.value \notin Jsons
      /\ c.answer = "false" => \E f \in past \ {None} : ~f.disabled /\ f.value \notin Truthy

\* allFlags has each flag as it was at some moment of the call, not all of them of the
\* same moment; a flag that was there throughout is in it.  Or it has no flag at all:
\* then the sidecar was not reached, or a key was being removed, whose link is there a
\* moment longer than its file (index.ts:136-144, 166-189).
ListsAreWhole ==
  \A i \in Returned :
    LET c == calls[i] IN
    c.kind = "allFlags" =>
      \/ \A n \in FlagNames : c.read[n] \in {AsFlag(s) : s \in c.seen[n]}
      \/ /\ Named(c.read) = {}
         /\ c.failed \/ \E n \in FlagNames : Dangling \in c.seen[n]

=============================================================================
