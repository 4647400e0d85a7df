------------------------------- MODULE Logger -------------------------------
(***************************************************************************)
(* The daemon's log (logger.rs): lines are appended to fluxd.log, which is *)
(* rotated at the write boundary into fluxd.log.1, fluxd.log.2 and so on.  *)
(* Every rename and removal of a rotation can fail, and the daemon can be  *)
(* killed between two of them; the next rotation starts from the directory *)
(* that is left.  A line is its number and one unit of size.               *)
(***************************************************************************)
EXTENDS Values

CONSTANTS
    LogPolicies,    \* accepted [max_bytes, retain]
    MaxLines        \* bound: lines written

\* The configuration accepts no size of 0.
ASSUME LoggerAssumption == LogPolicies \subseteq [max_bytes : Nat \ {0}, retain : Nat]

VARIABLES
    logs,           \* the directory: index -> lines, 0 for fluxd.log
    logger,         \* [open, bytes, policy] of the running Logger
    todo,           \* indices the rotation under way has still to move
    line            \* the last line that was written

logvars == <<logs, logger, todo, line>>

Without(d, i) == [j \in DOMAIN d \ {i} |-> d[j]]
With(d, i, lines) == [j \in DOMAIN d \cup {i} |-> IF j = i THEN lines ELSE d[j]]
Lines(d, i) == IF i \in DOMAIN d THEN d[i] ELSE <<>>

\* rename: what has the name already is replaced.
Moved(d, i, j) == With(Without(d, i), j, d[i])

\* Logger::open: the default policy, until a configuration is accepted.
LoggerStart(policy) ==
    /\ logs = [i \in {0} |-> <<>>] /\ todo = {} /\ line = 0
    /\ logger = [open |-> TRUE, bytes |-> 0, policy |-> policy]

\* reopen: append, create when it is not there, and take the size it has.
reopen(l, d) == [l EXCEPT !.open = TRUE, !.bytes = Len(Lines(d, 0))]

\* configure.
configure(policy) ==
    /\ todo = {} /\ policy # logger.policy /\ logger' = [logger EXCEPT !.policy = policy]
    /\ UNCHANGED <<logs, todo, line>>

\* append, up to the rotation: a file that is not open is opened again first.
Opened == IF logger.open THEN logger ELSE reopen(logger, logs)
Due == Opened.bytes >= Opened.policy.max_bytes

Written(d) == With(d, 0, Append(Lines(d, 0), line + 1))

\* A write that fails may have written; the file is given up.
append(ok, partial) ==
    /\ todo = {} /\ line < MaxLines /\ ~Due /\ line' = line + 1
    /\ logs' = IF ok \/ partial THEN Written(logs) ELSE With(logs, 0, Lines(logs, 0))
    /\ logger' = IF ok THEN [Opened EXCEPT !.bytes = @ + 1] ELSE [Opened EXCEPT !.open = FALSE]
    /\ UNCHANGED todo

\* rotate: the regular files fluxd.log.<index> of the directory, and fluxd.log itself.
rotate ==
    /\ todo = {} /\ line < MaxLines /\ Due
    /\ logger' = [logger EXCEPT !.open = FALSE]
    /\ todo' = DOMAIN logs \cup {0} /\ UNCHANGED <<logs, line>>

\* Mutant of Foremost: the smallest index first.
Foremost_Smallest(indices) == CHOOSE i \in indices : \A j \in indices : i <= j

\* rotate: sorted, the largest index first; fluxd.log itself is the last.
Foremost(indices) == CHOOSE i \in indices : \A j \in indices : j <= i

\* Mutant of NotRetained: one more than the policy retains.
NotRetained_OneMore(i) == i > logger.policy.retain

\* fluxd.log goes only when nothing is retained, and fluxd.log.n from n = retain on.
NotRetained(i) == i >= logger.policy.retain

\* One step of the rotation; the last one is followed by reopen, which can fail, and by the write.
rotate_step(reopened) ==
    /\ todo # {} /\ (todo # {0} => reopened)
    /\ LET i == Foremost(todo)
           d == IF NotRetained(i) THEN Without(logs, i) ELSE Moved(logs, i, i + 1)
       IN /\ IF todo # {i} THEN logs' = d /\ UNCHANGED <<logger, line>>
             ELSE /\ logs' = IF reopened THEN Written(d) ELSE d
                  /\ logger' = IF reopened THEN [logger EXCEPT !.open = TRUE, !.bytes = 1] ELSE logger
                  /\ line' = line + 1
          /\ todo' = todo \ {i}

\* remove_file, rename or read_dir fails: the line is on stderr only, and the file stays closed.
rotate_fails ==
    /\ todo # {} /\ todo' = {} /\ line' = line + 1 /\ UNCHANGED <<logs, logger>>

\* The daemon is killed and started again, by its supervisor.
Restart(policy) ==
    /\ logger' = [open |-> TRUE, bytes |-> Len(Lines(logs, 0)), policy |-> policy]
    /\ logs' = With(logs, 0, Lines(logs, 0)) /\ todo' = {} /\ UNCHANGED line /\ logvars' # logvars

LoggerNext ==
    \/ \E p \in LogPolicies : configure(p) \/ Restart(p)
    \/ \E ok, partial \in BOOLEAN : append(ok, partial)
    \/ \E reopened \in BOOLEAN : rotate_step(reopened)
    \/ rotate \/ rotate_fails

----------------------------------------------------------------------------
Begins(lines, first) == Len(first) <= Len(lines) /\ SubSeq(lines, 1, Len(first)) = first

\* rotate: no rename overwrites a file. A file that the policy retains loses no line, in any
\* step, also when an interrupted rotation has left a gap.
LogKept ==
    \A i \in DOMAIN logs :
        i >= logger.policy.retain \/ \E j \in DOMAIN logs' : Begins(logs'[j], logs[i])

\* rotate: after a rotation that was carried to its end no more files are left than the policy
\* retains, however many an earlier policy or an interrupted rotation had left behind.
RetentionHolds ==
    todo # {} /\ logger'.open /\ line' # line => Cardinality(DOMAIN logs' \ {0}) <= logger.policy.retain

\* rotate: rotations lose nothing the policy retains and retain no more.
RotationIsSound == [][LogKept /\ RetentionHolds]_logvars
=============================================================================
