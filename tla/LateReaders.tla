---------------------------- MODULE LateReaders ----------------------------
(***************************************************************************)
(* Readers of a truncated log: one view (lease/view.go) per offset of the  *)
(* log, started uncertain there and fed every record since.  They are a    *)
(* history variable on top of LeaseProtocol: they see what the candidates  *)
(* write and influence nothing.                                            *)
(***************************************************************************)
EXTENDS LeaseProtocol

VARIABLE late  \* late[k] is a reader that started at offset k - 1

lateVars == <<vars, late>>

LateInit == Init /\ late = << >>

(* Every reader follows the log, and one more starts at each new record.   *)
Follow ==
  LET o == Len(log')
      e == log'[o]
  IN  late' = IF log' = log THEN late
              ELSE [k \in 1..o |->
                      viewAfter(IF k = o THEN NewView ELSE late[k], o - 1, e.ts, e.value)]

LateNext == Next /\ Follow

LateSpec == LateInit /\ [][LateNext]_lateVars

(* docs/protocol.md, "readers that started at different points agree as    *)
(* soon as they are certain": a reader started at any offset, once certain *)
(* through an anchor or through silence, has the state of a reader that    *)
(* saw the whole log.                                                      *)
LateReadersAgree ==
  \A k \in 1..End : late[k].certain => Agree(late[k].state, LogState, late[k].clock)
=============================================================================
