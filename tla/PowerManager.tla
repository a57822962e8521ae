--------------------------- MODULE PowerManager ---------------------------
(***************************************************************************)
(* PowerManager: brings up the BQ25180 charger.  begin() writes the        *)
(* registers of a charge profile one after the other, reads them all back  *)
(* and reports the profile as configured only if every one holds what was  *)
(* written; it then polls the chip's status, which service() goes on to do *)
(* every second and which only tells whether the chip answers.             *)
(*                                                                         *)
(* The chip is external.  On its bus a transfer fails, or is acknowledged  *)
(* and yet has no effect.  The five registers of applyProfile() are a      *)
(* parameter: each is treated alike.  A register's fields other than the   *)
(* profile's, which updateRegister() keeps, are left out.                  *)
(***************************************************************************)
EXTENDS Naturals, Sequences

CONSTANT Registers    \* the profile's registers, in the order they are written

ASSUME RegistersAssumption == Registers \in Seq(STRING) /\ Registers # <<>>

VARIABLES
    chip,           \* chip[r]: register r holds the profile's value
    charger         \* PowerManager's state, and how far applyProfile() is

powerVars == <<chip, charger>>

AllRegisters == {Registers[i] : i \in DOMAIN Registers}

ChipAtPowerUp == [r \in AllRegisters |-> FALSE]

ChargerAtBoot ==
    [step |-> "begin", next |-> 1, configured |-> FALSE]

\* The transfer for Registers[next] is done.
NextRegister(step, nextStep) ==
    IF charger.next < Len(Registers)
    THEN [charger EXCEPT !.next = @ + 1]
    ELSE [charger EXCEPT !.step = nextStep, !.next = 1]

\* failProfile(); begin() goes on to poll.
FailProfile ==
    charger' = [charger EXCEPT !.step = "poll", !.configured = FALSE]

\* begin(), with the name of a profile or of none.
PowerBegin ==
    /\ charger.step = "begin"
    /\ \/ charger' = [ChargerAtBoot EXCEPT !.step = "write"]
       \/ FailProfile
    /\ UNCHANGED chip

WriteRegister ==
    /\ charger.step = "write"
    /\ \/ /\ charger' = NextRegister("write", "verify")
          /\ chip' = [chip EXCEPT ![Registers[charger.next]] = TRUE]
       \/ /\ charger' = NextRegister("write", "verify")
          /\ UNCHANGED chip
       \/ FailProfile /\ UNCHANGED chip

\* Mutant: the last register is not read back.
VerifyAllButLast ==
    /\ charger.step = "verify"
    /\ IF chip[Registers[charger.next]] \/ charger.next = Len(Registers)
       THEN \/ charger' = LET c == NextRegister("verify", "poll")
                          IN  [c EXCEPT !.configured = (c.step = "poll")]
            \/ FailProfile
       ELSE FailProfile
    /\ UNCHANGED chip

VerifyRegister ==
    /\ charger.step = "verify"
    /\ IF chip[Registers[charger.next]]
       THEN \/ charger' = LET c == NextRegister("verify", "poll")
                          IN  [c EXCEPT !.configured = (c.step = "poll")]
            \/ FailProfile
       ELSE FailProfile
    /\ UNCHANGED chip

\* service(), at the end of begin().
PowerPoll ==
    /\ charger.step = "poll"
    /\ charger' = [charger EXCEPT !.step = "up"]
    /\ UNCHANGED chip

PowerStep == PowerBegin \/ WriteRegister \/ VerifyRegister \/ PowerPoll

PowerTypeOK ==
    /\ chip \in [AllRegisters -> BOOLEAN]
    /\ charger \in [step : {"begin", "write", "verify", "poll", "up"},
                    next : DOMAIN Registers, configured : BOOLEAN]
============================================================================
