----------------------------- MODULE LinkMonitor ------------------------------
(* Eth_Link_ITHandler, which the main loop calls with the ARP timer: it reads *)
(* the PHY's status register twice, because the link bit is latched low: once *)
(* the link has been lost the bit reads 0 until it has been read.  ETH_Reinit *)
(* resets the PHY and waits for the link and for its negotiation.             *)
EXTENDS Naturals

CONSTANTS
    Modes,      \* speed and duplex a negotiation can end in
    LateLink    \* whether a link may show in the last read before a time-out

ASSUME LinkMonitorAssumption == LateLink \in BOOLEAN

VARIABLES
    cable,          \* the mode the other end can do, "out" without one
    phy,            \* the mode of the PHY's link, "down" without one
    latch,          \* the link was lost since the register was last read
    EthInitStatus,
    mac,            \* the mode the MAC is set to, "unset" before the first
    flag,           \* NETIF_FLAG_LINK_UP
    pc              \* where the main loop is

vars == <<cable, phy, latch, EthInitStatus, mac, flag, pc>>

TypeOK ==
    /\ cable \in Modes \cup {"out"}
    /\ phy \in Modes \cup {"down"}
    /\ latch \in BOOLEAN
    /\ EthInitStatus \in {0, 1}
    /\ mac \in Modes \cup {"unset"}
    /\ flag \in BOOLEAN
    /\ pc \in {"boot", "bootwait", "idle", "second", "reinit", "wait"}

Init ==
    /\ cable \in Modes \cup {"out"}
    /\ phy = "down"
    /\ latch = TRUE
    /\ EthInitStatus = 0
    /\ mac = "unset"
    /\ flag = FALSE
    /\ pc = "boot"

-----------------------------------------------------------------------------
(* The cable and the PHY.                                                     *)
Cable ==
    /\ cable' \in (Modes \cup {"out"}) \ {cable}
    /\ phy' = "down"
    /\ latch' = TRUE
    /\ UNCHANGED <<EthInitStatus, mac, flag, pc>>

LinkComes ==
    /\ cable # "out" /\ phy = "down"
    /\ phy' = cable
    /\ UNCHANGED <<cable, latch, EthInitStatus, mac, flag, pc>>

(* What a read of PHY_BSR returns of the link, and what it does to the latch. *)
LinkedBit == phy # "down" /\ ~latch
AutoNegoBit == phy # "down"
ReadsBSR == latch' = (phy = "down")

(* ETH_Init resets the PHY ...                                                *)
ResetPhy ==
    /\ phy' = "down"
    /\ latch' = TRUE
    /\ UNCHANGED <<cable, EthInitStatus, mac, flag>>

(* ... reads the status until the link is there, and sets the MAC to what the *)
(* negotiation has given; or it gives up after PHY_READ_TO reads, also if the *)
(* last of them has shown the link.                                           *)
InitEnds ==
    /\ \/ /\ phy # "down"
          /\ EthInitStatus' = 1
          /\ mac' = phy
       \/ /\ phy = "down" \/ LateLink
          /\ EthInitStatus' = 0
          /\ UNCHANGED mac
    /\ ReadsBSR
    /\ UNCHANGED <<cable, phy>>

Boot ==
    /\ pc = "boot"
    /\ pc' = "bootwait"
    /\ ResetPhy

(* low_level_init sets the flag whatever ETH_Init returned.                   *)
BootEnds ==
    /\ pc = "bootwait"
    /\ pc' = "idle"
    /\ InitEnds
    /\ flag' = TRUE

(* Eth_Link_ITHandler: the first read ...                                     *)
FirstRead ==
    /\ pc = "idle"
    /\ pc' = IF LinkedBit THEN "idle" ELSE "second"
    /\ ReadsBSR
    /\ UNCHANGED <<cable, phy, EthInitStatus, mac, flag>>

(* ... and the second.                                                        *)
SecondRead_NoInit ==
    /\ pc = "second"
    /\ pc' = "idle"
    /\ flag' = (AutoNegoBit \/ LinkedBit)
    /\ ReadsBSR
    /\ UNCHANGED <<cable, phy, EthInitStatus, mac>>
SecondRead_NoUp ==
    /\ pc = "second"
    /\ IF AutoNegoBit \/ LinkedBit
       THEN pc' = (IF EthInitStatus # 1 THEN "reinit" ELSE "idle") /\ UNCHANGED flag
       ELSE pc' = "idle" /\ flag' = FALSE
    /\ ReadsBSR
    /\ UNCHANGED <<cable, phy, EthInitStatus, mac>>
SecondRead ==
    /\ pc = "second"
    /\ IF AutoNegoBit \/ LinkedBit
       THEN IF EthInitStatus # 1
            THEN pc' = "reinit" /\ UNCHANGED flag
            ELSE pc' = "idle" /\ flag' = TRUE
       ELSE pc' = "idle" /\ flag' = FALSE
    /\ ReadsBSR
    /\ UNCHANGED <<cable, phy, EthInitStatus, mac>>

Reinit ==
    /\ pc = "reinit"
    /\ pc' = "wait"
    /\ ResetPhy

ReinitEnds ==
    /\ pc = "wait"
    /\ pc' = "idle"
    /\ InitEnds
    /\ UNCHANGED flag

Main == Boot \/ BootEnds \/ FirstRead \/ SecondRead \/ Reinit \/ ReinitEnds

Next == Cable \/ LinkComes \/ Main

(* The main loop runs, the PHY finds a link that is there, and it finds one   *)
(* also within the time ETH_Init waits: PHY_ResetDelay and PHY_READ_TO are    *)
(* made for that.                                                             *)
Fairness ==
    /\ WF_vars(Main)
    /\ WF_vars(LinkComes)
    /\ SF_vars(pc = "wait" /\ LinkComes)

Spec == Init /\ [][Next]_vars /\ Fairness

-----------------------------------------------------------------------------
Steady(m) == <>[](cable = m)
BootedWithLink == [](pc \in {"boot", "bootwait"} \/ EthInitStatus = 1)

(* A cable that stays in gets the Ethernet interface initialised, whenever it *)
(* was put in (netconf.c 205-214), if ETH_Init returns an error only "in case *)
(* of timeout" (stm32_eth.c 239).                                             *)
Initialises == \A m \in Modes : Steady(m) => <>[](EthInitStatus = 1)

(* The flag comes to say what the cable does, if the interface was            *)
(* initialised at boot: a cable that stays out is noticed, and one that comes *)
(* back, though a poll that reads the link bit once does not see it return    *)
(* (netconf.c 205-225).                                                       *)
LinkSeen ==
    /\ Steady("out") => <>[](~flag)
    /\ \A m \in Modes : Steady(m) /\ BootedWithLink => <>[]flag

(* The flag tells whether "the interface has an active link (set by the       *)
(* network interface driver)", also after a boot without one (netif.h 76-78). *)
FlagFollows == \A m \in Modes : Steady(m) => <>[]flag

(* The MAC adapts itself to the network (stm32f107.c 165).                    *)
ModeFollows == \A m \in Modes : Steady(m) => <>[](mac = m)
=============================================================================
