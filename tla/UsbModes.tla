------------------------------ MODULE UsbModes ------------------------------
(***************************************************************************)
(* The tables of usbd: the USB modes of usb_defines.h, what the rows of    *)
(* usb_mode_list in usb_app.c give each of them, and the table of the      *)
(* alternate modes.  A row's name and strings stand for the mode itself;   *)
(* what matters is which rows have which entry.                            *)
(***************************************************************************)
EXTENDS Integers

CONSTANT MsdCdrom   \* built with MSD_CDROM_ENABLED: MSC carries a CD-ROM too

BpModes == {"BPTOOLS_ETH", "BPTOOLS_ETH_ADB", "RNDIS_BPTOOLS_ETH", "RNDIS_BPTOOLS_ETH_ADB"}
TabletModes == {"TABLET_NETWORK_MTP", "TABLET_NETWORK_MTP_ADB"}
FactoryModes == {"NETWORK", "NETWORK_ADB"}

Modes ==
  {"MIN", "NGP", "CDROM", "MTP", "MSC", "MSC_ONLY", "HID", "NGP_ADB", "MTP_ADB", "MSC_ADB",
   "ADB", "MODEM", "MODEM_ADB", "CHARGE_ONLY", "CHARGE_ADB", "RNDIS", "RNDIS_ADB", "CDROM2"}
  \cup BpModes \cup TabletModes \cup FactoryModes

\* Rows with a mode_req: an application may ask for them.
Requestable == Modes \ ({"NGP", "CDROM2"} \cup FactoryModes \cup TabletModes)

\* Rows with a mode_done: the application hears when they are up.
DoneModes == {"NGP", "NGP_ADB", "MTP", "MTP_ADB", "MSC", "MSC_ONLY", "MSC_ADB"}

\* Rows with a switch_req: a PC's wish for them is passed to the application.
SwitchModes ==
  Modes \ ({"MIN", "CDROM", "CDROM2", "MSC_ONLY"} \cup FactoryModes \cup TabletModes)

\* Rows whose enable_done/pre_disable switch the mass storage on and off.
MscModes == {"MSC", "MSC_ONLY", "MSC_ADB"}

\* Rows whose hooks raise the driver's cdrom parameter and export the image.
CdModes == {"CDROM", "CDROM2"} \cup (IF MsdCdrom THEN {"MSC"} ELSE {})

Startups == {"NORMAL", "DEBUG", "BPTOOLS", "TABLET"}

usb_alt_mode_tlb ==
  [BPTOOLS |-> << <<"BPTOOLS_ETH", "RNDIS_BPTOOLS_ETH">>,
                  <<"BPTOOLS_ETH_ADB", "RNDIS_BPTOOLS_ETH_ADB">> >>,
   TABLET  |-> << <<"CDROM", "CDROM">>,
                  <<"TABLET_NETWORK_MTP_ADB", "RNDIS_ADB">> >>]

\* usb_alt_mode_tlb[startup][adb][tether], with C's indices 0 and 1.
AltMode(startup, adb, tether) == usb_alt_mode_tlb[startup][adb + 1][tether + 1]
=============================================================================
