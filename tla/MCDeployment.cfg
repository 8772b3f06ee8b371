SPECIFICATION SuiteSpec
CONSTANTS
    Inventory = {"genie", "wan", "cpe", "lan", "wlan", "phone", "axiros"}
    MaxDevices = 3
    Macs = {m1, m2}
    Mac = m1
    NoMac = nomac
    MaxEncodings = 2
    MaxConsoles = 3
    MaxListed = 3
INVARIANTS SuiteTypeOK HooksInOrder DevicesAccounted  BootIsSound MatchingIsRight
PROPERTIES SetupEnds
