\* Three runs on two servers over two minutes, two faults.
SPECIFICATION FairSpec
CONSTANTS
    Servers <- MCServers
    Runs <- MCRuns
    ServerOf <- MCServerOf
    MinutesOf <- MCMinutesOf
    Policies <- MCPolicies
    MaxMinute = 2
    MaxFaults = 2
PROPERTIES
    RunsAreExclusive NothingStaysHeld
CHECK_DEADLOCK FALSE
