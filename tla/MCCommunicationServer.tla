----------------------- MODULE MCCommunicationServer -----------------------
\* The values of the constants are in the configurations.
EXTENDS CommunicationServer
=============================================================================
