------------------------ MODULE MCEndpointStatuses ------------------------
EXTENDS EndpointStatuses
=============================================================================
