------------------------------- MODULE MCCourt --------------------------------
EXTENDS CourtProtocol, Export
===============================================================================
